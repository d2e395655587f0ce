------------------------------- MODULE Tokenizer -------------------------------
(***************************************************************************)
(* The native tokenizer (pictor-tokenizer/src): merges learned from a      *)
(* corpus, text encoded by merges, by best path (Unigram) or by longest    *)
(* match (WordPiece), ids decoded in one piece or as they are generated.   *)
(*                                                                         *)
(* A string is the sequence of its code points.  The name `<0xHH>` of a    *)
(* byte is one symbol of its own, a number below zero.  Log-probabilities  *)
(* are integers.  BOS, EOS and the cut at max_length are off, as by        *)
(* default.                                                                *)
(***************************************************************************)
EXTENDS Integers, Sequences, FiniteSets, SequencesExt, FiniteSetsExt, Functions, TLC

CONSTANTS
    Corpora,        \* [freq, min_frequency, merges]: how often each word occurs, and TrainerConfig
    RoundTrips,     \* [tokenizer, text], to encode and decode
    StreamedBy,     \* tokenizers whose ids are decoded one by one
    MaxIds,         \* ids in a stream
    UnigramTexts,   \* [vocab, text] for a UnigramVocab
    WordPieceTexts  \* [vocab, text] for a WordPieceVocab

VARIABLES
    subject,   \* what this behaviour is about: [kind, of]
    trainer,   \* BpeTrainer::train: words -> their symbols, and the rules so far
    decoder    \* StreamingDecoder: ids pushed, bytes pending and bytes handed out

tokenVars == <<subject, trainer, decoder>>

SpaceMark == 288           \* the character of U+0120, which marks a space before a word
REPLACEMENT == 65533
byte_fallback_id(b) == <<-1 - b>>
-----------------------------------------------------------------------------
(* UTF-8, as std::str has it.                                                *)

Utf8(c) ==
    IF c < 128 THEN <<c>>
    ELSE IF c < 2048 THEN <<192 + c \div 64, 128 + (c % 64)>>
    ELSE <<224 + c \div 4096, 128 + ((c \div 64) % 64), 128 + (c % 64)>>
as_bytes(s) == FlattenSeq([i \in DOMAIN s |-> Utf8(s[i])])

\* What has to follow a byte: for each byte to come the set it may be from.
Nothing == <<{}>>
AfterLead(b) ==
    LET more == 128 .. 191
    IN CASE b < 128 -> <<>>
         [] b \in 194 .. 223 -> <<more>>
         [] b = 224 -> <<160 .. 191, more>>
         [] b = 237 -> <<128 .. 159, more>>
         [] b \in 225 .. 239 \ {237} -> <<more, more>>
         [] b = 240 -> <<144 .. 191, more, more>>
         [] b \in 241 .. 243 -> <<more, more, more>>
         [] b = 244 -> <<128 .. 143, more, more>>
         [] OTHER -> Nothing
ToFollow(bytes) ==
    FoldLeft(LAMBDA next, b : IF next = <<>> THEN AfterLead(b)
                              ELSE IF b \in next[1] THEN Tail(next) ELSE Nothing,
             <<>>, bytes)
IsText(bytes) == ToFollow(bytes) = <<>>
-----------------------------------------------------------------------------
(* bpe.rs and tokenizer.rs.  A tokenizer is [ids, tokens, merges, special,   *)
(* unk, byte_level_decode]: both ways of its vocabulary, its merges in the   *)
(* order of their priority.                                                  *)

IsWhitespace(c) == c = 32
IsPunctuation(c) == c = 44

\* A word ends at whitespace and at punctuation, which is a word of its own;
\* what comes after whitespace carries the mark.
pretokenize(text) ==
    LET Step(s, c) ==
            IF IsWhitespace(c) THEN [words |-> s.words, open |-> FALSE, space |-> TRUE]
            ELSE LET mark == IF s.space THEN <<SpaceMark, c>> ELSE <<c>>
                 IN [words |-> IF s.open /\ ~IsPunctuation(c)
                               THEN [s.words EXCEPT ![Len(s.words)] = Append(@, c)]
                               ELSE Append(s.words, mark),
                     open |-> ~IsPunctuation(c), space |-> FALSE]
    IN FoldLeft(Step, [words |-> <<>>, open |-> FALSE, space |-> FALSE], text).words

\* Of equal priorities the last place.  (mutant)
MergeLast(symbols, merges) ==
    LET Priority(i) == SelectInSeq(merges, LAMBDA m : m = <<symbols[i], symbols[i + 1]>>)
        places == {i \in 1 .. Len(symbols) - 1 : Priority(i) > 0}
    IN IF places = {} THEN symbols
       ELSE LET i == CHOOSE i \in places :
                         \A j \in places : \/ Priority(i) < Priority(j)
                                           \/ Priority(i) = Priority(j) /\ i >= j
            IN SubSeq(symbols, 1, i - 1) \o <<symbols[i] \o symbols[i + 1]>>
               \o SubSeq(symbols, i + 2, Len(symbols))

\* The pair of the best priority, at its first place.
MergeBest(symbols, merges) ==
    LET Priority(i) == SelectInSeq(merges, LAMBDA m : m = <<symbols[i], symbols[i + 1]>>)
        places == {i \in 1 .. Len(symbols) - 1 : Priority(i) > 0}
    IN IF places = {} THEN symbols
       ELSE LET i == CHOOSE i \in places :
                         \A j \in places : \/ Priority(i) < Priority(j)
                                           \/ Priority(i) = Priority(j) /\ i <= j
            IN SubSeq(symbols, 1, i - 1) \o <<symbols[i] \o symbols[i + 1]>>
               \o SubSeq(symbols, i + 2, Len(symbols))

BpeSymbols(word, merges) ==
    FoldLeft(LAMBDA symbols, c : MergeBest(symbols, merges),
             [i \in DOMAIN word |-> <<word[i]>>], word)

\* A symbol without an id becomes those of its bytes that have one.
symbol_to_ids(symbol, ids) ==
    IF symbol \in DOMAIN ids THEN <<ids[symbol]>>
    ELSE LET names == [i \in DOMAIN as_bytes(symbol) |-> byte_fallback_id(as_bytes(symbol)[i])]
             known == SelectSeq(names, LAMBDA n : n \in DOMAIN ids)
         IN [i \in DOMAIN known |-> ids[known[i]]]

bpe_encode(word, ids, merges) ==
    LET symbols == BpeSymbols(word, merges)
    IN FlattenSeq([i \in DOMAIN symbols |-> symbol_to_ids(symbols[i], ids)])

encode(tok, text) ==
    LET words == pretokenize(text)
        EncodeWord(word) ==
            LET found == bpe_encode(word, tok.ids, tok.merges)
            IN IF found = <<>> THEN [i \in DOMAIN as_bytes(word) |-> tok.unk] ELSE found
    IN FlattenSeq([i \in DOMAIN words |-> EncodeWord(words[i])])

\* hf_format.rs: GPT-2's characters for bytes, and back.
MappedToItself == 33 .. 126 \cup 161 .. 172 \cup 174 .. 255
byte_to_unicode ==
    [b \in 0 .. 255 |-> IF b \in MappedToItself THEN b
                        ELSE 256 + Cardinality((0 .. b - 1) \ MappedToItself)]
unicode_to_byte == [c \in Range(byte_to_unicode) |-> CHOOSE b \in 0 .. 255 : byte_to_unicode[b] = c]

\* An id is decoded into what was decoded before.
decode_id_into(tok, id, bytes) ==
    LET token == tok.tokens[id]
        marked == token # <<>> /\ token[1] = SpaceMark
        Stripped == SelectInSeq(token, LAMBDA c : c # SpaceMark)   \* 0: nothing but marks
    IN CASE id \in tok.special -> bytes
         [] id \notin tok.special /\ id \notin DOMAIN tok.tokens -> bytes \o Utf8(REPLACEMENT)
         [] OTHER ->
              IF token # <<>> /\ token[1] < 0 THEN Append(bytes, -1 - token[1])
              ELSE IF tok.byte_level_decode
              THEN bytes \o FlattenSeq([i \in DOMAIN token |->
                       IF token[i] \in DOMAIN unicode_to_byte THEN <<unicode_to_byte[token[i]]>>
                       ELSE Utf8(token[i])])
              ELSE bytes \o (IF marked /\ bytes # <<>> THEN <<32>> ELSE <<>>)
                   \o (IF Stripped = 0 THEN <<>> ELSE as_bytes(SubSeq(token, Stripped, Len(token))))

decode_to_bytes(tok, ids) == FoldLeft(LAMBDA bytes, id : decode_id_into(tok, id, bytes), <<>>, ids)
-----------------------------------------------------------------------------
(* streaming.rs.                                                             *)

NewDecoder == [given |-> <<>>, pending |-> <<>>, out |-> <<>>]

\* What is not text by itself is lost.  (mutant)
FlushAll(d) == [d EXCEPT !.pending = <<>>, !.out = IF IsText(d.pending) THEN @ \o d.pending ELSE @]

\* The longest prefix that is text is handed out.
flush_complete(d) ==
    LET n == Max({k \in 0 .. Len(d.pending) : IsText(SubSeq(d.pending, 1, k))})
    IN [d EXCEPT !.pending = SubSeq(@, n + 1, Len(@)), !.out = @ \o SubSeq(d.pending, 1, n)]

push_token(tok, d, id) ==
    flush_complete([d EXCEPT !.given = Append(@, id),
                             !.pending = @ \o decode_id_into(tok, id, <<>>)])
-----------------------------------------------------------------------------
(* trainer.rs.  Ids 4 to 259 are the bytes, later ones the merges.           *)

FirstByteId == 4
FirstMergeId == 260
byte_token_string(b) == IF b \in 32 .. 126 THEN <<b>> ELSE byte_fallback_id(b)
TokenText(rules, id) ==
    IF id < FirstMergeId THEN byte_token_string(id - FirstByteId)
    ELSE rules[id - FirstMergeId + 1].merged_text

StartTraining(corpus) ==
    [words |-> [w \in DOMAIN corpus.freq |-> [i \in DOMAIN as_bytes(w) |-> as_bytes(w)[i] + FirstByteId]],
     rules |-> <<>>, done |-> FALSE]

PairsOf(symbols) == {<<symbols[i], symbols[i + 1]>> : i \in 1 .. Len(symbols) - 1}
count_pairs(words, freq) ==
    LET Places(w, p) == {i \in 1 .. Len(words[w]) - 1 : <<words[w][i], words[w][i + 1]>> = p}
    IN [p \in UNION {PairsOf(words[w]) : w \in DOMAIN words} |->
           MapThenSumSet(LAMBDA w : freq[w] * Cardinality(Places(w, p)), DOMAIN words)]

\* The most frequent pair; of several the one with the smallest ids.
IsBestPair(p, counts) ==
    \A q \in DOMAIN counts : \/ counts[p] > counts[q]
                             \/ /\ counts[p] = counts[q]
                                /\ p[1] < q[1] \/ (p[1] = q[1] /\ p[2] <= q[2])

\* From left to right; the new symbol is never the left one of the pair.
apply_merge(symbols, pair, new_id) ==
    FoldLeft(LAMBDA done, s : IF done # <<>> /\ Last(done) = pair[1] /\ s = pair[2]
                              THEN Append(Front(done), new_id) ELSE Append(done, s),
             <<>>, symbols)

LearnMerge ==
    /\ subject.kind = "train" /\ ~trainer.done
    /\ LET corpus == subject.of
           counts == count_pairs(trainer.words, corpus.freq)
           best == {p \in DOMAIN counts : counts[p] >= corpus.min_frequency /\ IsBestPair(p, counts)}
           new_id == FirstMergeId + Len(trainer.rules)
       IN IF best = {} \/ Len(trainer.rules) = corpus.merges
          THEN trainer' = [trainer EXCEPT !.done = TRUE]
          ELSE \E p \in best :
                 trainer' = [trainer EXCEPT
                     !.words = [w \in DOMAIN @ |-> apply_merge(@[w], p, new_id)],
                     !.rules = Append(@, [pair |-> p, merged_text |->
                         TokenText(trainer.rules, p[1]) \o TokenText(trainer.rules, p[2])])]
    /\ UNCHANGED <<subject, decoder>>

\* to_pictor_tokenizer: the merges by the texts of their sides.
TrainedMerges(rules) ==
    [k \in DOMAIN rules |-> <<TokenText(rules, rules[k].pair[1]), TokenText(rules, rules[k].pair[2])>>]
-----------------------------------------------------------------------------
(* unigram.rs.  A vocabulary maps the bytes of a token to its score.         *)

UNK_PENALTY == 1000000
NEG_INFINITY == -2000000000
Unknown == <<>>
IsCharBoundary(bytes, i) == i = Len(bytes) \/ bytes[i + 1] \notin 128 .. 191

\* Any path replaces the one before.  (mutant)
ReachLast(s, to, score, token) == [s EXCEPT !.score[to] = score, !.back[to] = token]

\* A path to a position is kept if it is better than the one before.
Reach(s, to, score, token) ==
    IF score > s.score[to] THEN [s EXCEPT !.score[to] = score, !.back[to] = token] ELSE s

ForwardStep(vocab, bytes, s, i) ==
    LET UnknownByte(t) == Reach(t, i + 1, s.score[i] - UNK_PENALTY, Unknown)
        here == {t \in DOMAIN vocab : Len(t) \in 1 .. Len(bytes) - i /\ SubSeq(bytes, i + 1, i + Len(t)) = t}
        found == FoldSet(LAMBDA t, r : Reach(r, i + Len(t), s.score[i] + vocab[t], t), s, here)
    IN IF s.score[i] = NEG_INFINITY THEN s
       ELSE IF ~IsCharBoundary(bytes, i) THEN UnknownByte(s)
       ELSE IF found = s \/ found.score[i + 1] = NEG_INFINITY THEN UnknownByte(found)
       ELSE found

\* The tokens from 0 to a position, Unknown for a byte that none covers.
UnigramEncode(vocab, bytes) ==
    LET n == Len(bytes)
        end == FoldLeft(LAMBDA s, i : ForwardStep(vocab, bytes, s, i),
                        [score |-> [i \in 0 .. n |-> IF i = 0 THEN 0 ELSE NEG_INFINITY],
                         back |-> [i \in 0 .. n |-> Unknown]],
                        [i \in 1 .. n |-> i - 1])
        path[i \in 0 .. n] ==
            IF i = 0 THEN <<>>
            ELSE Append(path[i - Max({1, Len(end.back[i])})], end.back[i])
    IN path[n]
-----------------------------------------------------------------------------
(* wordpiece.rs.  A vocabulary is a sequence of tokens.                      *)

CONTINUATION == <<35, 35>>

\* The words of a text, without the whitespace between them.
SplitWhitespace(text) ==
    LET Step(s, c) ==
            IF IsWhitespace(c) THEN [words |-> s.words, open |-> FALSE]
            ELSE [words |-> IF s.open THEN [s.words EXCEPT ![Len(s.words)] = Append(@, c)]
                            ELSE Append(s.words, <<c>>),
                  open |-> TRUE]
    IN FoldLeft(Step, [words |-> <<>>, open |-> FALSE], text).words

\* Piece by piece the longest token; the unknown one alone if some place has none.
WordPieces(vocab, word) ==
    LET n == Len(word)
        Candidate(i, j) == (IF i = 1 THEN <<>> ELSE CONTINUATION) \o SubSeq(word, i, j)
        pieces[i \in 1 .. n + 1] ==
            LET ends == {j \in i .. n : Candidate(i, j) \in Range(vocab.tokens)}
                rest == pieces[Max(ends) + 1]
            IN IF i > n THEN <<>>
               ELSE IF ends = {} \/ vocab.unk \in Range(rest) THEN <<vocab.unk>>
               ELSE <<Candidate(i, Max(ends))>> \o rest
    IN IF n > vocab.max_input_chars_per_word THEN <<vocab.unk>> ELSE pieces[1]

WordPieceEncode(vocab, text) ==
    LET words == SplitWhitespace(text) IN FlattenSeq([i \in DOMAIN words |-> WordPieces(vocab, words[i])])

\* A space before every token that does not continue a word.
WordPieceDecode(tokens) ==
    FoldLeft(LAMBDA text, t : IF IsPrefix(CONTINUATION, t) THEN text \o SubSeq(t, 3, Len(t))
                              ELSE text \o (IF text = <<>> THEN <<>> ELSE <<32>>) \o t,
             <<>>, tokens)
-----------------------------------------------------------------------------
TokenInit ==
    /\ subject \in [kind : {"train"}, of : Corpora] \cup [kind : {"text"}, of : RoundTrips]
                   \cup [kind : {"stream"}, of : StreamedBy]
                   \cup [kind : {"unigram"}, of : UnigramTexts]
                   \cup [kind : {"wordpiece"}, of : WordPieceTexts]
    /\ trainer = IF subject.kind = "train" THEN StartTraining(subject.of)
                 ELSE [words |-> <<>>, rules |-> <<>>, done |-> TRUE]
    /\ decoder = NewDecoder

\* One more generated id: of a token, a special one, or none at all.
PushToken(id) ==
    /\ Len(decoder.given) < MaxIds
    /\ decoder' = push_token(subject.of, decoder, id)
    /\ UNCHANGED <<subject, trainer>>

TokenNext ==
    \/ LearnMerge
    \/ /\ subject.kind = "stream"
       /\ \E id \in DOMAIN subject.of.tokens \cup subject.of.special \cup {-1} : PushToken(id)

TokensAtRest ==
    /\ subject.kind = "train" => trainer.done
    /\ subject.kind = "stream" => Len(decoder.given) = MaxIds
-----------------------------------------------------------------------------
\* What was learned so far cuts every word of the corpus the way the trainer has
\* it cut, and no two ids stand for the same text.  The encoder starts from
\* characters and looks for pairs of texts, the trainer from bytes and pairs of
\* ids; the corpora are ASCII.
LearnedAsTrained ==
    LET merges == TrainedMerges(trainer.rules)
        texts == {trainer.rules[k].merged_text : k \in DOMAIN trainer.rules}
    IN /\ \A w \in DOMAIN trainer.words :
            BpeSymbols(w, merges)
              = [i \in DOMAIN trainer.words[w] |-> TokenText(trainer.rules, trainer.words[w][i])]
       /\ Cardinality(texts) = Len(trainer.rules)

\* What was handed out and what is pending is what decoding in one piece gives,
\* all that was handed out is text, and no more is pending than a character
\* that is not complete.
StreamedAsDecoded ==
    LET all == decode_to_bytes(subject.of, decoder.given)
    IN /\ decoder.out \o decoder.pending = all
       /\ IsText(decoder.out)
       /\ ToFollow(all) # Nothing => (IsText(all) <=> decoder.pending = <<>>) /\ Len(decoder.pending) < 4

\* The words with one space between them.
Respaced(text) ==
    LET words == SplitWhitespace(text)
    IN FoldLeft(LAMBDA t, w : IF t = <<>> THEN w ELSE t \o <<32>> \o w, <<>>, words)

\* A text comes back, but for whitespace, and GPT-2's characters of its bytes
\* stand for them.
TextComesBack ==
    LET text == subject.of.text
        tok == subject.of.tokenizer
        mapped == [i \in DOMAIN as_bytes(text) |-> byte_to_unicode[as_bytes(text)[i]]]
    IN /\ decode_to_bytes(tok, encode(tok, text)) = as_bytes(Respaced(text))
       /\ decode_id_into([tok EXCEPT !.tokens = (4 :> mapped), !.byte_level_decode = TRUE], 4, <<>>)
            = as_bytes(text)

\* Every way to cut bytes into tokens.
Cuts(vocab, bytes) ==
    LET cuts[i \in 0 .. Len(bytes)] ==
            IF i = Len(bytes) THEN {<<>>}
            ELSE UNION {{<<t>> \o rest : rest \in cuts[i + Len(t)]} :
                        t \in {t \in DOMAIN vocab : /\ Len(t) \in 1 .. Len(bytes) - i
                                                    /\ SubSeq(bytes, i + 1, i + Len(t)) = t}}
    IN cuts[0]
Score(vocab, tokens) == FoldLeft(LAMBDA n, t : n + vocab[t], 0, tokens)

\* The best of all cuts where there is one; otherwise every byte once, either in
\* a token or by itself.
BestCut ==
    LET vocab == subject.of.vocab
        bytes == as_bytes(subject.of.text)
        tokens == UnigramEncode(vocab, bytes)
        cuts == Cuts(vocab, bytes)
    IN IF cuts # {} THEN tokens \in cuts /\ \A c \in cuts : Score(vocab, c) <= Score(vocab, tokens)
       ELSE /\ Unknown \in Range(tokens)
            /\ FoldLeft(LAMBDA n, t : n + Max({1, Len(t)}), 0, tokens) = Len(bytes)

\* A text comes back, with the unknown token for each word that was not cut.
PiecesComeBack ==
    LET vocab == subject.of.vocab
        words == SplitWhitespace(subject.of.text)
        known == [i \in DOMAIN words |->
                     IF WordPieces(vocab, words[i]) = <<vocab.unk>> THEN vocab.unk ELSE words[i]]
    IN WordPieceDecode(WordPieceEncode(vocab, subject.of.text))
         = FoldLeft(LAMBDA t, w : IF t = <<>> THEN w ELSE t \o <<32>> \o w, <<>>, known)

\* Tokens of every kind: learned, streamed, read back and cut as they should be.
TokensLikeReference ==
    /\ subject.kind = "train" => LearnedAsTrained
    /\ subject.kind = "stream" => StreamedAsDecoded
    /\ subject.kind = "text" => TextComesBack
    /\ subject.kind = "unigram" => BestCut
    /\ subject.kind = "wordpiece" => PiecesComeBack
=============================================================================
