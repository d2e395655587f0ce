------------------------------ MODULE MCLibrary ------------------------------
(* Instances for TLC of parts of pictor that stand on their own: a behaviour *)
(* is of one part, the variables of the others stand still.                  *)
EXTENDS RateLimiter, QueueDepth, BatchScheduler, AsyncEngine, ModelCache,
        MCGrammarConstraint, GgufFile, Tokenizer
VARIABLE part

(* Model files: what is written, and which byte of it is changed.           *)
\* Every kind of value, a tensor of five dimensions, blocks that are not full,
\* another alignment than the default.
MCTensor(n, type, shape, bytes) == [name |-> n, type |-> type, shape |-> shape, bytes |-> bytes]
MCPlain(k, type, v) == [key |-> k, value |-> [type |-> type, value |-> v]]
MCArray(k, type, v) == [key |-> k, value |-> [type |-> "Array", of |-> type, value |-> v]]
MCFullModel ==
    [metadata |-> <<MCPlain(<<75>>, "Uint32", 70000), MCPlain(<<76, 77>>, "Bool", 1),
                    MCPlain(<<78>>, "String", <<80, 81>>), MCArray(<<79>>, "String", <<<<82>>, <<>>>>),
                    MCArray(<<>>, "Float32", <<3>>), MCPlain(<<83>>, "Float64", 5)>>,
     tensors |-> <<MCTensor(<<84>>, "F32", <<2, 1, 1, 1, 1>>, 8), MCTensor(<<85>>, "Q8_0", <<33>>, 68),
                   MCTensor(<<86>>, "BF16", <<1>>, 2)>>,
     alignment |-> 8]
\* Nothing; a key that comes twice and an alignment among the metadata; data of
\* the wrong size; a tensor of each type, with another one after it.
MCModels ==
    {MCFullModel, [metadata |-> <<>>, tensors |-> <<>>, alignment |-> 32],
     [metadata |-> <<MCPlain(<<75>>, "Uint64", 1), MCPlain(AlignmentKey, "Uint32", 16),
                     MCPlain(<<75>>, "Int32", 2)>>,
      tensors |-> <<MCTensor(<<84>>, "F16", <<3>>, 6)>>, alignment |-> 16],
     [metadata |-> <<>>, tensors |-> <<MCTensor(<<84>>, "F16", <<3>>, 7)>>, alignment |-> 32]}
    \cup {[metadata |-> <<>>, alignment |-> 32,
           tensors |-> <<MCTensor(<<84>>, type, <<WriteType[type][2] + 1, 2>>,
                                  WriteType[type][3] * (IF WriteType[type][2] = 1 THEN 4 ELSE 3)),
                         MCTensor(<<85>>, "F16", <<1>>, 2)>>] : type \in DOMAIN WriteType}
MCOrigins ==
    [model : MCModels, damage : {NoDamage}]
    \cup [model : {MCFullModel}, damage : [byte : {7 * b + 5 : b \in 0 .. 35}, to : {255}]
                                          \cup [byte : {9 * b + 2 : b \in 0 .. 27}, to : {9}]]
(* Corpora, tokenizers and texts.                                            *)
MCTexts(chars, lengths) == UNION {[1 .. n -> chars] : n \in lengths}

\* Every word up to seven letters by itself, and pairs of short words of which one
\* comes twice; a frequency that all pairs reach, and one that few do.
MCCorpora ==
    LET Alone == {(w :> 2) : w \in MCTexts({97, 98}, 1 .. 7)}
        Pairs == {(v :> 1) @@ (w :> 2) : v \in MCTexts({97, 98, 99}, {3, 4}), w \in MCTexts({97, 98}, {2, 3})}
    IN [freq : Alone \cup Pairs, min_frequency : {2}, merges : {4}]

\* Letters, the mark and its merges, a byte for what has no token.
MCBytes == {44, 98, 195, 169}
MCIds(strings, bytes) ==
    LET names == SetToSeq(strings) \o SetToSeq({byte_fallback_id(b) : b \in bytes})
    IN [t \in Range(names) |-> 3 + CHOOSE i \in DOMAIN names : names[i] = t]
MCTok(ids, merges, byteLevel) ==
    [ids |-> ids, tokens |-> [i \in Range(ids) |-> CHOOSE t \in DOMAIN ids : ids[t] = i],
     merges |-> merges, special |-> {0, 1, 2, 3}, unk |-> 0, byte_level_decode |-> byteLevel]
MCTextTok ==
    MCTok(MCIds({<<97>>, <<SpaceMark>>, <<SpaceMark, 97>>, <<97, 97>>, <<SpaceMark, 97, 97>>}, MCBytes),
          <<<< <<SpaceMark>>, <<97>> >>, << <<97>>, <<97>> >>, << <<SpaceMark, 97>>, <<97>> >>>>, FALSE)
MCRoundTrips == [tokenizer : {MCTextTok}, text : MCTexts({97, 98, 32, 44, 233}, 0 .. 5)]

\* Characters of one, two and three bytes in one token, and bytes of them in
\* several; a byte that no text has; with the marks of bytes, and without.
MCStreamedBy ==
    {MCTok(MCIds({<<97>>, <<12354>>}, {227, 129, 130, 195, 255}), <<>>, FALSE),
     MCTok(MCIds({<<SpaceMark, 97>>, <<195>>, <<169, 97>>, <<227>>, <<12354>>}, {}), <<>>, TRUE)}

\* Scores with which the longest token is best, and with which it is not.
MCUnigramTexts ==
    [vocab : {(<<97>> :> -3) @@ (<<98>> :> -2) @@ (<<97, 98>> :> n) @@ (<<98, 97>> :> m)
                @@ (<<97, 98, 97>> :> -4) @@ (<<195, 169, 97>> :> -1) : n \in {-1, -4, -7}, m \in {-2, -6}},
     text : MCTexts({97, 98, 233}, 0 .. 5)]

MCWordPieceTexts ==
    [vocab : [tokens : {<< <<85>>, <<97>>, <<35, 35, 97>>, <<35, 35, 98>>, <<97, 98>>, <<35, 35, 98, 97>> >>},
              unk : {<<85>>}, max_input_chars_per_word : {4}],
     text : MCTexts({97, 98, 32}, 0 .. 6)]
-----------------------------------------------------------------------------
LibraryInit ==
    /\ part \in {"limiter", "depth", "scheduler", "async", "models",
                 "constraint", "compilers", "gguf", "tokens"}
    /\ LimiterInit /\ DepthInit /\ SchedulerInit /\ AsyncInit /\ ModelInit
    /\ part # "models" => lastKey = (CHOOSE k \in ModelKeys : TRUE)
    /\ IF part = "constraint" THEN GrammarInit
       ELSE /\ grammar = NoGrammar /\ rules = NoGrammar /\ chart = <<>> /\ masks = <<>>
            /\ fed = <<>> /\ answer = NoAnswer
    /\ IF part = "compilers" THEN CompilersInit ELSE source = NoSource
    /\ IF part = "gguf" THEN GgufInit
       ELSE origin = <<>> /\ file = <<>> /\ arrived = 0 /\ parser = NewParser
    /\ IF part = "tokens" THEN TokenInit
       ELSE subject = [kind |-> "none"] /\ trainer = <<>> /\ decoder = NewDecoder

\* What comes to an end: by its bounds, or as a text does.
Ended ==
    \/ part = "scheduler" /\ issued = MaxRequests /\ queue = <<>> /\ active = <<>>
    \/ part = "async" /\ \A c \in Calls : future[c] # "idle"
    \/ part = "compilers"
    \/ part = "gguf" /\ arrived = Len(file)
    \/ part = "tokens" /\ TokensAtRest

libraryVars == <<part, limiterVars, depthVars, schedulerVars, asyncVars, modelVars,
                 grammarVars, source, ggufVars, tokenVars>>

LibraryNext ==
    \/ /\ part = "limiter" /\ LimiterNext
       /\ UNCHANGED <<part, depthVars, schedulerVars, asyncVars, modelVars,
                      grammarVars, source, ggufVars, tokenVars>>
    \/ /\ part = "depth" /\ DepthNext
       /\ UNCHANGED <<part, limiterVars, schedulerVars, asyncVars, modelVars,
                      grammarVars, source, ggufVars, tokenVars>>
    \/ /\ part = "scheduler" /\ SchedulerNext
       /\ UNCHANGED <<part, limiterVars, depthVars, asyncVars, modelVars,
                      grammarVars, source, ggufVars, tokenVars>>
    \/ /\ part = "async" /\ AsyncNext
       /\ UNCHANGED <<part, limiterVars, depthVars, schedulerVars, modelVars,
                      grammarVars, source, ggufVars, tokenVars>>
    \/ /\ part = "models" /\ ModelNext
       /\ UNCHANGED <<part, limiterVars, depthVars, schedulerVars, asyncVars,
                      grammarVars, source, ggufVars, tokenVars>>
    \/ /\ part = "constraint" /\ GrammarNext
       /\ UNCHANGED <<part, limiterVars, depthVars, schedulerVars, asyncVars,
                      modelVars, source, ggufVars, tokenVars>>
    \/ /\ part = "gguf" /\ GgufNext
       /\ UNCHANGED <<part, limiterVars, depthVars, schedulerVars, asyncVars,
                      modelVars, grammarVars, source, tokenVars>>
    \/ /\ part = "tokens" /\ TokenNext
       /\ UNCHANGED <<part, limiterVars, depthVars, schedulerVars, asyncVars, modelVars,
                      grammarVars, source, ggufVars>>
    \/ Ended /\ UNCHANGED libraryVars

LibrarySpec ==
    LibraryInit /\ [][LibraryNext]_libraryVars /\ SchedulerFairness /\ AsyncFairness

\* Text on its way into a model and out of it: the grammars the compilers make
\* are those of what they were given, the constraint allows what its grammar
\* does, and tokens are those of their text.
TextLikeReference ==
    /\ part = "constraint" => GrammarLikeReference
    /\ part = "compilers" => CompiledLikeReference
    /\ part = "tokens" => TokensLikeReference

\* Model files: streamed, read in one piece and written, in the part about them.
ModelFilesLikeReference == part = "gguf" => FilesReadAsWritten
=============================================================================
