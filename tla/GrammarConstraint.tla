--------------------------- MODULE GrammarConstraint ---------------------------
(***************************************************************************)
(* Constrained decoding by a grammar: the Earley recognizer (earley.rs),   *)
(* the constraint that turns its state into a mask over the vocabulary     *)
(* (constraint.rs) and the cache of masks (cache.rs).                      *)
(*                                                                         *)
(* A chart is the sequence of item sets up to the input position: chart[k] *)
(* of the code is chart[k + 1] here.  An item set is a HashSet, which      *)
(* yields its items in any order; where the order of the worklist decides  *)
(* what the closure holds, every outcome is a choice.                      *)
(***************************************************************************)
EXTENDS Grammars

CONSTANTS
    Grammars,        \* set of grammars: [rules |-> set of [lhs, rhs], start |-> NT]
    Vocabulary,      \* function from tokens to the bytes they stand for
    MaskCapacity,    \* AllowedTokensCache::with_capacity
    MaxBytes,        \* bound: bytes fed between two resets
    MaxWord          \* the language of a grammar is listed up to this length

ASSUME MaskCapacityAssumption == MaskCapacity \in Nat \ {0}

VARIABLES
    grammar,   \* the grammar as its author wrote it
    rules,     \* GrammarConstraint::grammar, normalised
    chart,     \* EarleyRecognizer::chart
    masks,     \* AllowedTokensCache: [key, mask], least recently used first
    fed,       \* history: the bytes fed since the last reset
    answer     \* what allowed_tokens returned for this chart, or NoAnswer

grammarVars == <<grammar, rules, chart, masks, fed, answer>>
NoAnswer == <<>>

Item(rule, dot, origin) == [rule |-> rule, dot |-> dot, origin |-> origin]
Complete(item) == item.dot >= Len(item.rule.rhs)
Expected(item) == item.rule.rhs[item.dot + 1]
Expects(item, symbol) == ~ Complete(item) /\ Expected(item) = symbol
Advanced(item) == Item(item.rule, item.dot + 1, item.origin)
-----------------------------------------------------------------------------
\* (mutant) Completion looks at the set before its origin.
ConsequencesOffByOne(g, sets, set, k, item) ==
    IF Complete(item) /\ item.origin < k /\ item.origin > 1
    THEN {Advanced(i) : i \in {j \in sets[item.origin - 1] : Expects(j, NonTerminal(item.rule.lhs))}}
    ELSE IF Complete(item)
         THEN {Advanced(i) : i \in {j \in (IF item.origin = k THEN set ELSE sets[item.origin]) :
                                       Expects(j, NonTerminal(item.rule.lhs))}}
         ELSE IF ~ Expected(item).terminal
              THEN {Item(r, 0, k) : r \in RulesFor(g, Expected(item).of)}
              ELSE IF Expected(item).of = <<>> THEN {Advanced(item)} ELSE {}

\* What one item taken from the worklist adds to set k of the chart.
Consequences(g, sets, set, k, item) ==
    IF Complete(item)
    THEN {Advanced(i) : i \in {j \in (IF item.origin = k THEN set ELSE sets[item.origin]) :
                                  Expects(j, NonTerminal(item.rule.lhs))}}
    ELSE IF ~ Expected(item).terminal
         THEN {Item(r, 0, k) : r \in RulesFor(g, Expected(item).of)}
         ELSE IF Expected(item).of = <<>> THEN {Advanced(item)} ELSE {}

\* The worklist is first in, first out; what is added together comes in any
\* order: a sequence of sets.
Taken(worklist, item) ==
    IF worklist[1] = {item} THEN Tail(worklist) ELSE [worklist EXCEPT ![1] = @ \ {item}]

WorkStep(g, sets, k, state) ==
    {LET new == Consequences(g, sets, state.set, k, item) \ state.set
         rest == Taken(state.worklist, item)
     IN  [set |-> state.set \cup new, worklist |-> IF new = {} THEN rest ELSE Append(rest, new)]
        : item \in state.worklist[1]}

RECURSIVE Worked(_, _, _, _)
Worked(g, sets, k, states) ==
    LET open == {s \in states : s.worklist # <<>>}
    IN  IF open = {} THEN states
        ELSE Worked(g, sets, k, (states \ open) \cup UNION {WorkStep(g, sets, k, s) : s \in open})

\* closure(k): the item sets it may end with.
closure(g, sets, seed, k) ==
    IF seed = {} THEN {{}}
    ELSE {s.set : s \in Worked(g, sets, k, {[set |-> seed, worklist |-> <<seed>>]})}

\* init_chart_zero
StartCharts(g) == {<<set>> : set \in closure(g, <<>>, {Item(r, 0, 1) : r \in RulesFor(g, g.start)}, 1)}

\* feed_byte: the charts after one more byte; of an impossible one the last
\* set is empty.
feed_byte(g, sets, byte) ==
    LET seed == {Advanced(i) : i \in {j \in Last(sets) : Expects(j, Terminal(<<byte>>))}}
    IN  {Append(sets, set) : set \in closure(g, sets, seed, Len(sets) + 1)}

Live(sets) == Last(sets) # {}

\* The bytes of a token are fed up to the first that is refused.
RECURSIVE FedBytes(_, _, _)
FedBytes(g, sets, bytes) ==
    IF bytes = <<>> \/ ~ Live(sets) THEN {sets}
    ELSE UNION {FedBytes(g, more, Tail(bytes)) : more \in feed_byte(g, sets, Head(bytes))}

is_accepting(g, sets) ==
    \E i \in Last(sets) : i.rule.lhs = g.start /\ i.origin = 1 /\ Complete(i)

next_byte_set(g, sets) ==
    UNION {SymbolFirst(Expected(i), FirstSets(g)) : i \in {j \in Last(sets) : ~ Complete(j)}}
-----------------------------------------------------------------------------
Tokens == DOMAIN Vocabulary

\* state_hash: the items of the last set, sorted, and the input position.
state_hash(sets) == <<Last(sets), Len(sets)>>

\* (mutant) Only the first byte of a token is looked at.
MasksByFirstByte(g, sets) ==
    {{t \in Tokens : IF Vocabulary[t] = <<>> THEN is_accepting(g, sets)
                     ELSE Vocabulary[t][1] \in next_byte_set(g, sets)}}

\* The masks a probe of every token on a clone of the recognizer may give: an
\* empty token passes where the text may end, another whose first byte is in
\* next_byte_set if all its bytes can be fed.
Masks(g, sets) ==
    LET candidates == {t \in Tokens : Vocabulary[t] # <<>> /\ Vocabulary[t][1] \in next_byte_set(g, sets)}
        outcomes == [t \in candidates |-> {Live(s) : s \in FedBytes(g, sets, Vocabulary[t])}]
        ending == {t \in Tokens : Vocabulary[t] = <<>> /\ is_accepting(g, sets)}
        surely == {t \in candidates : outcomes[t] = {TRUE}}
        perhaps == {t \in candidates : outcomes[t] = BOOLEAN}
    IN  {ending \cup surely \cup some : some \in SUBSET perhaps}

Cached(key) == SelectSeq(masks, LAMBDA m : m.key = key)
Others(key) == SelectSeq(masks, LAMBDA m : m.key # key)
Inserted(entry) ==
    Append(IF Len(masks) >= MaskCapacity THEN Tail(masks) ELSE masks, entry)

\* allowed_tokens
allowed_tokens ==
    /\ answer = NoAnswer
    /\ LET key == state_hash(chart)
           hit == Cached(key)
       IN  IF ~ Live(chart) \/ (next_byte_set(rules, chart) = {} /\ ~ is_accepting(rules, chart))
           THEN answer' = <<{}>> /\ UNCHANGED masks
           ELSE IF hit # <<>>
                THEN /\ answer' = <<hit[1].mask>>
                     /\ masks' = Append(Others(key), hit[1])
                ELSE \E mask \in Masks(rules, chart) :
                         /\ answer' = <<mask>>
                         /\ masks' = Inserted([key |-> key, mask |-> mask])
    /\ UNCHANGED <<grammar, rules, chart, fed>>

\* advance, of any token: an empty one leaves the recognizer as it is.
advance(t) ==
    /\ Live(chart)
    /\ Len(fed) + Len(Vocabulary[t]) <= MaxBytes
    /\ Vocabulary[t] # <<>>
    /\ chart' \in FedBytes(rules, chart, Vocabulary[t])
    /\ fed' = fed \o SubSeq(Vocabulary[t], 1, Len(chart') - Len(chart))
    /\ answer' = NoAnswer
    /\ UNCHANGED <<grammar, rules, masks>>

\* reset: the recognizer starts again, the masks stay.
reset ==
    /\ fed # <<>>
    /\ chart' \in StartCharts(rules)
    /\ fed' = <<>>
    /\ answer' = NoAnswer
    /\ UNCHANGED <<grammar, rules, masks>>

GrammarInit ==
    /\ grammar \in Grammars
    /\ rules = normalise_terminals(grammar)
    /\ chart \in StartCharts(rules)
    /\ masks = <<>>
    /\ fed = <<>>
    /\ answer = NoAnswer

GrammarNext ==
    \/ allowed_tokens
    \/ \E t \in Tokens : advance(t)
    \/ reset

GrammarSpec == GrammarInit /\ [][GrammarNext]_grammarVars
-----------------------------------------------------------------------------
Words == [g \in Grammars |-> LanguageOf(g, MaxWord)]
Viable == [g \in Grammars |-> UNION {Prefixes(w) : w \in Words[g]}]

\* "handles left-recursive, right-recursive, ambiguous, and nullable grammars
\* without special treatment" (earley.rs 5-6): the recognizer accepts exactly
\* the words of its grammar, however the hash sets are ordered.
AcceptsItsLanguage == is_accepting(rules, chart) <=> fed \in Words[grammar]

\* It stays live as long as what it was fed can be completed, and the bytes it
\* offers are those that can follow.
OffersWhatFollows ==
    /\ Live(chart) <=> fed \in Viable[grammar]
    /\ next_byte_set(rules, chart) =
          {b \in UNION {ToSet(Vocabulary[t]) : t \in Tokens} : Append(fed, b) \in Viable[grammar]}

\* The tokens allowed are exactly those that lead to the beginning of a word,
\* and the empty ones at its end, whatever was generated before the last reset.
MaskIsExact ==
    answer # NoAnswer =>
        answer[1] = {t \in Tokens : IF Vocabulary[t] = <<>> THEN fed \in Words[grammar]
                                    ELSE fed \o Vocabulary[t] \in Viable[grammar]}

GrammarLikeReference == AcceptsItsLanguage /\ OffersWhatFollows /\ MaskIsExact
=============================================================================
