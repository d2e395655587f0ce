------------------------------- MODULE Grammars -------------------------------
(***************************************************************************)
(* pictor-runtime/src/grammar/ast.rs: context-free grammars over bytes,    *)
(* the pass that leaves only one-byte terminals in them, and the language  *)
(* a grammar stands for.                                                   *)
(*                                                                         *)
(* A symbol is a terminal, a sequence of bytes of which the empty one is   *)
(* the epsilon terminal, or a non-terminal.  A non-terminal is the         *)
(* sequence of its one name; those that normalise_terminals makes up are   *)
(* named "__T" and their bytes, as their debug names are.                  *)
(***************************************************************************)
EXTENDS FiniteSets, Naturals, Sequences, SequencesExt

Terminal(bytes) == [terminal |-> TRUE, of |-> bytes]
NonTerminal(nt) == [terminal |-> FALSE, of |-> nt]
Rule(lhs, rhs) == [lhs |-> lhs, rhs |-> rhs]

ByteChain(bytes) == <<"__T">> \o bytes

\* intern_byte_chain: one non-terminal per suffix of a terminal of several
\* bytes, shared by all terminals that end alike.
ChainRules(bytes) ==
    {IF i = Len(bytes)
     THEN Rule(ByteChain(SubSeq(bytes, i, i)), <<Terminal(SubSeq(bytes, i, i))>>)
     ELSE Rule(ByteChain(SubSeq(bytes, i, Len(bytes))),
               <<Terminal(SubSeq(bytes, i, i)),
                 NonTerminal(ByteChain(SubSeq(bytes, i + 1, Len(bytes))))>>) : i \in DOMAIN bytes}

Chained(symbol) == symbol.terminal /\ Len(symbol.of) > 1

normalise_terminals(g) ==
    [g EXCEPT !.rules =
        {Rule(r.lhs, [i \in DOMAIN r.rhs |-> IF Chained(r.rhs[i])
                                             THEN NonTerminal(ByteChain(r.rhs[i].of))
                                             ELSE r.rhs[i]]) : r \in g.rules}
        \cup UNION {ChainRules(s.of) : s \in {t \in UNION {ToSet(r.rhs) : r \in g.rules} : Chained(t)}}]

\* build_rule_index
RulesFor(g, nt) == {r \in g.rules : r.lhs = nt}
-----------------------------------------------------------------------------
(* FirstSets::compute: the least sets of first bytes, and of nullable       *)
(* non-terminals.                                                           *)
NonTerminals(g) == {r.lhs : r \in g.rules}

SymbolNullable(s, nullable) == IF s.terminal THEN s.of = <<>> ELSE s.of \in nullable
SymbolFirst(s, first) ==
    IF ~ s.terminal THEN first[s.of] ELSE IF s.of = <<>> THEN {} ELSE {s.of[1]}

\* What the symbols of a rule up to the first that is not nullable start with.
RuleFirst(r, first, nullable) ==
    UNION {SymbolFirst(r.rhs[i], first) :
              i \in {j \in DOMAIN r.rhs : \A h \in 1 .. j - 1 : SymbolNullable(r.rhs[h], nullable)}}

RECURSIVE FirstFrom(_, _, _)
FirstFrom(g, first, nullable) ==
    LET first2 == [nt \in NonTerminals(g) |->
                      first[nt] \cup UNION {RuleFirst(r, first, nullable) : r \in RulesFor(g, nt)}]
        nullable2 == {nt \in NonTerminals(g) :
                         \E r \in RulesFor(g, nt) :
                             \A i \in DOMAIN r.rhs : SymbolNullable(r.rhs[i], nullable)}
    IN  IF first2 = first /\ nullable2 = nullable THEN first
        ELSE FirstFrom(g, first2, nullable2)

FirstSets(g) == FirstFrom(g, [nt \in NonTerminals(g) |-> {}], {})
-----------------------------------------------------------------------------
(* The reference: the words of at most n bytes a grammar derives, as the    *)
(* least solution of its rules read as equations.                           *)
Joined(n, A, B) == UNION {{a \o b : b \in {c \in B : Len(a) + Len(c) <= n}} : a \in A}

RECURSIVE WordsOfRhs(_, _, _)
WordsOfRhs(n, rhs, words) ==
    IF rhs = <<>> THEN {<<>>}
    ELSE Joined(n, IF Head(rhs).terminal THEN {Head(rhs).of} ELSE words[Head(rhs).of],
                WordsOfRhs(n, Tail(rhs), words))

RECURSIVE WordsFrom(_, _, _)
WordsFrom(n, g, words) ==
    LET more == [nt \in DOMAIN words |->
                    words[nt] \cup UNION {WordsOfRhs(n, r.rhs, words) : r \in RulesFor(g, nt)}]
    IN  IF more = words THEN words ELSE WordsFrom(n, g, more)

LanguageOf(g, n) == WordsFrom(n, g, [nt \in NonTerminals(g) |-> {}])[g.start]
=============================================================================
