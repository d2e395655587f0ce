------------------------- MODULE MCGrammarConstraint -------------------------
(* Grammars for TLC: small relatives of those in examples.rs, and the two    *)
(* kinds the recognizer and the cache of masks get wrong.                    *)
EXTENDS GrammarCompilers
LOCAL N(name) == NonTerminal(<<name>>)
LOCAL T(byte) == Terminal(<<byte>>)
LOCAL Epsilon == Terminal(<<>>)
LOCAL Defines(name, alternatives) == {Rule(<<name>>, alt) : alt \in alternatives}
LOCAL Starting(name, parts) == [start |-> <<name>>, rules |-> UNION parts]

\* simple_ab_grammar; a left-recursive and ambiguous sum; factors in brackets;
\* csv rows; an optional part written with a rule and with a terminal that is empty.
MCGrammars == {
    Starting("S", {Defines("S", {<<T("a"), N("S"), T("b")>>, <<Terminal(<<"a", "b">>)>>})}),
    Starting("E", {Defines("E", {<<N("E"), T("a"), N("E")>>, <<T("b")>>})}),
    Starting("F", {Defines("F", {<<T("a"), N("F"), T("c")>>, <<N("G"), T("b"), N("F")>>, <<N("G")>>}),
                   Defines("G", {<<T("c")>>})}),
    Starting("S", {Defines("S", {<<N("A"), T("b"), N("B")>>}), Defines("A", {<<>>, <<T("a")>>}),
                   Defines("B", {<<Epsilon>>, <<T("c"), N("B")>>})})}

\* A list with blanks: "[" ws item? ws "]".
MCNullable == {
    Starting("L", {Defines("L", {<<T("a"), N("W"), N("I"), N("W"), T("c")>>}),
                   Defines("W", {<<>>, <<T("b"), N("W")>>}), Defines("I", {<<>>, <<T("d")>>})})}

\* Two contexts of one inner part: "a" X "c" or "b" X "d", X being "xy".
MCContexts == {
    Starting("S", {Defines("S", {<<T("a"), N("X"), T("c")>>, <<T("b"), N("X"), T("d")>>}),
                   Defines("X", {<<Terminal(<<"x", "y">>)>>})})}

MCVocabulary == [t \in {"a", "b", "c", "ab", "ba", "bc", "eos"} |->
    CASE t = "ab" -> <<"a", "b">> [] t = "ba" -> <<"b", "a">> [] t = "bc" -> <<"b", "c">>
      [] t = "eos" -> <<>> [] OTHER -> <<t>>]
MCBlanks == [t \in {"a", "b", "c", "d", "eos"} |-> IF t = "eos" THEN <<>> ELSE <<t>>]
MCParts == [t \in {"a", "b", "x", "yc", "yd", "eos"} |->
    CASE t = "yc" -> <<"y", "c">> [] t = "yd" -> <<"y", "d">> [] t = "eos" -> <<>> [] OTHER -> <<t>>]
LOCAL Class(bytes) == [op |-> "class", bytes |-> bytes]
LOCAL Literal(bytes) == [op |-> "literal", word |-> bytes]
LOCAL Ref(name) == [op |-> "ref", name |-> name]
LOCAL Seq2(p, q) == [op |-> "seq", parts |-> <<p, q>>]
LOCAL Alt(parts) == [op |-> "alt", parts |-> parts]
LOCAL Of(op, p) == [op |-> op, part |-> p]
LOCAL Times(p, low, high) == [op |-> "range", part |-> p, low |-> low, high |-> high]
LOCAL A == Class({"a"})
LOCAL AB == Class({"a", "b"})
LOCAL Empty == [op |-> "seq", parts |-> <<>>]

\* Every operator over every other, and the counted ones at their ends.
MCPatterns ==
    LET small == {A, Empty, Seq2(A, AB), Alt(<<A, Seq2(AB, AB), Empty>>)}
        repeated == {Of(op, p) : op \in {"star", "plus", "opt"}, p \in small}
        counted == {Times(p, r[1], r[2]) : p \in small, r \in {<<0, 0>>, <<2, 2>>, <<0, 2>>, <<1, 3>>,
                                                              <<0, Unbounded>>, <<2, Unbounded>>}}
    IN  small \cup repeated \cup counted
        \cup {Of("star", p) : p \in repeated} \cup {Seq2(p, q) : p \in repeated, q \in repeated}
        \cup {Seq2(Alt(<<p, A>>), p) : p \in counted}

LOCAL Body(parts) == [op |-> "seq", parts |-> parts]
MCRuleBooks ==
    LET atoms == {Literal(<<"a", "b">>), Class({"a", "b"}), Ref("x"),
                  Alt(<<Body(<<Literal(<<"b">>)>>), Body(<<Of("opt", Ref("x"))>>)>>)}
        bodies == {Body(<<Of(op, p), Literal(<<"c">>)>>) : op \in {"star", "plus", "opt"}, p \in atoms}
                  \cup {Body(<<Of("star", p), Of("plus", p)>>) : p \in atoms}
    IN  {[root |-> Alt(<<body>>), x |-> Alt(<<Body(<<Literal(<<"a">>)>>), Body(<<Literal(<<"d">>), Ref("x")>>)>>)]
            : body \in bodies}
        \cup {[root |-> Alt(<<Body(<<Literal(<<"a">>), Ref("root"), Literal(<<"b">>)>>), Body(<<>>)>>)]}

LOCAL Of2(type) == [type |-> type]
LOCAL Object(keys, properties) == [type |-> "object", required |-> keys, properties |-> properties]
LOCAL Doc(root) == [defs |-> <<>>, root |-> root]
MCSchemas ==
    LET simple == {Of2(t) : t \in {"string", "integer", "number", "boolean", "null", "any"}}
                  \cup {[type |-> "enum", values |-> {<<"a">>, <<"f", "e">>}]}
        nested == {[type |-> "array", items |-> s] : s \in simple}
                  \cup {Object(<<>>, <<>>)}
                  \cup {Object(<<"p">>, [p |-> s]) : s \in simple}
                  \cup {Object(<<"q", "p">>, [p |-> Of2("null"), q |-> s]) : s \in simple}
                  \cup {[type |-> "anyOf", of |-> <<s, Of2("integer"), Object(<<"p">>, [p |-> s])>>] : s \in simple}
                  \cup {[type |-> "allOf", of |-> <<Object(<<"p">>, [p |-> s]),
                                                    Object(<<"q", "p">>, [p |-> Of2("null"), q |-> s])>>] : s \in simple}
    IN  {Doc(s) : s \in simple \cup nested}
        \cup {[defs |-> [tree |-> [type |-> "anyOf", of |-> <<Of2("null"), [type |-> "array", items |-> [type |-> "ref", key |-> "tree"]]>>]],
               root |-> Object(<<"p">>, [p |-> [type |-> "ref", key |-> "tree"]])]}

NoSource == [kind |-> "none", of |-> <<>>]
NoGrammar == [start |-> <<>>, rules |-> {}]

\* The constraint without a compiler before it.
RecognizerSpec ==
    GrammarInit /\ source = NoSource /\ [][GrammarNext /\ UNCHANGED source]_<<source, grammarVars>>
=============================================================================
