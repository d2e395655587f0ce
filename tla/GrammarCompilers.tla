--------------------------- MODULE GrammarCompilers ---------------------------
(***************************************************************************)
(* The three compilers that make grammars for the constraint: regular      *)
(* expressions (regex_compiler.rs: Thompson's automaton, the subset        *)
(* construction, a right-linear grammar), GBNF (gbnf_parser.rs: groups and *)
(* repetitions become rules of their own) and JSON schemas                 *)
(* (json_schema_compiler.rs).                                              *)
(*                                                                         *)
(* They start from the parsed text.  A pattern is a record with an `op`:   *)
(* "class", "literal", "ref", "seq", "alt", "star", "plus", "opt" and      *)
(* "range", of low to high (or Unbounded) repetitions.  A key of a JSON    *)
(* object stands for its string literal and is one byte here.              *)
(***************************************************************************)
EXTENDS GrammarConstraint, TLC

CONSTANTS
    Patterns,      \* regular expressions
    RuleBooks,     \* GBNF grammars: functions from rule names to "alt" patterns
    Schemas,       \* JSON schemas: [defs |-> function, root |-> schema]
    Digits,        \* the bytes a number is made of
    StringBytes,   \* the bytes a JSON string may hold
    MaxText        \* the texts a source describes are listed up to this length

VARIABLE source    \* what is compiled: [kind, of]

\* No limit to a repetition; one that is given is at most 64 (MAX_REPETITION).
Unbounded == 65

Put(A, B) == Joined(MaxText, A, B)

\* All ways to put words of A one after the other.
RECURSIVE Repeated(_, _)
Repeated(done, A) ==
    LET more == done \cup Put(done, A) IN IF more = done THEN done ELSE Repeated(more, A)
Repeats(A) == Repeated({<<>>}, A)
OneOrMore(A) == Put(A, Repeats(A))
RECURSIVE Power(_, _)
Power(A, n) == IF n = 0 THEN {<<>>} ELSE Put(A, Power(A, n - 1))

\* The reference: what a pattern matches, given what the rules it refers to match.
RECURSIVE Matched(_, _)
Matched(p, env) ==
    CASE p.op = "class" -> {<<b>> : b \in p.bytes}
      [] p.op = "literal" -> {p.word}
      [] p.op = "ref" -> env[p.name]
      [] p.op = "seq" -> FoldLeft(LAMBDA words, q : Put(words, Matched(q, env)), {<<>>}, p.parts)
      [] p.op = "alt" -> UNION {Matched(q, env) : q \in ToSet(p.parts)}
      [] p.op = "star" -> Repeats(Matched(p.part, env))
      [] p.op = "plus" -> OneOrMore(Matched(p.part, env))
      [] p.op = "opt" -> {<<>>} \cup Matched(p.part, env)
      [] p.op = "range" ->
            IF p.high = Unbounded THEN Put(Power(Matched(p.part, env), p.low), Repeats(Matched(p.part, env)))
            ELSE UNION {Power(Matched(p.part, env), n) : n \in p.low .. p.high}
-----------------------------------------------------------------------------
(* Thompson's construction: a fragment is the automaton so far with the    *)
(* state it is entered and the state it is left by.                         *)
EmptyNfa == [size |-> 0, epsilon |-> {}, moves |-> {}]
Fragment(nfa, start, end) == [nfa |-> nfa, start |-> start, end |-> end]
Alloc(nfa, n) == [nfa EXCEPT !.size = @ + n]
Wired(nfa, edges) == [nfa EXCEPT !.epsilon = @ \cup edges]

Single(nfa) == Fragment(Alloc(nfa, 1), nfa.size, nfa.size)

build_byte_set(nfa, bytes) ==
    LET s == nfa.size
    IN  Fragment([Alloc(nfa, 2) EXCEPT !.moves = @ \cup {<<s, bytes, s + 1>>}], s, s + 1)

\* b was built after a, in the same automaton.
build_concat(a, b) == Fragment(Wired(b.nfa, {<<a.end, b.start>>}), a.start, b.end)

build_alternation(a, b) ==
    LET s == b.nfa.size
    IN  Fragment(Wired(Alloc(b.nfa, 2), {<<s, a.start>>, <<s, b.start>>, <<a.end, s + 1>>, <<b.end, s + 1>>}),
                 s, s + 1)

build_star(a) ==
    LET s == a.nfa.size
    IN  Fragment(Wired(Alloc(a.nfa, 2), {<<s, a.start>>, <<s, s + 1>>, <<a.end, a.start>>, <<a.end, s + 1>>}),
                 s, s + 1)

\* (mutant) `a+` without the way back.
build_plus_once(a) ==
    LET s == a.nfa.size
    IN  Fragment(Wired(Alloc(a.nfa, 2), {<<a.end, s>>, <<s, s + 1>>}), a.start, s + 1)

build_plus(a) ==
    LET s == a.nfa.size
    IN  Fragment(Wired(Alloc(a.nfa, 2), {<<a.end, s>>, <<s, a.start>>, <<s, s + 1>>}), a.start, s + 1)

build_optional(a) ==
    LET s == a.nfa.size
    IN  Fragment(Wired(Alloc(a.nfa, 2), {<<s, a.start>>, <<s, s + 1>>, <<a.end, s + 1>>}), s, s + 1)

Copies(p, n) == [i \in 1 .. n |-> p]

RECURSIVE build_nfa_frag(_, _)
ChainFrom(nfa, parts) ==
    IF parts = <<>> THEN Single(nfa)
    ELSE FoldLeft(LAMBDA f, q : build_concat(f, build_nfa_frag(f.nfa, q)),
                  build_nfa_frag(nfa, Head(parts)), Tail(parts))
Ranged(mandatory, p) ==
    IF p.high = Unbounded
    THEN build_concat(mandatory, build_star(build_nfa_frag(mandatory.nfa, p.part)))
    ELSE IF p.high = p.low THEN mandatory
    ELSE build_concat(mandatory,
                      ChainFrom(mandatory.nfa, Copies([op |-> "opt", part |-> p.part], p.high - p.low)))
build_nfa_frag(nfa, p) ==
    CASE p.op = "class" -> build_byte_set(nfa, p.bytes)
      [] p.op = "seq" -> ChainFrom(nfa, p.parts)
      [] p.op = "alt" -> FoldLeft(LAMBDA f, q : build_alternation(f, build_nfa_frag(f.nfa, q)),
                                  build_nfa_frag(nfa, Head(p.parts)), Tail(p.parts))
      [] p.op = "star" -> build_star(build_nfa_frag(nfa, p.part))
      [] p.op = "plus" -> build_plus(build_nfa_frag(nfa, p.part))
      [] p.op = "opt" -> build_optional(build_nfa_frag(nfa, p.part))
      [] p.op = "range" -> Ranged(ChainFrom(nfa, Copies(p.part, p.low)), p)

RECURSIVE epsilon_closure(_, _)
epsilon_closure(nfa, states) ==
    LET more == states \cup {e[2] : e \in {f \in nfa.epsilon : f[1] \in states}}
    IN  IF more = states THEN states ELSE epsilon_closure(nfa, more)

\* One state of the subset automaton, and where a byte leads from it.
MovedBy(nfa, states, b) ==
    epsilon_closure(nfa, {m[3] : m \in {n \in nfa.moves : n[1] \in states /\ b \in n[2]}})

BytesOf(nfa) == UNION {m[2] : m \in nfa.moves}

RECURSIVE DfaStates(_, _)
DfaStates(nfa, found) ==
    LET more == found \cup {MovedBy(nfa, s, b) : s \in found, b \in BytesOf(nfa)}
    IN  IF more = found THEN found ELSE DfaStates(nfa, more)

\* dfa_to_grammar: a non-terminal per state, an empty rule where it accepts.
DfaName(states) ==
    LET Ranked(i) == CHOOSE x \in states : Cardinality({y \in states : y < x}) = i - 1
    IN  <<"__regex_s">> \o [i \in 1 .. Cardinality(states) |-> ToString(Ranked(i))]

compile_regex(p) ==
    LET f == build_nfa_frag(EmptyNfa, p)
        first == epsilon_closure(f.nfa, {f.start})
        states == DfaStates(f.nfa, {first}) \ {{}}
    IN  [start |-> DfaName(first),
         rules |-> {Rule(DfaName(s), <<>>) : s \in {t \in states : f.end \in t}}
                   \cup {Rule(DfaName(s), <<Terminal(<<b>>), NonTerminal(DfaName(MovedBy(f.nfa, s, b)))>>) :
                            <<s, b>> \in {<<t, c>> \in states \X BytesOf(f.nfa) : MovedBy(f.nfa, t, c) # {}}}]
-----------------------------------------------------------------------------
(* GBNF.  A compiled part is the symbols it leaves in the right-hand side, *)
(* the rules it added, and the next free number for a synthetic name.      *)
Part(symbols, rls, next) == [symbols |-> symbols, rules |-> rls, next |-> next]
Synthetic(n) == <<"__gbnf", ToString(n)>>
RefTo(nt) == <<NonTerminal(nt)>>

RECURSIVE parse_atom(_, _)
parse_alternative(parts, n) ==
    FoldLeft(LAMBDA done, q :
                LET c == parse_atom(q, done.next)
                IN  Part(done.symbols \o c.symbols, done.rules \cup c.rules, c.next),
             Part(<<>>, {}, n), parts)

\* parse_body_into: one rule for lhs per alternative, each a "seq".
parse_body_into(lhs, alternatives, n) ==
    FoldLeft(LAMBDA done, alt :
                LET c == parse_alternative(alt.parts, done.next)
                IN  Part(<<>>, done.rules \cup c.rules \cup {Rule(lhs, c.symbols)}, c.next),
             Part(<<>>, {}, n), alternatives)

\* apply_quantifier
StarRules(nt, atom) == {Rule(nt, <<>>), Rule(nt, atom \o RefTo(nt))}
apply_quantifier(op, a) ==
    LET nt == Synthetic(a.next)
        plus == Synthetic(a.next + 1)
    IN  CASE op = "opt" -> Part(RefTo(nt), a.rules \cup {Rule(nt, <<>>), Rule(nt, a.symbols)}, a.next + 1)
          [] op = "star" -> Part(RefTo(nt), a.rules \cup StarRules(nt, a.symbols), a.next + 1)
          [] op = "plus" -> Part(RefTo(plus), a.rules \cup StarRules(nt, a.symbols)
                                                 \cup {Rule(plus, a.symbols \o RefTo(nt))}, a.next + 2)

parse_atom(p, n) ==
    CASE p.op = "literal" -> Part([i \in DOMAIN p.word |-> Terminal(<<p.word[i]>>)], {}, n)
      [] p.op = "class" -> Part(RefTo(Synthetic(n)), {Rule(Synthetic(n), <<Terminal(<<b>>)>>) : b \in p.bytes}, n + 1)
      [] p.op = "ref" -> Part(RefTo(<<p.name>>), {}, n)
      [] p.op = "alt" -> [parse_body_into(Synthetic(n), p.parts, n + 1) EXCEPT !.symbols = RefTo(Synthetic(n))]
      [] OTHER -> apply_quantifier(p.op, parse_atom(p.part, n))

parse_gbnf(book) ==
    [start |-> <<"root">>,
     rules |-> FoldLeft(LAMBDA done, name :
                           LET c == parse_body_into(<<name>>, book[name].parts, done.next)
                           IN  Part(<<>>, done.rules \cup c.rules, c.next),
                        Part(<<>>, {}, 0), SetToSeq(DOMAIN book)).rules]

RECURSIVE BookFrom(_, _)
BookFrom(book, env) ==
    LET more == [name \in DOMAIN book |-> Matched(book[name], env)]
    IN  IF more = env THEN env ELSE BookFrom(book, more)
-----------------------------------------------------------------------------
(* JSON schemas.  A schema is a record with a `type`; a compiled one is     *)
(* its non-terminal, the rules it added, and the next free number.          *)
Schema(nt, rls, next) == [nt |-> nt, rules |-> rls, next |-> next]
Numbered(name, n) == <<name, ToString(n)>>
Byte(b) == Terminal(<<b>>)
Bytes(word) == [i \in DOMAIN word |-> Byte(word[i])]

\* One item or more, with something between two of them, if anything.
ListRules(nt, item, between) == {Rule(nt, RefTo(item)), Rule(nt, RefTo(item) \o between \o RefTo(nt))}

\* The string and the digit are made once, on first use.
StringNt == <<"__string">>
StringRules ==
    {Rule(StringNt, Bytes(<<"quote", "quote">>)),
     Rule(StringNt, <<Byte("quote"), NonTerminal(<<"__string_chars">>), Byte("quote")>>)}
    \cup ListRules(<<"__string_chars">>, <<"__string_char">>, <<>>)
    \cup {Rule(<<"__string_char">>, <<Byte(b)>>) : b \in StringBytes}
DigitRules == {Rule(<<"__digit">>, <<Byte(b)>>) : b \in Digits}

Literals == [true |-> <<"t", "e">>, false |-> <<"f", "e">>, null |-> <<"n">>]

IntegerType(n) ==
    LET digits == Numbered("__digits", n)
        int == Numbered("__integer", n)
    IN  Schema(int, DigitRules \cup ListRules(digits, <<"__digit">>, <<>>)
                    \cup {Rule(int, RefTo(digits)), Rule(int, <<Byte("-")>> \o RefTo(digits))}, n + 1)

NumberType(n) ==
    LET int == IntegerType(n)
        frac == Numbered("__frac_digits", n)
        num == Numbered("__number", n)
    IN  Schema(num, int.rules \cup ListRules(frac, <<"__digit">>, <<>>)
                    \cup {Rule(num, RefTo(int.nt)),
                          Rule(num, RefTo(int.nt) \o <<Byte(".")>> \o RefTo(frac))}, n + 1)

\* Numbers of a value of any type have no fraction, its objects and arrays
\* are empty: "shallow stubs" (678-684).
AnyValueType(n) ==
    LET int == IntegerType(n)
        val == Numbered("__any_value", n)
    IN  Schema(val, StringRules \cup int.rules
                    \cup {Rule(val, RefTo(StringNt)), Rule(val, RefTo(int.nt)),
                          Rule(val, Bytes(<<"{", "}">>)), Rule(val, Bytes(<<"[", "]">>))}
                    \cup {Rule(val, <<Terminal(Literals[w])>>) : w \in DOMAIN Literals}, n + 1)

RECURSIVE compile_schema(_, _)

\* The schemas of a sequence, compiled one after the other.
CompiledAll(schemas, n) ==
    FoldLeft(LAMBDA done, s :
                LET c == compile_schema(s, done.next)
                IN  [nts |-> Append(done.nts, c.nt), rules |-> done.rules \cup c.rules, next |-> c.next],
             [nts |-> <<>>, rules |-> {}, next |-> n], schemas)

\* (mutant) A comma before every member.
CommaFirst(s, n) ==
    LET nt == Numbered("__object", n)
        values == CompiledAll([i \in DOMAIN s.required |-> s.properties[s.required[i]]], n + 1)
        Member(i) == <<Byte(","), Byte(s.required[i]), Byte(":"), NonTerminal(values.nts[i])>>
    IN  Schema(nt, values.rules
                   \cup {Rule(nt, <<Byte("{")>> \o FlattenSeq([i \in DOMAIN s.required |-> Member(i)])
                                  \o <<Byte("}")>>)}, values.next)

\* Only the required properties, in the order in which they are required.
compile_object_type(s, n) ==
    LET nt == Numbered("__object", n)
        values == CompiledAll([i \in DOMAIN s.required |-> s.properties[s.required[i]]], n + 1)
        Member(i) == (IF i > 1 THEN <<Byte(",")>> ELSE <<>>)
                     \o <<Byte(s.required[i]), Byte(":"), NonTerminal(values.nts[i])>>
        members == FlattenSeq([i \in DOMAIN s.required |-> Member(i)])
    IN  Schema(nt, values.rules \cup {Rule(nt, <<Byte("{")>> \o members \o <<Byte("}")>>)}, values.next)

compile_array_type(s, n) ==
    LET item == compile_schema(s.items, n)
        items == Numbered("__array_items", item.next)
        arr == Numbered("__array", item.next)
    IN  Schema(arr, item.rules \cup ListRules(items, item.nt, <<Byte(",")>>)
                    \cup {Rule(arr, Bytes(<<"[", "]">>)),
                          Rule(arr, <<Byte("["), NonTerminal(items), Byte("]")>>)}, item.next + 1)

\* anyOf and oneOf
compile_any_of(s, n) ==
    LET nt == Numbered("__anyOf", n)
        all == CompiledAll(s.of, n + 1)
    IN  Schema(nt, all.rules \cup {Rule(nt, RefTo(all.nts[i])) : i \in DOMAIN all.nts}, all.next)

\* allOf: one object with the properties of all, of which the last one given
\* stays, and every key required once.
Merged(objects) ==
    FoldLeft(LAMBDA m, s : [type |-> "object",
                            properties |-> s.properties @@ m.properties,
                            required |-> m.required \o SelectSeq(s.required, LAMBDA k : k \notin ToSet(m.required))],
             [type |-> "object", properties |-> <<>>, required |-> <<>>], objects)

compile_schema(s, n) ==
    CASE s.type = "string" -> Schema(StringNt, StringRules, n)
      [] s.type = "integer" -> IntegerType(n)
      [] s.type = "number" -> NumberType(n)
      [] s.type = "boolean" -> Schema(Numbered("__boolean", n),
                                      {Rule(Numbered("__boolean", n), <<Terminal(Literals[w])>>) :
                                          w \in {"true", "false"}}, n + 1)
      [] s.type = "null" -> Schema(Numbered("__null", n),
                                   {Rule(Numbered("__null", n), <<Terminal(Literals.null)>>)}, n + 1)
      [] s.type = "any" -> AnyValueType(n)
      [] s.type = "enum" -> Schema(Numbered("__enum", n),
                                   {Rule(Numbered("__enum", n), <<Terminal(v)>>) : v \in s.values}, n + 1)
      [] s.type = "ref" -> Schema(<<"$def", s.key>>, {}, n)
      [] s.type = "anyOf" -> compile_any_of(s, n)
      [] s.type = "allOf" -> compile_object_type(Merged(s.of), n)
      [] s.type = "object" -> compile_object_type(s, n)
      [] s.type = "array" -> compile_array_type(s, n)

\* The definitions first, each behind the name a $ref finds it by.
compile_json_schema(doc) ==
    LET keys == SetToSeq(DOMAIN doc.defs)
        defs == CompiledAll([i \in DOMAIN keys |-> doc.defs[keys[i]]], 0)
        root == compile_schema(doc.root, defs.next)
    IN  [start |-> root.nt,
         rules |-> defs.rules \cup root.rules
                   \cup {Rule(<<"$def", keys[i]>>, RefTo(defs.nts[i])) : i \in DOMAIN keys}]

\* The reference: the JSON texts a schema is for.
Around(left, A, right) == Put(Put({left}, A), {right})
IntegerWords == Put({<<>>, <<"-">>}, OneOrMore({<<b>> : b \in Digits}))
StringWords == Around(<<"quote">>, Repeats({<<b>> : b \in StringBytes}), <<"quote">>)
Listed(A) == {<<>>} \cup Put(A, Repeats(Put({<<",">>}, A)))

RECURSIVE Valid(_, _)
ValidObject(required, ValueWords(_)) ==
    Around(<<"{">>,
           FoldLeft(LAMBDA words, i : Put(words, Put({(IF i > 1 THEN <<",">> ELSE <<>>)
                                                             \o <<required[i], ":">>}, ValueWords(required[i]))),
                    {<<>>}, [i \in DOMAIN required |-> i]),
           <<"}">>)
Valid(s, env) ==
    CASE s.type = "string" -> StringWords
      [] s.type = "integer" -> IntegerWords
      [] s.type = "number" ->
            IntegerWords \cup Put(IntegerWords, Put({<<".">>}, OneOrMore({<<b>> : b \in Digits})))
      [] s.type = "boolean" -> {Literals.true, Literals.false}
      [] s.type = "null" -> {Literals.null}
      [] s.type = "any" -> StringWords \cup IntegerWords \cup {Literals[w] : w \in DOMAIN Literals}
                           \cup {<<"{", "}">>, <<"[", "]">>}
      [] s.type = "enum" -> s.values
      [] s.type = "ref" -> env[s.key]
      [] s.type = "anyOf" -> UNION {Valid(s.of[i], env) : i \in DOMAIN s.of}
      [] s.type = "allOf" -> Valid(Merged(s.of), env)
      [] s.type = "object" -> ValidObject(s.required, LAMBDA k : Valid(s.properties[k], env))
      [] s.type = "array" -> Around(<<"[">>, Listed(Valid(s.items, env)), <<"]">>)

RECURSIVE DefsFrom(_, _)
DefsFrom(defs, env) ==
    LET more == [key \in DOMAIN defs |-> Valid(defs[key], env)]
    IN  IF more = env THEN env ELSE DefsFrom(defs, more)
-----------------------------------------------------------------------------
CompilersInit ==
    source \in {[kind |-> "regex", of |-> p] : p \in Patterns}
               \cup {[kind |-> "gbnf", of |-> b] : b \in RuleBooks}
               \cup {[kind |-> "schema", of |-> d] : d \in Schemas}

\* The grammar a compiler makes of a source, terminals of several bytes taken
\* apart, has exactly the words the source describes.
CompiledLikeReference ==
    LET compiled == CASE source.kind = "regex" -> compile_regex(source.of)
                      [] source.kind = "gbnf" -> parse_gbnf(source.of)
                      [] source.kind = "schema" -> compile_json_schema(source.of)
        meant == CASE source.kind = "regex" -> Matched(source.of, <<>>)
                   [] source.kind = "gbnf" ->
                         BookFrom(source.of, [name \in DOMAIN source.of |-> {}]).root
                   [] source.kind = "schema" ->
                         Valid(source.of.root, DefsFrom(source.of.defs, [key \in DOMAIN source.of.defs |-> {}]))
    IN  LanguageOf(normalise_terminals(compiled), MaxText) = meant
=============================================================================
