---------------------------- MODULE MCTableParser ----------------------------
(* TableParser for TLC: families of small tables, each row written in every  *)
(* spelling it has.                                                          *)
EXTENDS TableParser, TableSyntax

Identifiers == [idle |-> "Idle", go |-> "Go", Go |-> "Go", Child |-> "Child"]
Lifetimes   == {"'a", "'b"}

-----------------------------------------------------------------------------
(* Rows: [from, event, guard, items, to].                                    *)

T(n, uses)  == [PlainType(n) EXCEPT !.uses = uses]
U8          == T("u8", {})
Big         == T("Big", {})
Pair        == [PlainType("Pair") EXCEPT !.args = <<U8, U8>>]
State(n)    == [start |-> FALSE, wildcard |-> FALSE, ident |-> n, source |-> <<"identifier", n>>,
                composite |-> << >>, history |-> FALSE, data |-> << >>]
Everywhere  == [State("_") EXCEPT !.wildcard = TRUE, !.source = <<"wildcard", "_">>]
Quoted(n)   == [State(Spelled[n]) EXCEPT !.source = <<"literal", n>>]
Nested(n)   == [State(Spelled[n]) EXCEPT !.source = <<"composite", n>>, !.composite = <<n>>,
                                         !.data = <<PlainType(n)>>]
Of(s, type) == [s EXCEPT !.data = <<type>>]
Target(s)   == [ident |-> s.ident, source |-> s.source, composite |-> s.composite,
                data |-> s.data, internal |-> FALSE]
Stay        == [ident |-> "_", source |-> <<"internal", "_">>, composite |-> << >>,
                data |-> << >>, internal |-> TRUE]
Blank       == [Stay EXCEPT !.source = <<"identifier", "_">>]

Trigger(kind, n) ==
    [ident |-> n, kind |-> kind, wildcard |-> FALSE, external |-> FALSE,
     source |-> <<"identifier", n>>,
     data |-> IF kind = "exception" THEN <<PlainType(n)>> ELSE << >>]
Life(word)    == [Trigger(Kinds[word], word) EXCEPT !.data = << >>]
AnyOf(word)   == [Life(word) EXCEPT !.wildcard = TRUE]
Typed(type)   == [Trigger("normal", type.name) EXCEPT !.external = TRUE, !.data = <<type>>]
Carrying(e, type) == [e EXCEPT !.data = <<type>>]
QuotedEvent(n)    == [Trigger("normal", Spelled[n]) EXCEPT !.source = <<"literal", n>>]

Call(n)     == [op |-> "call", name |-> n, async |-> FALSE, guard |-> << >>, calls |-> FALSE]
Eval(g, n)  == [op |-> "eval", name |-> n, async |-> FALSE, guard |-> <<[name |-> g, async |-> FALSE]>>, calls |-> FALSE]
Queue(op)   == [op |-> op, name |-> op, async |-> FALSE, guard |-> << >>, calls |-> FALSE]

Row(s, e, t)     == [from |-> <<s>>, event |-> e, guard |-> << >>, items |-> << >>, to |-> t]
If(r, g)         == [r EXCEPT !.guard = <<[name |-> g, async |-> FALSE]>>]
Do(r, items)     == [r EXCEPT !.items = items]
Start(r)         == [r EXCEPT !.from[1].start = TRUE]
Also(r, s)       == [r EXCEPT !.from = Append(@, s)]

-----------------------------------------------------------------------------
(* Spellings.                                                                *)

SpellName(s) ==
    IF s.composite # << >>
    THEN <<[is |-> "name", of |-> "state"], Mark("<"), [is |-> "name", of |-> s.composite[1]], Mark(">")>>
    ELSE IF s.source[1] = "literal" THEN <<[is |-> "literal", of |-> s.source[2]]>>
    ELSE IF s.ident = "X" THEN <<[is |-> "name", of |-> "sml"], Mark("::"), [is |-> "name", of |-> "X"]>>
    ELSE <<[is |-> "name", of |-> s.ident]>>
SpellData(s) == IF s.data = TypeOf(s) THEN << >> ELSE <<[is |-> "type", of |-> s.data[1]]>>

SpellState(s) ==
    LET plain == (IF s.wildcard THEN <<Mark("_")>> ELSE SpellName(s))
                 \o (IF s.history THEN <<[is |-> "type", of |-> PlainType("H")]>> ELSE SpellData(s))
    IN  IF ~s.start THEN plain
        ELSE IF s.composite = << >> THEN <<Mark("*")>> \o plain
        ELSE <<Mark("*"), [is |-> "group", of |-> plain]>>

SpellType(t) ==
    LET args == [i \in DOMAIN t.args |-> [is |-> "type", of |-> t.args[i]]]
    IN  <<[is |-> "type", of |-> t]>>
        \o (IF args = << >> THEN << >>
            ELSE <<Mark("<")>> \o FlattenSeq([i \in DOMAIN args |->
                     IF i = 1 THEN <<args[i]>> ELSE <<Mark(","), args[i]>>]) \o <<Mark(">")>>)

SpellEvent(e) ==
    LET angle(word, inner) == <<[is |-> "name", of |-> word], Mark("<")>> \o inner \o <<Mark(">")>>
        name == <<[is |-> "name", of |-> e.ident]>>
        carried == IF e.data = << >> THEN << >> ELSE <<[is |-> "type", of |-> e.data[1]]>>
    IN  <<Mark("+")>> \o
        (IF e.kind = "normal" /\ e.external THEN angle("event", SpellType(e.data[1]))
         ELSE IF e.kind = "unexpected" /\ e.external THEN angle("unexpected_event", SpellType(e.data[1]))
         ELSE IF e.wildcard \/ e.kind \in {"entry", "exit"} THEN angle(e.ident, <<Mark("_")>>)
         ELSE IF e.kind = "unexpected" THEN angle("unexpected", SpellType(PlainType(e.ident)))
         ELSE IF e.kind = "completion" THEN angle("completion", name) \o carried
         ELSE IF e.kind = "exception" THEN angle("exception", name)
                                           \o (IF e.data = <<PlainType(e.ident)>> THEN << >> ELSE carried)
         ELSE IF e.source[1] = "literal" THEN <<[is |-> "literal", of |-> e.source[2]]>>
         ELSE name \o carried)

Spell(r, style) ==
    LET states == FlattenSeq([i \in DOMAIN r.from |->
                      IF i = 1 THEN SpellState(r.from[i]) ELSE <<Mark("|")>> \o SpellState(r.from[i])])
        silent == style = "short" /\ r.event = AnyOf("completion") /\ (r.items # << >> \/ r.to # Stay)
        guard  == IF r.guard = << >> THEN << >> ELSE <<[is |-> "guard", of |-> r.guard]>>
        single == style = "short" /\ Len(r.items) = 1 /\ r.items[1].op # "eval"
        action == IF r.items = << >> THEN << >>
                  ELSE <<Mark("/"), IF single THEN [is |-> "item", of |-> r.items[1]]
                                    ELSE [is |-> "items", of |-> r.items]>>
        source == states \o (IF silent THEN << >> ELSE SpellEvent(r.event)) \o guard \o action
        target == IF r.to.internal THEN <<Mark("_")>> ELSE SpellName(r.to) \o SpellData(r.to)
    IN  IF r.to = Stay THEN source
        ELSE IF style = "short" THEN target \o <<Mark("<"), Mark("=")>> \o source
        ELSE source \o <<Mark("=")>> \o target

Body(rs, style) ==
    FlattenSeq([i \in DOMAIN rs |-> Spell(rs[i], style) \o <<Mark(",")>>])

Meant(rs) ==
    [i \in DOMAIN rs |-> AddTransitions([from |-> rs[i].from, event |-> rs[i].event, guard |-> rs[i].guard,
                                         actions |-> Actions(rs[i].items).value, to |-> rs[i].to])]

Define(rs, style, alone, generics, context) ==
    [body |-> Body(rs, style) \o << >>, meant |-> Meant(rs) \o << >>,
     alone |-> alone, generics |-> generics, context |-> context]

Styles == {"long", "short"}
Plain(tables) == {Define(rs, style, TRUE, NoGenerics, << >>) : rs \in tables, style \in Styles}

\* n different rows of a pool in any order, among other rows.
Ordered(pool, n) ==
    {[k \in 1..n |-> pool[c[k]]] : c \in {d \in [1..n -> DOMAIN pool] :
                                            \A i, j \in 1..n : i # j => d[i] # d[j]}}

-----------------------------------------------------------------------------
(* Families.                                                                 *)

A == State("A")
B == State("B")
e == Trigger("normal", "e")
f == Trigger("normal", "f")
Done == AnyOf("completion")

\* Wildcards before, between and behind explicit rows of the same triggers.
ExpandPool == <<
    Row(Everywhere, e, Target(A)),
    If(Row(Everywhere, e, Target(B)), "g"),
    Row(Everywhere, AnyOf("unexpected"), Stay),
    If(Row(A, e, Target(B)), "g"),
    Row(A, e, Blank),
    Also(Row(A, e, Target(State("C"))), B),
    Row(B, Done, Target(A)),
    Also(Row(Everywhere, f, Stay), B),
    If(Row(B, Trigger("unexpected", "e"), Stay), "h"),
    Do(Row(A, AnyOf("exception"), Target(B)), <<Call("act")>>) >>
Expanding == Plain({<<Start(Row(A, f, Target(B)))>> \o rs : rs \in Ordered(ExpandPool, 3)})

\* States and events that carry data, untyped mentions, defaults and actions.
DataPool == <<
    Row(Of(B, U8), e, Target(A)),
    Row(B, e, Target(A)),
    Do(Row(A, Typed(Pair), Target(Of(B, U8))), <<Call("act")>>),
    Do(Row(A, f, Target(Of(B, Big))), <<Call("act"), Queue("process")>>),
    Row(A, f, Target(B)),
    Row(A, f, Target(Nested("Child"))),
    Do(Row(Nested("Child"), Typed(Pair), Target(State("X"))), <<Call("out")>>),
    Row(Everywhere, Carrying(e, U8), Stay),
    Do(Row(Everywhere, Done, Target(A)), <<Eval("g", "act"), Call("out")>>) >>
Filling == Plain({<<Start(Row(A, f, Target(A)))>> \o rs : rs \in Ordered(DataPool, 2)}
                 \union {<<Start(Row(A, e, Target(A)))>> \o rs : rs \in Ordered(DataPool, 3)})

\* Spellings that meet in one identifier, starts, histories, nested names.
NamePool == <<
    Row(Quoted("idle"), e, Target(A)),
    Row(State("Idle"), f, Stay),
    Row(A, QuotedEvent("go"), Target(Quoted("idle"))),
    Row(A, Trigger("normal", "Go"), Blank),
    Start(Row(B, Life("on_entry"), Stay)),
    Start(Row(Nested("Child"), Life("on_exit"), Stay)),
    Row(Nested("Child"), Trigger("completion", "e"), Target(A)),
    Row(State("Child"), f, Target(A)),
    Row([A EXCEPT !.history = TRUE], f, Target(Nested("Child"))),
    Do(Row(A, Trigger("exception", "E1"), Stay), <<Queue("defer"), Call("act")>>),
    Row(B, Carrying(Trigger("exception", "E1"), Big), Target(A)) >>
Naming ==
    {Define(rs, style, alone, NoGenerics, << >>) : style \in Styles, alone \in BOOLEAN,
     rs \in {<<Start(Row(A, e, Target(A)))>> \o q : q \in Ordered(NamePool, 2)} \union Ordered(NamePool, 2)}

\* One callback in several rows.
CallPool == <<
    If(Do(Row(A, Typed(U8), Target(B)), <<Call("act")>>), "g"),
    Do(Row(Of(B, U8), e, Target(A)), <<Call("act")>>),
    Do(Row(B, f, Target(Of(State("C"), U8))), <<Call("out"), Call("act")>>),
    Do(Row(A, e, Target(B)), <<Call("act"), Call("out")>>),
    If(Row(Of(State("C"), Big), Typed(U8), Target(A)), "g"),
    [Row(B, f, Target(A)) EXCEPT !.guard = <<[name |-> "g", async |-> TRUE]>>],
    Do(Row(B, Done, Stay), <<Eval("g", "out")>>) >>
Calling == Plain({<<Start(Row(A, f, Target(A)))>> \o rs : rs \in Ordered(CallPool, 3)})

\* Events with parameters.
Borrowed(n, l, uses) == T(n, {l} \union uses)
Mutable(t)  == [t EXCEPT !.mutable = TRUE]
Param(kind, n, bounds) == [kind |-> kind, name |-> n, bounds |-> bounds]
SomeGenerics == {
    NoGenerics,
    [params |-> <<Param("lifetime", "'a", {}), Param("type", "P", {{"'a"}, {"Copy"}})>>,
     predicates |-> {}],
    [params |-> <<Param("lifetime", "'a", {}), Param("lifetime", "'b", {{"'a"}}), Param("type", "P", {{"'b"}})>>,
     predicates |-> {[uses |-> {"P"}, bounds |-> {{"'b"}, {"Copy"}}], [uses |-> {"'b"}, bounds |-> {{"'a"}}]}],
    [params |-> <<Param("type", "P", {}), Param("const", "N", {})>>,
     predicates |-> {[uses |-> {"P"}, bounds |-> {{"Copy"}}]}]}
GenericPool == <<
    If(Row(A, Typed(T("E1", {"'a", "P"})), Target(B)), "g"),
    Row(A, Typed(Borrowed("E2", "'b", {"P"})), Target(A)),
    Row(B, Typed(T("E3", {"P", "N"})), Target(A)),
    Row(B, Typed(Mutable(T("E4", {"'a", "'b", "P"}))), Target(A)),
    Do(Row(B, Trigger("completion", "E4"), Target(A)), <<Call("act")>>),
    Row(Of(B, T("Kept", {"'b"})), e, Target(A)),
    Row(Of(B, T("Full", {"P"})), e, Target(A)),
    Do(Row(A, e, Target(A)), <<Queue("defer")>>),
    Row(A, Carrying(Trigger("exception", "E5"), T("E5", {"'a"})), Stay),
    Row(B, [Trigger("unexpected", "E6") EXCEPT !.external = TRUE, !.data = <<T("E6", {"P"})>>], Target(A)),
    Row(B, Typed([U8 EXCEPT !.elided = TRUE]), Target(A)) >>
Contexts == {<< >>, <<T("Ctx", {"P"})>>, <<T("Ctx", {"P", "'a"})>>}
Generic ==
    {Define(<<Start(Row(A, f, Target(A)))>> \o rs, "long", alone, G, context) :
        rs \in Ordered(GenericPool, 2), alone \in {TRUE}, G \in SomeGenerics, context \in Contexts}
    \union {Define(<<Start(Row(A, f, Target(A))), Start(GenericPool[1])>>, "long", alone, G, << >>) :
        alone \in BOOLEAN, G \in SomeGenerics}

\* Bodies that are not rows as they stand.
Name(n) == [is |-> "name", of |-> n]
Broken ==
    {[body |-> body, meant |-> << >>, alone |-> TRUE, generics |-> NoGenerics, context |-> << >>] :
        body \in {<<Mark("*"), Mark("_"), Mark("+"), Name("e")>>,
                  <<Mark("_"), [is |-> "type", of |-> U8], Mark("+"), Name("e")>>,
                  <<Name("A"), Mark("|"), Mark("_"), Mark("+"), Name("e")>>,
                  <<Name("A"), Mark("+"), Name("completion"), Mark("<"), Mark("_"), Mark(">"), [is |-> "type", of |-> U8]>>,
                  <<Name("A"), Mark("+"), Name("e"), Mark("/"), [is |-> "item", of |-> [Queue("defer") EXCEPT !.async = TRUE]]>>,
                  <<Name("A"), Mark("+"), Name("e"), Mark("="), Name("sml"), Mark("::"), Name("Y")>>,
                  <<Name("A")>>, << >>}}

AllInputs == Expanding \union Filling \union Naming \union Calling \union Generic \union Broken
=============================================================================
