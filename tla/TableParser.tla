----------------------------- MODULE TableParser -----------------------------
(* One transition table from its tokens to the table that code is generated  *)
(* from: src/macros/src/parser (cpp.rs, state_machine.rs, data.rs, mod.rs),  *)
(* validation.rs and the dispatch in lib.rs.                                 *)
(*                                                                           *)
(* The rows are read, routed to a generator, checked, collected one by one   *)
(* and expanded one by one; a wildcard row visits the states in the order of *)
(* a HashMap, any order here.  The result is a map from a state and a        *)
(* trigger to the arms tried for it, in order.                               *)
EXTENDS EventGenerics

CONSTANTS
    Inputs,          \* Definitions: [body, alone, generics, context, meant].
    Texts(_),        \* The texts of the rows in a body: SplitTransitions.
    Reading(_)       \* What is read from a text, rows or a fault: ReadRows.

\* A text becomes a sequence of rows; `_` stands for no event by name.
ASSUME ReadingAssumption ==
    \A d \in Inputs : \A i \in DOMAIN Texts(d.body) :
        LET read == Reading(Texts(d.body)[i])
        IN  read.fault = "none" =>
                /\ read.value \in Seq(Range(read.value))
                /\ \A r \in Range(read.value) : r.event.kind = "normal" => ~r.event.wildcard

ASSUME GenericsAssumption == \A d \in Inputs : Declared(d.generics)

VARIABLES
    input,      \* The definition; meant is what its author wrote, row by row.
    phase,      \* What is done next, or how it ended.
    fault,      \* The error the macro reports.
    rows,       \* StateMachine::transitions.
    at,         \* The row being read, collected or expanded.
    waiting,    \* States a wildcard row has yet to visit.
    added,      \* Whether it has been added for a state.
    data,       \* state_data and event_data: [state, event], name to type.
    table       \* states_events_mapping; its domain is the set of states.

vars == <<input, phase, fault, rows, at, waiting, added, data, table>>

Empty == [x \in {} |-> << >>]

Init ==
    /\ input \in Inputs
    /\ phase = "read" /\ fault = "none" /\ rows = << >> /\ at = 1
    /\ waiting = {} /\ added = FALSE
    /\ data = [state |-> Empty, event |-> Empty] /\ table = Empty

Refuse(why) ==
    /\ phase' = "refused" /\ fault' = why
    /\ UNCHANGED <<input, rows, at, waiting, added, data, table>>

AllRows == {rows[i] : i \in DOMAIN rows}

-----------------------------------------------------------------------------
(* Reading: SmlDefinition::parse.                                            *)

Read ==
    LET texts == Texts(input.body)
        read  == Reading(texts[at])
    IN  /\ phase = "read" /\ at \in DOMAIN texts
        /\ IF read.fault # "none" THEN Refuse(read.fault)
           ELSE /\ rows' = rows \o read.value
                /\ at' = at + 1
                /\ UNCHANGED <<input, phase, fault, waiting, added, data, table>>

\* Typed exceptions of one machine carry one type.
Exceptions == {r \in AllRows : r.event.kind = "exception" /\ ~r.event.wildcard}

ReadEnd ==
    /\ phase = "read" /\ at > Len(Texts(input.body))
    /\ IF Cardinality({r.event.data : r \in Exceptions}) > 1
       THEN Refuse("one machine cannot route multiple error types")
       ELSE /\ phase' = "route"
            /\ UNCHANGED <<input, fault, rows, at, waiting, added, data, table>>

Starts == {i \in DOMAIN rows : rows[i].from.start}

\* A definition on its own with several starting rows goes to the generator of
\* orthogonal regions; beside other definitions it is expanded here.
Route ==
    /\ phase = "route"
    /\ IF ~input.alone \/ Cardinality(Starts) <= 1
       THEN phase' = "check" /\ fault' = fault
       ELSE IF input.generics.params # << >>
       THEN phase' = "refused" /\ fault' = "generic events need a flat table"
       ELSE phase' = "orthogonal" /\ fault' = fault
    /\ UNCHANGED <<input, rows, at, waiting, added, data, table>>

-----------------------------------------------------------------------------
(* Checking: the first half of ParsedStateMachine::new.                      *)

\* An internal row of a named state leads to that state.
Derived(r) ==
    IF ~r.to.internal \/ r.from.wildcard THEN r
    ELSE [r EXCEPT !.to.ident = r.from.ident, !.to.source = r.from.source,
                   !.to.data = r.from.data, !.to.internal = FALSE]

\* Slip: the names of targets are not recorded.
SourceNames(rs) == {<<r.from.ident, r.from.source>> : r \in {q \in rs : ~q.from.wildcard}}

\* The states and events that rows declare, each with its spelling.
StateNames(rs) ==
    {<<r.from.ident, r.from.source>> : r \in {q \in rs : ~q.from.wildcard}}
    \union {<<r.to.ident, r.to.source>> : r \in {q \in rs : ~q.to.internal}}
EventNames(rs) ==
    {<<r.event.ident, r.event.source>> : r \in {q \in rs : ~q.event.wildcard /\ q.event.kind = "normal"}}

Collide(names) == \E m, n \in names : m[1] = n[1] /\ m[2] # n[2]

Check ==
    LET derived == [i \in DOMAIN rows |-> Derived(rows[i])]
        all     == {derived[i] : i \in DOMAIN derived}
        generic == GenericFault(AllRows, input.generics, input.context)
    IN  /\ phase = "check"
        /\ IF generic # "none" THEN Refuse(generic)
           ELSE IF Collide(StateNames(all)) \/ Collide(EventNames(all))
           THEN Refuse("two spellings of one name")
           ELSE IF Starts = {} THEN Refuse("No starting state defined")
           ELSE IF Cardinality(Starts) > 1 THEN Refuse("More than one starting state defined")
           ELSE /\ rows' = derived
                /\ phase' = "collect" /\ at' = 1
                /\ UNCHANGED <<input, fault, waiting, added, data, table>>

\* DataDefinitions::collect: once typed, a name keeps its type.
Collects(known, name, type) ==
    /\ name \in DOMAIN known => type = <<known[name]>>
    /\ type # << >> => ~type[1].elided

Collected(known, name, type) ==
    IF type = << >> THEN known ELSE With(known, name, type[1])

Collect ==
    LET r      == rows[at]
        leaves == ~r.from.wildcard
        enters == ~r.to.internal
        takes  == /\ ~r.event.wildcard /\ r.event.kind \notin {"entry", "exit", "exception"}
                  /\ r.event.kind = "completion" => r.event.data # << >>
        once   == IF leaves THEN Collected(data.state, r.from.ident, r.from.data) ELSE data.state
        states == (IF leaves THEN {r.from.ident} ELSE {}) \union (IF enters THEN {r.to.ident} ELSE {})
    IN  /\ phase = "collect" /\ at \in DOMAIN rows
        /\ IF \/ leaves /\ ~Collects(data.state, r.from.ident, r.from.data)
              \/ enters /\ ~Collects(once, r.to.ident, r.to.data)
              \/ takes /\ ~Collects(data.event, r.event.ident, r.event.data)
           THEN Refuse("type does not match its previous definition")
           ELSE /\ data' = [state |-> IF enters THEN Collected(once, r.to.ident, r.to.data) ELSE once,
                            event |-> IF takes THEN Collected(data.event, r.event.ident, r.event.data)
                                      ELSE data.event]
                /\ table' = [s \in states \union DOMAIN table |-> IF s \in states THEN Empty ELSE table[s]]
                /\ at' = at + 1
                /\ UNCHANGED <<input, phase, fault, rows, waiting, added>>

-----------------------------------------------------------------------------
(* Expansion: the second half of ParsedStateMachine::new.                    *)

\* event_key: completions, exceptions and unexpected events keep theirs apart.
Key(event) ==
    <<event.kind, IF event.kind \in {"entry", "exit"} \/ event.wildcard THEN "*" ELSE event.ident>>

\* The next row to expand, for every state if it is a wildcard.
Goto(i) ==
    /\ at' = i /\ added' = FALSE
    /\ waiting' = IF i \in DOMAIN rows /\ rows[i].from.wildcard THEN DOMAIN table ELSE {}

CollectEnd ==
    /\ phase = "collect" /\ at > Len(rows)
    /\ phase' = "expand" /\ Goto(1)
    /\ UNCHANGED <<input, fault, rows, data, table>>

\* add_transition: the arm for row i in state s.
Arm(i, s) ==
    LET r == rows[i]
    IN  [guard |-> r.guard, actions |-> r.actions, default |-> r.to.composite # << >>,
         to |-> IF r.to.internal THEN s ELSE r.to.ident, internal |-> r.internal, row |-> i]

Mapping(event) == [event |-> event.ident, kind |-> event.kind, wildcard |-> event.wildcard,
                   external |-> event.external, arms |-> << >>]

WithArm(s, i) ==
    LET key == Key(rows[i].event)
        mapping == IF key \in DOMAIN table[s] THEN table[s][key] ELSE Mapping(rows[i].event)
    IN  [table EXCEPT ![s] = With(@, key, [mapping EXCEPT !.arms = Append(@, Arm(i, s))])]

\* Slip: a row that stays in its state is not looked at.
UnfilledMove(arm) ==
    ~arm.internal /\ arm.to \in DOMAIN data.state /\ arm.actions.action = << >> /\ ~arm.default

\* A state with data is entered with a value from an action or by default.
Unfilled(arm) == arm.to \in DOMAIN data.state /\ arm.actions.action = << >> /\ ~arm.default

Add(s, i) ==
    IF Unfilled(Arm(i, s))
    THEN Refuse("This state has data associated, but no action is defined")
    ELSE /\ table' = WithArm(s, i)
         /\ IF rows[i].from.wildcard
            THEN waiting' = waiting \ {s} /\ added' = TRUE /\ at' = at
            ELSE Goto(i + 1)
         /\ UNCHANGED <<input, phase, fault, rows, data>>

ExpandRow ==
    /\ phase = "expand" /\ at \in DOMAIN rows /\ ~rows[at].from.wildcard
    /\ Add(rows[at].from.ident, at)

\* Slip: a wildcard joins what is there.
SkipsUnexpected(s, event) == event.kind = "unexpected" /\ Key(event) \in DOMAIN table[s]

Skips(s, event) == Key(event) \in DOMAIN table[s]

\* A wildcard row passes over the states that have arms for its trigger.
ExpandState ==
    /\ phase = "expand"
    /\ \E s \in waiting :
         IF Skips(s, rows[at].event)
         THEN /\ waiting' = waiting \ {s}
              /\ UNCHANGED <<input, phase, fault, rows, at, added, data, table>>
         ELSE Add(s, at)

ExpandWildcard ==
    /\ phase = "expand" /\ at \in DOMAIN rows /\ rows[at].from.wildcard /\ waiting = {}
    /\ IF ~added THEN Refuse("Wildcard has no effect")
       ELSE Goto(at + 1) /\ UNCHANGED <<input, phase, fault, rows, data, table>>

\* One external trigger makes every mapping of the event external.
ExpandEnd ==
    LET external == {r.event.ident : r \in {q \in AllRows : q.event.external}}
    IN  /\ phase = "expand" /\ at > Len(rows)
        /\ table' = [s \in DOMAIN table |-> [k \in DOMAIN table[s] |->
                        [table[s][k] EXCEPT !.external = table[s][k].event \in external]]]
        /\ phase' = "validate"
        /\ UNCHANGED <<input, fault, rows, at, waiting, added, data>>

-----------------------------------------------------------------------------
(* Validation: validation.rs.                                                *)

TypeIn(known, name) == IF name \in DOMAIN known THEN <<known[name]>> ELSE << >>

\* Every arm with its state and the key it is filed under.
Filed == UNION {UNION {{[in |-> s, key |-> k, event |-> table[s][k].event, arm |-> table[s][k].arms[j]] :
                           j \in DOMAIN table[s][k].arms} : k \in DOMAIN table[s]} : s \in DOMAIN table}

Arguments(u) == TypeIn(data.state, u.in) \o TypeIn(data.event, u.event)

\* The code takes the output state's data by the key the arm is filed under.
OutputData(u) == IF u.key[1] = "normal" THEN TypeIn(data.state, u.key[2]) ELSE << >>

\* FunctionSignature of the actions of an arm: the last one returns the data.
ActionUses ==
    UNION {LET calls == u.arm.actions.action \o u.arm.actions.more
               evals == u.arm.actions.evals
           IN  {[name |-> calls[k].name, arguments |-> Arguments(u), async |-> calls[k].async,
                 result |-> IF k = Len(calls) THEN OutputData(u) ELSE << >>] : k \in DOMAIN calls}
               \union {[name |-> evals[k].item.name, arguments |-> Arguments(u),
                        async |-> evals[k].item.calls, result |-> << >>] : k \in DOMAIN evals}
           : u \in Filed}

GuardUses ==
    UNION {LET guards == u.arm.guard \o FlattenSeq([k \in DOMAIN u.arm.actions.evals |->
                                                       u.arm.actions.evals[k].item.guard])
           IN  {[name |-> guards[k].name, arguments |-> Arguments(u), async |-> guards[k].async] :
                   k \in DOMAIN guards} : u \in Filed}

Clash(uses) == \E u, v \in uses : u.name = v.name /\ u # v

\* Slip: only a second unguarded arm is an error.
UnreachableTwice(arms) ==
    \E i, j \in DOMAIN arms : i < j /\ arms[i].guard = << >> /\ arms[j].guard = << >>

\* validate_unreachable_transitions: behind an unguarded arm nothing is tried.
Unreachable(arms) == \E i, j \in DOMAIN arms : i < j /\ arms[i].guard = << >>

Validate ==
    /\ phase = "validate"
    /\ IF Clash(ActionUses) THEN Refuse("Action can only be reused with the same data")
       ELSE IF Clash(GuardUses) THEN Refuse("Guard can only be reused with the same data")
       ELSE IF \E s \in DOMAIN table : \E k \in DOMAIN table[s] : Unreachable(table[s][k].arms)
       THEN Refuse("transition is unreachable")
       ELSE /\ phase' = "accepted"
            /\ UNCHANGED <<input, fault, rows, at, waiting, added, data, table>>

Next == \/ Read \/ ReadEnd \/ Route \/ Check \/ Collect \/ CollectEnd
        \/ ExpandRow \/ ExpandState \/ ExpandWildcard \/ ExpandEnd \/ Validate

Spec == Init /\ [][Next]_vars

-----------------------------------------------------------------------------
(* Properties.                                                               *)

\* cpp.rs, "Rust spelling of an sml.cpp transition table": in whichever of its
\* spellings a row is written (target first, without a trigger, quoted names,
\* types with arguments), the rows read are the rows meant.
ReadsAsWritten ==
    phase = "route" /\ input.meant # << >> => rows = FlattenSeq(input.meant)

\* The arms of a table by definition: the rows of a state, and a wildcard row
\* in each state that has no earlier row for its trigger.
Claims(i, s, k) ==
    /\ Key(rows[i].event) = k
    /\ IF rows[i].from.wildcard
       THEN \A j \in 1..(i - 1) : Key(rows[j].event) = k =>
              ~rows[j].from.wildcard /\ rows[j].from.ident # s
       ELSE rows[i].from.ident = s

\* The arms are those, in the order of the rows: the order in which a HashMap
\* yields the states never shows in the table.
TableIsExpansion ==
    phase \in {"validate", "accepted"} =>
        \A s \in DOMAIN table : \A k \in {Key(r.event) : r \in AllRows} :
            LET arms == IF k \in DOMAIN table[s] THEN table[s][k].arms ELSE << >>
            IN  /\ {arms[j].row : j \in DOMAIN arms} = {i \in DOMAIN rows : Claims(i, s, k)}
                /\ \A i, j \in DOMAIN arms : i < j => arms[i].row < arms[j].row

\* No row of an accepted table is dead: each is tried in some state, behind
\* guarded rows only.
NoDeadRow ==
    phase = "accepted" =>
        \A i \in DOMAIN rows : \E u \in Filed :
            /\ u.arm.row = i
            /\ \A v \in Filed : v.in = u.in /\ v.key = u.key /\ v.arm.row < i => v.arm.guard # << >>

\* Every way into a state with data provides it, from wherever in the table the
\* state got its type, and every row that names the type names the same one.
DataProvided ==
    phase = "accepted" =>
        /\ \A u \in Filed : u.arm.to \in DOMAIN data.state =>
             u.arm.default \/ u.arm.actions.action # << >>
        /\ \A r \in AllRows :
             /\ ~r.from.wildcard /\ r.from.data # << >> => r.from.data[1] = data.state[r.from.ident]
             /\ ~r.to.internal /\ r.to.data # << >> => r.to.data[1] = data.state[r.to.ident]

\* Two names that normalize to one identifier never become one state or event:
\* each state of an accepted table has one spelling in its author's rows.
NamesDistinct ==
    phase = "accepted" =>
        \A q, r \in AllRows :
            /\ ~q.to.internal /\ ~r.from.wildcard /\ q.to.ident = r.from.ident => q.to.source = r.from.source
            /\ q.event.kind = "normal" /\ r.event.kind = "normal" /\ q.event.ident = r.event.ident
                 => q.event.source = r.event.source

\* validation.rs, "Action can only be reused when all input states, events, and
\* output states have the same data".
ActionsAgree ==
    phase = "accepted" =>
        \A u, v \in Filed :
            LET last(w) == (w.arm.actions.action \o w.arm.actions.more)
            IN  /\ last(u) # << >> /\ last(v) # << >>
                /\ last(u)[Len(last(u))].name = last(v)[Len(last(v))].name
                => TypeIn(data.state, u.arm.to) = TypeIn(data.state, v.arm.to)

LifetimesAt(u) ==
    UNION {LifetimesOf(t[1]) : t \in {TypeIn(data.state, u.in), TypeIn(data.state, u.arm.to),
                                      TypeIn(data.event, u.event)} \ {<< >>}}

\* The generic parameters of a generated callback are closed: they declare
\* all that its types, bounds and predicates mention, lifetimes first, and every
\* type or constant among them can be inferred from an argument.
CallbacksClosed ==
    phase = "accepted" =>
        \A u \in Filed :
            LET type  == TypeIn(data.event, u.event)
                G     == CallbackGenerics(input.generics, input.context, LifetimesAt(u), type)
                named == Names(G.params)
                own   == Names(input.generics.params)
                shown == UNION {t[1].uses \intersect own : t \in {type, input.context} \ {<< >>}}
            IN  /\ shown \union LifetimesAt(u) \subseteq named
                /\ \A i \in DOMAIN G.params :
                     /\ (UNION G.params[i].bounds) \intersect Lifetime \subseteq named
                     /\ G.params[i].kind # "lifetime" => G.params[i].name \in shown
                     /\ \A j \in 1..(i - 1) : G.params[i].kind = "lifetime" => G.params[j].kind = "lifetime"
                /\ \A p \in G.predicates : (p.uses \union UNION p.bounds) \intersect Lifetime \subseteq named
=============================================================================
