----------------------------- MODULE TableSyntax -----------------------------
(* From the tokens of a transition table to its rows: src/macros/src/parser, *)
(* cpp.rs, transition.rs, input_state.rs, event.rs and output_state.rs.      *)
(*                                                                           *)
(* A token is [is, of]: a punctuation mark stands for itself, a "name" or a  *)
(* "literal" carries its text, a "type" carries a type (its arguments follow *)
(* between angle brackets), and what stands in brackets is one token: a      *)
(* "group" of state tokens, a "guard", one "item" or the "items" of an       *)
(* action.  A parser returns what it read and the tokens that are left, or a *)
(* fault.  An optional value is a sequence of at most one element.           *)
EXTENDS Integers, SequencesExt

CONSTANT Spelled     \* The identifiers that quoted state and event names become.

Mark(m) == [is |-> m, of |-> << >>]

Got(v, left) == [fault |-> "none", value |-> v, left |-> left]
Bad(why)     == [fault |-> why, value |-> << >>, left |-> << >>]

\* What is read, from what is left, after something was.
Then(read, more(_, _)) == IF read.fault # "none" THEN read ELSE more(read.value, read.left)

Peek(ts, is)    == ts # << >> /\ ts[1].is = is
PeekName(ts, n) == Peek(ts, "name") /\ ts[1].of = n
From(ts, i)     == SubSeq(ts, i, Len(ts))

-----------------------------------------------------------------------------
(* The body of a table and its rows.                                         *)

\* Commas separate rows unless an angle bracket is open; the `<` of `<=` opens
\* none.
SplitTransitions(body) ==
    LET step(acc, i) ==
            LET tok   == body[i]
                opens == /\ tok.is = "<"
                         /\ ~(i < Len(body) /\ body[i + 1].is = "=")
                ends  == tok.is = "," /\ acc.depth = 0
                depth == IF opens THEN acc.depth + 1
                         ELSE IF tok.is = ">" /\ acc.depth > 0 THEN acc.depth - 1
                         ELSE acc.depth
            IN  IF ends
                THEN [acc EXCEPT !.rows = IF acc.row = << >> THEN @ ELSE Append(@, acc.row),
                                 !.row = << >>]
                ELSE [acc EXCEPT !.row = Append(@, tok), !.depth = depth]
        last == FoldLeftDomain(step, [rows |-> << >>, row |-> << >>, depth |-> 0], body)
    IN  IF last.row = << >> THEN last.rows ELSE Append(last.rows, last.row)

\* `target <= source ...` is read as `source ... = target`.
NormalizeDirection(row) ==
    LET reverse == {i \in 1..(Len(row) - 1) : row[i].is = "<" /\ row[i + 1].is = "="}
    IN  IF reverse = {} THEN row
        ELSE LET i == Min(reverse)
             IN  From(row, i + 2) \o <<Mark("=")>> \o SubSeq(row, 1, i - 1)

AnyCompletion ==
    <<Mark("+"), [is |-> "name", of |-> "completion"], Mark("<"), Mark("_"), Mark(">")>>

\* A row without a trigger is a completion of any event.
NormalizeTransition(row) ==
    LET directed == NormalizeDirection(row)
        triggers == \E i \in DOMAIN directed : directed[i].is = "+"
        places   == {i \in DOMAIN directed : directed[i].is \in {"/", "=", "guard"}}
    IN  IF triggers \/ places = {} THEN directed
        ELSE LET i == Min(places)
             IN  SubSeq(directed, 1, i - 1) \o AnyCompletion \o From(directed, i)

-----------------------------------------------------------------------------
(* States.                                                                   *)

\* A name, a quoted name, state<Child> or sml::X.
NamedState(ts) ==
    LET state(ident, source, composite, n) ==
            Got([ident |-> ident, source |-> source, composite |-> composite], From(ts, n + 1))
    IN  IF Peek(ts, "literal")
        THEN state(Spelled[ts[1].of], <<"literal", ts[1].of>>, << >>, 1)
        ELSE IF PeekName(ts, "state") /\ Peek(From(ts, 2), "<")
        THEN IF Peek(From(ts, 3), "name") /\ Peek(From(ts, 4), ">")
             THEN state(Spelled[ts[3].of], <<"composite", ts[3].of>>, <<ts[3].of>>, 4)
             ELSE Bad("syntax")
        ELSE IF PeekName(ts, "sml") /\ Peek(From(ts, 2), "::")
        THEN IF PeekName(From(ts, 3), "X")
             THEN state("X", <<"identifier", "X">>, << >>, 3)
             ELSE Bad("only the terminal state may be namespace-qualified")
        ELSE IF Peek(ts, "name")
        THEN state(ts[1].of, <<"identifier", ts[1].of>>, << >>, 1)
        ELSE Bad("syntax")

\* The type of a composite state is its child's machine unless one is written.
PlainType(n)  == [name |-> n, uses |-> {}, args |-> << >>, mutable |-> FALSE, elided |-> FALSE]
TypeOf(state) == [i \in DOMAIN state.composite |-> PlainType(state.composite[i])]

\* A state with its type, if one is written; the type H asks for history.
SourceState(start, state, left) ==
    LET typed   == Peek(left, "type")
        history == typed /\ left[1].of.name = "H"
    IN  Got([start |-> start, wildcard |-> FALSE, ident |-> state.ident,
             source |-> state.source, composite |-> state.composite, history |-> history,
             data |-> IF ~typed THEN TypeOf(state) ELSE IF history THEN << >> ELSE <<left[1].of>>],
            IF typed THEN Tail(left) ELSE left)

Wildcard == [start |-> FALSE, wildcard |-> TRUE, ident |-> "_", source |-> <<"wildcard", "_">>,
             composite |-> << >>, history |-> FALSE, data |-> << >>]

PlainState(ts, start) ==
    IF ~Peek(ts, "_") THEN Then(NamedState(ts), LAMBDA state, left : SourceState(start, state, left))
    ELSE IF start THEN Bad("Wildcards can't be used as the starting state.")
    ELSE IF Peek(Tail(ts), "type") THEN Bad("Wildcard states cannot have data associated with it.")
    ELSE Got(Wildcard, Tail(ts))

\* Slip: the star before a parenthesized state is lost.
GroupForgetsStart(ts) ==
    LET start == Peek(ts, "*")
        rest  == IF start THEN Tail(ts) ELSE ts
    IN  IF ~Peek(rest, "group") THEN PlainState(rest, start)
        ELSE Then(PlainState(rest[1].of, FALSE), LAMBDA state, left : Got(state, Tail(rest)))

\* InputState::parse: a star in front of a parenthesis is that of the one
\* state in it, which has none of its own.
RECURSIVE InputState(_)
InputState(ts) ==
    LET start == Peek(ts, "*")
        rest  == IF start THEN Tail(ts) ELSE ts
    IN  IF ~Peek(rest, "group") THEN PlainState(rest, start)
        ELSE Then(InputState(rest[1].of), LAMBDA state, left :
            IF left # << >> \/ state.start
            THEN Bad("a parenthesized state must contain exactly one state expression")
            ELSE Got([state EXCEPT !.start = start], Tail(rest)))

RECURSIVE InputStates(_)
InputStates(ts) ==
    Then(InputState(ts), LAMBDA state, left :
        IF ~Peek(left, "|") THEN Got(<<state>>, left)
        ELSE Then(InputStates(Tail(left)), LAMBDA states, rest : Got(<<state>> \o states, rest)))

\* OutputState::parse: without a target, or with `_`, the row is internal.
Internal(source, left) ==
    Got([ident |-> "_", source |-> source, composite |-> << >>, data |-> << >>, internal |-> TRUE],
        left)

TargetState(state, left) ==
    LET typed == Peek(left, "type")
    IN  Got([ident |-> state.ident, source |-> state.source, composite |-> state.composite,
             data |-> IF typed THEN <<left[1].of>> ELSE TypeOf(state), internal |-> FALSE],
            IF typed THEN Tail(left) ELSE left)

OutputState(ts) ==
    IF ~Peek(ts, "=") THEN Internal(<<"internal", "_">>, ts)
    ELSE IF Peek(From(ts, 2), "_") THEN Internal(<<"identifier", "_">>, From(ts, 3))
    ELSE Then(NamedState(Tail(ts)), TargetState)

-----------------------------------------------------------------------------
(* Triggers.                                                                 *)

\* A type, its arguments skipped up to the bracket that closes them.
TypeTokens(ts) ==
    LET depth(i) == Cardinality({j \in 1..i : ts[j].is = "<"})
                    - Cardinality({j \in 1..i : ts[j].is = ">"})
        closed   == {i \in 2..Len(ts) : depth(i) = 0}
    IN  IF ~Peek(ts, "type") THEN Bad("syntax")
        ELSE IF ~Peek(From(ts, 2), "<") THEN Got(ts[1].of, Tail(ts))
        ELSE IF closed = {} THEN Bad("syntax")
        ELSE Got(ts[1].of, From(ts, Min(closed) + 1))

Kinds == [event |-> "normal", unexpected |-> "unexpected", unexpected_event |-> "unexpected",
          completion |-> "completion", on_entry |-> "entry", on_exit |-> "exit",
          exception |-> "exception"]

\* What stands between the brackets of `word<...>`: a type, a name or `_`.
Bracketed(ts, word) ==
    LET closed(any, t, ident, left) ==
            IF Peek(left, ">") THEN Got([any |-> any, type |-> t, ident |-> ident], Tail(left))
            ELSE Bad("syntax")
        typed == Then(TypeTokens(ts), LAMBDA type, left : closed(FALSE, <<type>>, type.name, left))
    IN  IF Peek(ts, "_") /\ word # "event" THEN closed(TRUE, << >>, word, Tail(ts))
        ELSE IF Kinds[word] \in {"normal", "unexpected"} THEN typed
        ELSE IF Kinds[word] \in {"completion", "exception"} /\ Peek(ts, "name")
        THEN closed(FALSE, << >>, ts[1].of, Tail(ts))
        ELSE Bad("syntax")

\* event<E>, unexpected_event<E>, completion<E> and the others, and the data
\* written after it or, for a type from elsewhere, the type itself.
Worded(word, inner, left) ==
    LET kind     == Kinds[word]
        wildcard == inner.any /\ kind \notin {"entry", "exit"}
        external == word \in {"event", "unexpected_event"} /\ ~wildcard
        typed    == Peek(left, "type")
    IN  IF wildcard /\ typed THEN Bad("A wildcard trigger cannot carry event data.")
        ELSE Got([ident |-> inner.ident, kind |-> kind, wildcard |-> wildcard, external |-> external,
                  source |-> <<"identifier", inner.ident>>,
                  data |-> IF typed THEN <<left[1].of>>
                           ELSE IF external THEN inner.type
                           ELSE IF kind = "exception" /\ ~wildcard THEN <<PlainType(inner.ident)>>
                           ELSE << >>],
                 IF typed THEN Tail(left) ELSE left)

\* A trigger that is just a name, quoted or not.
Named(ident, source, left) ==
    LET typed == Peek(left, "type")
    IN  Got([ident |-> ident, kind |-> "normal", wildcard |-> FALSE, external |-> FALSE,
             source |-> source, data |-> IF typed THEN <<left[1].of>> ELSE << >>],
            IF typed THEN Tail(left) ELSE left)

\* Event::parse
Event(ts) ==
    LET qualified == PeekName(From(ts, 2), "sml") /\ Peek(From(ts, 3), "::")
        word      == From(ts, IF qualified THEN 4 ELSE 2)
        kindly    == Peek(word, "name") /\ word[1].of \in DOMAIN Kinds /\ Peek(Tail(word), "<")
    IN  IF ~Peek(ts, "+") THEN Bad("syntax")
        ELSE IF kindly
        THEN Then(Bracketed(From(word, 3), word[1].of),
                  LAMBDA inner, left : Worded(word[1].of, inner, left))
        ELSE IF Peek(word, "literal")
        THEN Named(Spelled[word[1].of], <<"literal", word[1].of>>, Tail(word))
        ELSE IF Peek(word, "name")
        THEN Named(word[1].of, <<"identifier", word[1].of>>, Tail(word))
        ELSE Bad("syntax")

-----------------------------------------------------------------------------
(* Rows.                                                                     *)

NoActions == [action |-> << >>, more |-> << >>, process |-> << >>, defer |-> FALSE, evals |-> << >>]

OfOp(items, op) == SelectSeq(items, LAMBDA item : item.op = op)
Evals(items) ==
    LET at == SelectSeq([i \in DOMAIN items |-> i], LAMBDA i : items[i].op = "eval")
    IN  [k \in DOMAIN at |-> [position |-> at[k], item |-> items[at[k]]]]

\* The items of an action: callbacks in order, queue operations, evals at their
\* place.  Only callbacks may be async.
Actions(items) ==
    IF \E i \in DOMAIN items : items[i].op # "call" /\ items[i].async
    THEN Bad("a queue operation or eval is not an async callback")
    ELSE Got([action |-> SubSeq(OfOp(items, "call"), 1, Min({1, Len(OfOp(items, "call"))})), more |-> From(OfOp(items, "call"), 2),
              process |-> OfOp(items, "process"), defer |-> OfOp(items, "defer") # << >>,
              evals |-> Evals(items)], << >>)

\* One item without parentheses, which eval needs, or a list of items.
ActionList(ts) ==
    IF Peek(ts, "item") /\ ts[1].of.op # "eval" THEN Actions(<<ts[1].of>>)
    ELSE IF Peek(ts, "items") THEN Actions(ts[1].of)
    ELSE Bad("syntax")

\* StateTransitions::parse: states, trigger, guard, actions, target.
Complete(states, event, guard, actions, ts) ==
    Then(OutputState(ts), LAMBDA to, left :
        IF left # << >> THEN Bad("syntax")
        ELSE Got([from |-> states, event |-> event, guard |-> guard, actions |-> actions, to |-> to],
                 << >>))

Acting(states, event, guard, ts) ==
    IF ~Peek(ts, "/") THEN Complete(states, event, guard, NoActions, ts)
    ELSE Then(ActionList(From(ts, 2)),
              LAMBDA actions, left : Complete(states, event, guard, actions, From(ts, 3)))

Transitions(ts) ==
    Then(InputStates(ts), LAMBDA states, left :
        IF Len(states) > 1 /\ \E i \in DOMAIN states : states[i].wildcard
        THEN Bad("Wildcards already include all states")
        ELSE Then(Event(left), LAMBDA event, rest :
            IF Peek(rest, "guard") THEN Acting(states, event, rest[1].of, Tail(rest))
            ELSE Acting(states, event, << >>, rest)))

\* StateMachine::add_transitions: one row for each source state.
AddTransitions(t) ==
    [i \in DOMAIN t.from |->
        [from |-> t.from[i], event |-> t.event, guard |-> t.guard, actions |-> t.actions,
         to |-> t.to, internal |-> t.to.internal]]

\* The rows that a text is read as.
ReadRows(ts) ==
    Then(Transitions(NormalizeTransition(ts)), LAMBDA t, left : Got(AddTransitions(t), left))
=============================================================================
