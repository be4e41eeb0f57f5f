---------------------------- MODULE MCFlatMachine ----------------------------
(* FlatMachine for TLC: families of small tables.                          *)
EXTENDS FlatMachine

CONSTANTS A, B, e, f

On(s, kind, trigger) ==
    [from |-> s, kind |-> kind, event |-> trigger, guard |-> FALSE,
     action |-> FALSE, defer |-> FALSE, process |-> << >>, to |-> s,
     internal |-> TRUE]
To(row, s)      == [row EXCEPT !.to = s, !.internal = FALSE]
Guarded(row)    == [row EXCEPT !.guard = TRUE]
Acting(row)     == [row EXCEPT !.action = TRUE]
Deferring(row)  == [row EXCEPT !.defer = TRUE]
Processing(row) == [row EXCEPT !.process = <<f>>]

\* validate_unreachable_transitions: in an arm an unguarded row comes last.
Valid(T) ==
    \A i, j \in DOMAIN T :
        i < j /\ T[i].from = T[j].from /\ T[i].kind = T[j].kind /\ T[i].event = T[j].event
            => T[i].guard

\* The tables that pick n rows of a pool, in the order of the pool.
TablesOf(pool, n) ==
    LET picks == {c \in [1..n -> DOMAIN pool] : \A k \in 2..n : c[k - 1] < c[k]}
    IN  {T \in {[k \in 1..n |-> pool[c[k]]] : c \in picks} : Valid(T)}

\* Every feature that needs no callback to fail.
QueuePool == <<
    Guarded(Deferring(On(A, "normal", e))),
    Deferring(On(A, "normal", e)),
    Processing(To(On(A, "normal", e), B)),
    Processing(On(B, "normal", e)),
    To(On(B, "normal", e), A),
    To(On(A, "normal", f), B),
    Guarded(To(On(B, "normal", f), A)),
    To(On(A, "unexpected", Wild), B),
    Deferring(On(B, "unexpected", e)),
    Guarded(To(On(A, "completion", Wild), B)),
    To(On(B, "completion", e), A),
    Processing(To(On(A, "completion", e), B)) >>
QueueTables == TablesOf(QueuePool, 5)

\* Every place where a callback may fail, and the rows that recover.
FaultPool == <<
    Guarded(Acting(To(On(A, "normal", e), B))),
    Acting(To(On(A, "normal", e), A)),
    Acting(Deferring(On(A, "normal", e))),
    Acting(Processing(To(On(A, "normal", f), B))),
    Acting(On(B, "normal", f)),
    Acting(To(On(B, "completion", Wild), A)),
    To(On(B, "completion", f), A),
    On(B, "entry", Wild),
    On(A, "exit", Wild),
    Acting(To(On(A, "exception", Wild), B)),
    Acting(On(A, "exception", e)),
    Guarded(To(On(B, "exception", Wild), A)) >>
FaultTables == TablesOf(FaultPool, 5)

\* An event is deferred in one state only and that state is not entered again.
OneWayPool == <<
    Deferring(On(A, "normal", e)),
    Acting(Processing(To(On(A, "normal", f), B))),
    Acting(On(B, "normal", e)),
    Acting(On(B, "unexpected", Wild)),
    Guarded(Acting(To(On(A, "completion", e), B))),
    Guarded(To(On(A, "completion", Wild), B)),
    On(B, "entry", Wild),
    On(A, "exit", Wild),
    Acting(To(On(A, "exception", Wild), B)),
    Acting(On(B, "exception", e)) >>
OneWayTables == TablesOf(OneWayPool, 4)

AllTables == QueueTables \union FaultTables \union OneWayTables

\* Tables of an async machine: both events may be deferred, one row processes
\* two events, completions process, and callbacks fail between them.
AsyncPool == <<
    Acting(Deferring(On(A, "normal", e))),
    Acting(Processing(To(On(A, "normal", f), B))),
    [To(On(A, "normal", e), B) EXCEPT !.process = <<f, e>>],
    On(B, "normal", e),
    Acting(To(On(B, "normal", f), A)),
    Deferring(On(B, "normal", f)),
    Processing(To(On(A, "completion", Wild), B)),
    Guarded(To(On(B, "completion", e), A)),
    On(B, "entry", Wild),
    Acting(To(On(B, "exception", Wild), A)) >>

\* async_queue: the table has queue actions.
QueuedTables ==
    {T \in TablesOf(AsyncPool, 4) \union OneWayTables :
        \E i \in DOMAIN T : T[i].defer \/ T[i].process # << >>}

\* A thread inside the engine leaves it again, with and without async
\* callbacks, if no state that defers is entered again.
OneWayReturns == (rows \in OneWayTables /\ Running) ~> ~Running
=============================================================================
