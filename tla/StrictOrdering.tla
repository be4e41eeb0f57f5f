--------------------------- MODULE StrictOrdering ---------------------------
(***************************************************************************)
(* The contract of a queued scheduler (the traits Queued and              *)
(* StrictOrdering of scheduler.rs), without threads, locks or wakers:     *)
(* events are accepted into a line, run one at a time from its front, each *)
(* to completion, and every caller learns what became of its event.       *)
(***************************************************************************)
EXTENDS Naturals, Sequences

CONSTANTS Event, N, Faulty, Nobody

VARIABLES line,         \* accepted events that have not started
          running,      \* the event being run, or Nobody
          closed,       \* the machine is in X, or failed to start
          verdict       \* what became of each event

vars == <<line, running, closed, verdict>>

Init ==
    /\ line = << >>
    /\ running = Nobody
    /\ closed \in BOOLEAN
    /\ verdict = [e \in Event |-> "unknown"]

\* The event takes its place at the end of the line: N queued events, and
\* the one the draining caller has in hand.
Accept(e) ==
    /\ verdict[e] = "unknown"
    /\ Len(line) <= N
    /\ line' = Append(line, e)
    /\ verdict' = [verdict EXCEPT ![e] = "accepted"]
    /\ UNCHANGED <<running, closed>>

Begin ==
    /\ ~closed
    /\ running = Nobody
    /\ line # << >>
    /\ running' = Head(line)
    /\ line' = Tail(line)
    /\ UNCHANGED <<closed, verdict>>

\* The running event completes, is rejected, or panics; it may reach X.
End ==
    /\ running # Nobody
    /\ \E v \in {"true", "false"} \union
                (IF running \in Faulty THEN {"panicked"} ELSE {}) :
         verdict' = [verdict EXCEPT ![running] = v]
    /\ closed' \in BOOLEAN
    /\ running' = Nobody
    /\ UNCHANGED line

\* A closed machine discards an event from the front of the line, or,
\* unwinding from a panic, all of them.
Discard ==
    /\ closed
    /\ line # << >>
    /\ line' \in {Tail(line), << >>}
    /\ UNCHANGED <<running, closed, verdict>>

Next == (\E e \in Event : Accept(e)) \/ Begin \/ End \/ Discard

Spec == Init /\ [][Next]_vars
=============================================================================
