---------------------------- MODULE BoundedDeque ----------------------------
(***************************************************************************)
(* What utility::EventQueue promises: a double-ended queue of at most N    *)
(* events.  `defer` appends, `process` inserts ahead of everything queued, *)
(* `pop` removes the oldest, and a full queue refuses and stays as it is.  *)
(* The ring buffer of module EventQueue implements this specification.     *)
(***************************************************************************)
EXTENDS Naturals, Sequences

CONSTANTS Event,        \* the events a queue may hold
          N             \* the capacity, a const generic of the Rust type

VARIABLES q,            \* the queued events, the next one to pop first
          ret           \* what the last call returned

vars == <<q, ret>>

Ok       == <<"Ok">>            \* Ok(())
Full     == <<"QueueFull">>     \* Err(QueueFull)
Some(e)  == <<"Some", e>>       \* Some(event)
None     == <<"None">>          \* None
Returns  == {Ok, Full, None} \union {Some(e) : e \in Event}

Init == q = << >> /\ ret = None

PushBack(e) ==
    \/ /\ Len(q) = N
       /\ ret' = Full
       /\ UNCHANGED q
    \/ /\ Len(q) < N
       /\ q' = Append(q, e)
       /\ ret' = Ok

PushFront(e) ==
    \/ /\ Len(q) = N
       /\ ret' = Full
       /\ UNCHANGED q
    \/ /\ Len(q) < N
       /\ q' = <<e>> \o q
       /\ ret' = Ok

PopFront ==
    \/ /\ q = << >>
       /\ ret' = None
       /\ UNCHANGED q
    \/ /\ q # << >>
       /\ ret' = Some(Head(q))
       /\ q' = Tail(q)

Empty ==
    /\ q' = << >>
    /\ ret' = None

Next ==
    \/ \E e \in Event : PushBack(e) \/ PushFront(e)
    \/ PopFront
    \/ Empty

Spec == Init /\ [][Next]_vars
=============================================================================
