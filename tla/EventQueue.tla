----------------------------- MODULE EventQueue -----------------------------
(***************************************************************************)
(* utility::EventQueue<E, N>: the allocation-free ring buffer behind        *)
(* `defer` and `process` actions and behind the FIFO scheduler's queue.     *)
(* Index arithmetic saturates at the width of usize, as the source writes  *)
(* it, so that a capacity close to usize::MAX is one of the cases.         *)
(***************************************************************************)
EXTENDS Integers, Sequences

CONSTANTS Event,        \* the events a queue may hold
          N,            \* the const generic capacity; zero is allowed
          UsizeMax,     \* the largest usize
          Vacant        \* the None of an Option<E> slot

ASSUME RingAssumption ==
    /\ N \in Nat
    /\ UsizeMax \in Nat
    /\ N <= UsizeMax
    /\ Vacant \notin Event

VARIABLES slots,        \* events: [Option<E>; N]
          head,         \* index of the next event to pop
          len,          \* number of queued events
          ret           \* what the last call returned

vars == <<slots, head, len, ret>>

Ok      == <<"Ok">>
Full    == <<"QueueFull">>
Some(e) == <<"Some", e>>
None    == <<"None">>

SatSub(a, b) == IF a >= b THEN a - b ELSE 0
SatAdd(a, b) == IF a + b > UsizeMax THEN UsizeMax ELSE a + b

Index == 0..(N - 1)            \* the indices get_mut accepts

-----------------------------------------------------------------------------
(* The index `defer` writes to.                                            *)

\* Plausible slips: one computes head + len first and wraps afterwards, one
\* forgets that the ring wraps exactly when head + len reaches N.
TailAddsFirst == LET sum == SatAdd(head, len)
                 IN  IF sum >= N THEN sum - N ELSE sum
TailWrapsLate == IF head > SatSub(N, len)
                   THEN SatSub(head, SatSub(N, len))
                   ELSE SatAdd(head, len)

TailIndex ==
    IF head >= SatSub(N, len)
      THEN SatSub(head, SatSub(N, len))
      ELSE SatAdd(head, len)

-----------------------------------------------------------------------------
Init ==
    /\ slots = [i \in Index |-> Vacant]
    /\ head = 0
    /\ len = 0
    /\ ret = None

Refuse == ret' = Full /\ UNCHANGED <<slots, head, len>>

defer(e) ==
    \/ /\ len = N \/ N = 0 \/ TailIndex \notin Index
       /\ Refuse
    \/ /\ len # N /\ N # 0 /\ TailIndex \in Index
       /\ slots' = [slots EXCEPT ![TailIndex] = e]
       /\ len' = SatAdd(len, 1)
       /\ ret' = Ok
       /\ UNCHANGED head

FrontIndex == IF head = 0 THEN SatSub(N, 1) ELSE SatSub(head, 1)

process(e) ==
    \/ /\ len = N \/ N = 0 \/ FrontIndex \notin Index
       /\ Refuse
    \/ /\ len # N /\ N # 0 /\ FrontIndex \in Index
       /\ head' = FrontIndex
       /\ slots' = [slots EXCEPT ![FrontIndex] = e]
       /\ len' = SatAdd(len, 1)
       /\ ret' = Ok

\* Slip: the head runs off the end of the array.
AfterHeadRunsOff == SatAdd(head, 1)
AfterHead == IF head = SatSub(N, 1) THEN 0 ELSE SatAdd(head, 1)

PopNothing ==
    /\ len = 0 \/ head \notin Index \/ slots[head] = Vacant
    /\ ret' = None
    /\ UNCHANGED <<slots, head, len>>

PopEvent ==
    /\ len # 0 /\ head \in Index
    /\ slots[head] # Vacant
    /\ ret' = Some(slots[head])
    /\ slots' = [slots EXCEPT ![head] = Vacant]
    /\ head' = AfterHead
    /\ len' = SatSub(len, 1)

pop == PopNothing \/ PopEvent

\* while self.pop().is_some() {} : the state the last pop leaves.
clear ==
    /\ slots' = [i \in Index |-> Vacant]
    /\ head' = IF N = 0 THEN head ELSE TailIndex
    /\ len' = 0
    /\ ret' = None

Next ==
    \/ \E e \in Event : defer(e) \/ process(e)
    \/ pop
    \/ clear

Spec == Init /\ [][Next]_vars

-----------------------------------------------------------------------------
(* Properties.                                                             *)

\* The ring index of the i-th queued event, counting from zero.
SlotAt(i) == IF head + i >= N THEN head + i - N ELSE head + i

\* The queued events in pop order: the abstract state of the ring.
Contents == [i \in 1..len |-> slots[SlotAt(i - 1)]]

\* Every field has its type; head is a valid index of a ring that has one.
TypeOK ==
    /\ slots \in [Index -> Event \union {Vacant}]
    /\ head \in Nat
    /\ len \in Nat
    /\ head < N \/ (N = 0 /\ head = 0)
    /\ len <= N

\* Exactly the len slots from head on, wrapping at N, hold an event: no call
\* of EventQueue overwrites a queued event, leaves a hole that would make
\* `pop` return None early, or keeps an event alive in a slot it popped.
WindowOccupied ==
    \A j \in Index :
        slots[j] # Vacant <=> \E i \in 0..(len - 1) : j = SlotAt(i)

\* The ring buffer implements the bounded deque, call by call, return values
\* included: the order in which `defer`, `process` and `pop` hand events out
\* does not depend on where the ring happens to wrap.
Deque == INSTANCE BoundedDeque WITH q <- Contents
ImplementsDeque == Deque!Spec
=============================================================================
