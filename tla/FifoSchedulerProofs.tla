------------------------- MODULE FifoSchedulerProofs -------------------------
(***************************************************************************)
(* For every set of tasks and readers, every capacity and every machine:   *)
(* the cell keeps its types (CellTyped), and, unless a task submits from a *)
(* destructor of an unwinding thread, at most one task drains at any time  *)
(* (OneConsumer).  Whoever submits from wherever: somebody is bound to     *)
(* resolve every open ticket (EveryTicketHeld), a completion is registered *)
(* for room once and only while it waits (OneRegistration), and neither    *)
(* kind of wakeup is lost (NoWakeupLost, NoTicketWakeupLost).              *)
(***************************************************************************)
EXTENDS FifoScheduler, TLAPS

\* Resolving a ticket keeps the types of what it touches.
LEMMA ResolveTyped ==
    ASSUME TypeOK, NEW u \in Task \union {Nobody}, NEW b \in BOOLEAN, ResolveTicket(u, b)
    PROVE  /\ ticket' \in [Task -> Tickets]
           /\ ticketWaker' \in [Task -> BOOLEAN]
           /\ awake' \in [Task -> BOOLEAN]
<1>1. ticket' \in [Task -> Tickets]
  BY DEF ResolveTicket, TypeOK, Tickets
<1>2. ticketWaker' \in [Task -> BOOLEAN] /\ awake' \in [Task -> BOOLEAN]
  BY DEF ResolveTicket, TypeOK
<1>3. QED
  BY <1>1, <1>2

\* Popping leaves a shorter queue and hands out a task's event.
LEMMA PopTyped ==
    ASSUME TypeOK, events # << >>
    PROVE  /\ Head(events) \in Task
           /\ Popped \in Seq(Task) /\ Len(Popped) <= N
BY FifoAssumption DEF TypeOK, Popped

\* What queueing and popping do to the set of queued events.
LEMMA RangeAppend ==
    ASSUME NEW s \in Seq(Task), NEW e \in Task
    PROVE  Range(Append(s, e)) = Range(s) \union {e}
<1>1. \A i \in 1..Len(s) : Append(s, e)[i] = s[i]
  OBVIOUS
<1>2. Append(s, e)[Len(s) + 1] = e /\ DOMAIN Append(s, e) = 1..(Len(s) + 1)
  OBVIOUS
<1>3. DOMAIN s = 1..Len(s) /\ Len(s) \in Nat
  OBVIOUS
<1>4. Range(Append(s, e)) \subseteq Range(s) \union {e}
  BY <1>1, <1>2, <1>3 DEF Range
<1>5. Range(s) \union {e} \subseteq Range(Append(s, e))
  BY <1>1, <1>2, <1>3 DEF Range
<1>6. QED
  BY <1>4, <1>5

\* Popping takes the oldest event out of the set of queued events.
LEMMA RangePop ==
    ASSUME NEW s \in Seq(Task), s # << >>
    PROVE  Range(s) = {Head(s)} \union Range(Tail(s))
<1>1. /\ Len(s) \in Nat /\ Len(s) > 0
      /\ DOMAIN s = 1..Len(s) /\ DOMAIN Tail(s) = 1..(Len(s) - 1)
      /\ Head(s) = s[1]
      /\ \A i \in 1..(Len(s) - 1) : Tail(s)[i] = s[i + 1]
  OBVIOUS
<1>2. Range(s) \subseteq {Head(s)} \union Range(Tail(s))
  <2> SUFFICES ASSUME NEW i \in 1..Len(s) PROVE s[i] \in {Head(s)} \union Range(Tail(s))
    BY <1>1 DEF Range
  <2>1. CASE i = 1
    BY <1>1, <2>1
  <2>2. CASE i # 1
    <3>1. i - 1 \in 1..(Len(s) - 1) /\ Tail(s)[i - 1] = s[i]
      BY <1>1, <2>2
    <3>2. QED
      BY <1>1, <3>1 DEF Range
  <2>3. QED
    BY <2>1, <2>2
<1>3. {Head(s)} \union Range(Tail(s)) \subseteq Range(s)
  <2>1. Head(s) \in Range(s)
    BY <1>1 DEF Range
  <2>2. Range(Tail(s)) \subseteq Range(s)
    BY <1>1 DEF Range
  <2>3. QED
    BY <2>1, <2>2
<1>4. QED
  BY <1>2, <1>3

\* The answer of a drain keeps the types.
LEMMA AnswerTyped ==
    ASSUME TypeOK, NEW t \in Task, DrainAnswer(t)
    PROVE  /\ completion' \in [Task -> Completions]
           /\ pc' \in [Task -> Labels]
           /\ first' \in [Task -> BOOLEAN]
           /\ seen' \in [Task -> BOOLEAN]
<1>1. completion' \in [Task -> Completions]
  BY DEF DrainAnswer, Answer, TypeOK, Completions
<1>2. pc' \in [Task -> Labels]
  BY DEF DrainAnswer, Answer, Goto, TypeOK, Labels
<1>3. first' \in [Task -> BOOLEAN] /\ seen' \in [Task -> BOOLEAN]
  BY DEF DrainAnswer, TypeOK
<1>4. QED
  BY <1>1, <1>2, <1>3

\* And the end of a poll.
LEMMA PollEndTyped ==
    ASSUME TypeOK, NEW t \in Task, PollEnd(t)
    PROVE  /\ completion' \in [Task -> Completions]
           /\ pc' \in [Task -> Labels]
           /\ ticketWaker' \in [Task -> BOOLEAN]
<1> USE DEF PollEnd, Goto, TypeOK
<1>1. completion' \in [Task -> Completions]
  BY DEF Completions, Tickets
<1>2. pc' \in [Task -> Labels]
  BY DEF Labels
<1>3. ticketWaker' \in [Task -> BOOLEAN]
  OBVIOUS
<1>4. QED
  BY <1>1, <1>2, <1>3

\* An offer keeps the types.
LEMMA OfferTyped ==
    ASSUME TypeOK, NEW t \in Task, offer(t)
    PROVE  TypeOK'
<1> USE FifoAssumption DEF TypeOK, OfferKeeps, Answer, Goto, Accept, StartDrain, queueVars, machineVars,
        ticketVars, drainVars, orderVars
<1>1. CASE OfferClosed(t)
  BY SMTT(60), <1>1 DEF OfferClosed, Labels, Completions
<1>2. CASE OfferFull(t)
  <2>1. room' \in [Task -> Nat]
    BY <1>2 DEF OfferFull, Registered
  <2>2. pc' = [pc EXCEPT ![t] = pc'[t]] /\ pc'[t] \in {"rejected", "await"}
    BY <1>2 DEF OfferFull
  <2>3. completion' = [completion EXCEPT ![t] = completion'[t]]
        /\ completion'[t] \in {"room", completion[t]}
    BY <1>2 DEF OfferFull
  <2>4. UNCHANGED <<events, draining, terminated, ticket, job, seen, orderVars>> /\ OfferKeeps
    BY <1>2 DEF OfferFull
  <2>5. pc' \in [Task -> Labels]
    BY <2>2 DEF Labels
  <2>6. completion' \in [Task -> Completions]
    BY <2>3 DEF Completions
  <2>7. QED
    BY SMTT(60), <2>1, <2>4, <2>5, <2>6
<1>3. CASE OfferQueued(t)
  BY SMTT(60), <1>3 DEF OfferQueued, IsFull, Labels, Completions, Tickets
<1>4. CASE OfferBehind(t)
  BY SMTT(60), <1>4 DEF OfferBehind, Popped, Labels, Tickets
<1>5. CASE OfferIdle(t)
  BY SMTT(60), <1>5 DEF OfferIdle, Labels
<1>6. QED
  BY <1>1, <1>2, <1>3, <1>4, <1>5 DEF offer

\* A drain keeps the types.
LEMMA DrainTyped ==
    ASSUME TypeOK, NEW t \in Task, drain(t) \/ StepPanic(t)
    PROVE  TypeOK'
<1> USE FifoAssumption DEF TypeOK, DrainKeeps, HasTurn, Answer, Goto, queueVars, machineVars,
        ticketVars, drainVars, orderVars
<1>1. CASE Skip(t)
  <2>1. /\ ticket' \in [Task -> Tickets]
        /\ ticketWaker' \in [Task -> BOOLEAN]
        /\ awake' \in [Task -> BOOLEAN]
    BY <1>1, ResolveTyped DEF Skip
  <2>2. pc' \in [Task -> Labels]
    BY <1>1 DEF Skip, Labels
  <2>3. UNCHANGED <<events, draining, terminated, room, lock, dead, completion, job, seen,
                    reply, first, wakes, stranded, outcome, op, waiterWaker, pos, issued>>
    BY <1>1 DEF Skip
  <2>4. QED
    BY <2>1, <2>2, <2>3
<1>2. CASE StepBegin(t)
  BY SMTT(60), <1>2 DEF StepBegin, Labels, Outcomes
<1>3. CASE StepReturn(t)
  <2>1. reply' \in [Task -> BOOLEAN]
    BY <1>3 DEF StepReturn
  <2>2. outcome' \in [Task -> Outcomes]
    BY <1>3 DEF StepReturn, Outcomes
  <2>3. dead' \in BOOLEAN
    BY <1>3 DEF StepReturn, MayStop
  <2>4. seen' \in [Task -> BOOLEAN]
    BY <1>3, <2>3 DEF StepReturn, NoteX
  <2>5. lock' \in Task \union Reader \union {Nobody} /\ pc' \in [Task -> Labels]
    BY <1>3 DEF StepReturn, Labels
  <2>6. UNCHANGED <<queueVars, completion, awake, ticketVars, job, first, wakes, stranded>>
        /\ DrainKeeps
    BY <1>3 DEF StepReturn
  <2>7. QED
    BY SMTT(60), <2>1, <2>2, <2>3, <2>4, <2>5, <2>6
<1>4. CASE Resolve(t)
  <2>1. /\ ticket' \in [Task -> Tickets]
        /\ ticketWaker' \in [Task -> BOOLEAN]
        /\ awake' \in [Task -> BOOLEAN]
        /\ first' \in [Task -> BOOLEAN]
    <3>1. CASE ticket[job[t]] = "none"
      <4>1. first' = [first EXCEPT ![t] = reply[t]] /\ UNCHANGED <<ticket, ticketWaker, awake>>
        BY <1>4, <3>1 DEF Resolve
      <4>2. QED
        BY <4>1
    <3>2. CASE ticket[job[t]] # "none"
      <4>1. ResolveTicket(job[t], reply[t]) /\ UNCHANGED first
        BY <1>4, <3>2 DEF Resolve
      <4>2. job[t] \in Task \union {Nobody} /\ reply[t] \in BOOLEAN
        OBVIOUS
      <4>3. QED
        BY <4>1, <4>2, ResolveTyped
    <3>3. QED
      BY <3>1, <3>2
  <2>2. reply' \in [Task -> BOOLEAN] /\ pc' \in [Task -> Labels]
    BY <1>4 DEF Resolve, Labels
  <2>3. UNCHANGED <<events, draining, terminated, room, lock, dead, completion, job, seen,
                    wakes, stranded, outcome, op, waiterWaker, pos, issued>>
    BY <1>4 DEF Resolve
  <2>4. QED
    BY <2>1, <2>2, <2>3
<1>5. CASE NextEvent(t)
  <2>1. terminated' \in BOOLEAN /\ draining' \in BOOLEAN /\ pc' \in [Task -> Labels]
    BY <1>5 DEF NextEvent, Labels
  <2>2. events' \in Seq(Task) /\ Len(events') <= N
    BY <1>5, PopTyped DEF NextEvent
  <2>3. job' \in [Task -> Task \union {Nobody}]
    <3>1. PICK u \in Task \union {Nobody} : job' = [job EXCEPT ![t] = u]
      <4>1. CASE events = << >>
        BY <1>5, <4>1 DEF NextEvent
      <4>2. CASE events # << >>
        BY <1>5, <4>2, PopTyped DEF NextEvent
      <4>3. QED
        BY <4>1, <4>2
    <3>2. QED
      BY <3>1
  <2>4. wakes' \in [Task -> SUBSET Task] /\ room' \in [Task -> Nat]
    BY <1>5 DEF NextEvent, Waiting
  <2>5. UNCHANGED <<lock, dead, completion, awake, ticketVars, seen, reply, first,
                    stranded, outcome>>
        /\ DrainKeeps
    BY <1>5 DEF NextEvent
  <2>6. QED
    BY SMTT(60), <2>1, <2>2, <2>3, <2>4, <2>5
<1>6. CASE WakeNext(t)
  BY SMTT(60), <1>6 DEF WakeNext, WakeWaiter
<1>7. CASE DrainReturn(t)
  <2>1. /\ completion' \in [Task -> Completions]
        /\ pc' \in [Task -> Labels]
        /\ first' \in [Task -> BOOLEAN]
        /\ seen' \in [Task -> BOOLEAN]
    <3>1. CASE DrainAnswer(t)
      BY <3>1, AnswerTyped
    <3>2. CASE Goto(t, "probe") /\ UNCHANGED <<completion, first, seen>>
      BY <3>2 DEF Labels
    <3>3. QED
      BY <1>7, <3>1, <3>2 DEF DrainReturn
  <2>2. UNCHANGED <<events, draining, terminated, room, lock, dead, awake, ticket,
                    ticketWaker, job, reply, wakes, stranded, outcome, op, waiterWaker,
                    pos, issued>>
    BY <1>7 DEF DrainReturn
  <2>3. QED
    BY <2>1, <2>2
<1>8. CASE StepPanic(t)
  <2>1. dead' \in BOOLEAN
    BY <1>8 DEF StepPanic, MayStop
  <2>2. outcome' \in [Task -> Outcomes] /\ pc' \in [Task -> Labels]
    BY <1>8 DEF StepPanic, Outcomes, Labels
  <2>3. QED
    BY SMTT(60), <1>8, <2>1, <2>2 DEF StepPanic
<1>9. QED
  BY <1>1, <1>2, <1>3, <1>4, <1>5, <1>6, <1>7, <1>8 DEF drain

\* Unwinding keeps the types.
LEMMA UnwindTyped ==
    ASSUME TypeOK, NEW t \in Task, unwinding(t)
    PROVE  TypeOK'
<1> USE FifoAssumption DEF TypeOK, DrainKeeps, Answer, Goto, queueVars, machineVars,
        ticketVars, drainVars, orderVars
<1>1. CASE PendingDrop(t)
  <2>1. /\ ticket' \in [Task -> Tickets]
        /\ ticketWaker' \in [Task -> BOOLEAN]
        /\ awake' \in [Task -> BOOLEAN]
    BY <1>1, ResolveTyped DEF PendingDrop
  <2>2. /\ pc' \in [Task -> Labels]
        /\ UNCHANGED <<queueVars, lock, dead, completion, drainVars, outcome>>
        /\ DrainKeeps
    BY <1>1 DEF PendingDrop, Labels
  <2>3. QED
    BY SMTT(60), <2>1, <2>2
<1>2. CASE Probe(t)
  BY SMTT(60), <1>2 DEF Probe, Labels
<1>3. CASE Handover(t)
  <2>1. terminated' \in BOOLEAN
    BY <1>3, Zenon DEF Handover
  <2>2. events' \in Seq(Task) /\ Len(events') <= N
    BY <1>3 DEF Handover
  <2>3. stranded' \in [Task -> SUBSET Task]
    <3>1. Range(events) \subseteq Task
      BY DEF Range
    <3>2. QED
      BY <1>3, <3>1 DEF Handover
  <2>4. wakes' \in [Task -> SUBSET Task] /\ room' \in [Task -> Nat]
    BY <1>3 DEF Handover, Waiting
  <2>5. /\ draining' \in BOOLEAN
        /\ pc' \in [Task -> Labels]
        /\ UNCHANGED <<lock, dead, completion, awake, ticketVars, job, seen, reply, first,
                       outcome>>
        /\ DrainKeeps
    BY <1>3 DEF Handover, Labels
  <2>6. QED
    BY SMTT(60), <2>1, <2>2, <2>3, <2>4, <2>5
<1>4. CASE ResolveStranded(t)
  <2>1. /\ ticket' \in [Task -> Tickets]
        /\ ticketWaker' \in [Task -> BOOLEAN]
        /\ awake' \in [Task -> BOOLEAN]
    BY <1>4, ResolveTyped DEF ResolveStranded
  <2>2. stranded' \in [Task -> SUBSET Task]
    BY <1>4 DEF ResolveStranded
  <2>3. QED
    BY SMTT(60), <1>4, <2>1, <2>2 DEF ResolveStranded
<1>5. CASE Unwind(t)
  <2>1. /\ completion' \in [Task -> Completions]
        /\ pc' \in [Task -> Labels]
        /\ first' \in [Task -> BOOLEAN]
        /\ seen' \in [Task -> BOOLEAN]
    <3>1. CASE DrainAnswer(t)
      BY <3>1, AnswerTyped
    <3>2. CASE Goto(t, "panicked") /\ UNCHANGED <<completion, first, seen>>
      BY <3>2 DEF Labels
    <3>3. QED
      BY <1>5, <3>1, <3>2 DEF Unwind
  <2>2. UNCHANGED <<queueVars, lock, dead, awake, ticketVars, job, reply, wakes,
                    stranded, outcome>>
        /\ DrainKeeps
    BY <1>5 DEF Unwind
  <2>3. QED
    BY SMTT(60), <2>1, <2>2
<1>6. QED
  BY <1>1, <1>2, <1>3, <1>4, <1>5 DEF unwinding

\* Polling, dropping a completion and inspecting keep the types.
LEMMA PollTyped ==
    ASSUME TypeOK, NEW t \in Task,
           Poll(t) \/ forget(t) \/ PollAnswered(t) \/ DropCompletion(t)
    PROVE  TypeOK'
<1> USE FifoAssumption DEF TypeOK, CompletionKeeps, Goto, queueVars, machineVars, ticketVars,
        drainVars, orderVars
<1>1. CASE PollRoom(t)
  BY SMTT(60), <1>1 DEF PollRoom, update, Labels, Completions
<1>2. CASE PollSettled(t)
  <2>1. awake' \in [Task -> BOOLEAN]
    BY <1>2 DEF PollSettled
  <2>2. QED
    BY SMTT(60), <1>2, <2>1, PollEndTyped DEF PollSettled
<1>3. CASE forget(t)
  BY SMTT(60), <1>3 DEF forget, Labels
<1>4. CASE PollAnswered(t)
  BY SMTT(60), <1>4, PollEndTyped DEF PollAnswered
<1>5. CASE DropCompletion(t)
  BY SMTT(60), <1>5 DEF DropCompletion, Labels
<1>6. QED
  BY <1>1, <1>2, <1>3, <1>4, <1>5 DEF Poll

\* A state query touches only the machine's mutex.
LEMMA InspectTyped ==
    ASSUME TypeOK, NEW r \in Reader, inspect(r)
    PROVE  TypeOK'
BY DEF inspect, TypeOK, queueVars, ticketVars, drainVars, orderVars

\* A fresh cell, started or not, is type correct.
LEMMA InitTyped == Init => TypeOK
<1> SUFFICES ASSUME Init PROVE TypeOK
  OBVIOUS
<1>1. terminated \in BOOLEAN
  BY Zenon DEF Init
<1>2. /\ pc \in [Task -> Labels] /\ completion \in [Task -> Completions]
      /\ ticket \in [Task -> Tickets] /\ outcome \in [Task -> Outcomes]
  BY DEF Init, Labels, Completions, Tickets, Outcomes
<1>3. events \in Seq(Task) /\ Len(events) <= N
  BY FifoAssumption DEF Init
<1>4. draining \in BOOLEAN /\ dead \in BOOLEAN /\ lock \in Task \union Reader \union {Nobody}
  BY DEF Init
<1>5. QED
  BY <1>1, <1>2, <1>3, <1>4 DEF Init, TypeOK

\* Every step of a caller, a drainer, an executor or a query keeps the types.
LEMMA TypeInductive ==
    ASSUME TypeOK, [Next]_vars
    PROVE  TypeOK'
<1>1. CASE UNCHANGED vars
  BY <1>1 DEF vars, TypeOK, queueVars, machineVars, ticketVars, drainVars, orderVars
<1>2. CASE Next
  BY <1>2, OfferTyped, DrainTyped, UnwindTyped, PollTyped, InspectTyped DEF Next, Step
<1>3. QED
  BY <1>1, <1>2

\* Every field of the cell, of its tickets and of its callers keeps its type,
\* and the queue never holds more than N events.
THEOREM CellTyped == Spec => []TypeOK
BY InitTyped, TypeInductive, PTL DEF Spec

-----------------------------------------------------------------------------
(* One consumer.                                                           *)

\* Where a task is while it drains.
DrainLabels == {"turn", "step", "resolve", "next", "unwind", "probe", "handover"}

\* SingleConsumer is inductive together with this: past "turn" a draining task
\* has an event in hand, so it still owns `draining`.
Consumer ==
    /\ SingleConsumer
    /\ \A t \in Task : pc[t] \in DrainLabels \ {"turn"} => job[t] # Nobody

\* A task that moves on without gaining or losing the ownership.
LEMMA ConsumerKept ==
    ASSUME TypeOK, Consumer, NEW t \in Task, NEW l \in Labels,
           pc' = [pc EXCEPT ![t] = l], UNCHANGED <<draining, job>>,
           (l \in DrainLabels /\ job[t] # Nobody) <=> Owns(t),
           l \in DrainLabels \ {"turn"} => job[t] # Nobody
    PROVE  Consumer'
<1>1. \A u \in Task : Owns(u)' <=> Owns(u)
  BY DEF Owns, DrainLabels, TypeOK
<1>2. SingleConsumer'
  BY <1>1 DEF Consumer, SingleConsumer
<1>3. \A u \in Task : pc'[u] \in DrainLabels \ {"turn"} => job'[u] # Nobody
  BY DEF Consumer, TypeOK
<1>4. QED
  BY <1>2, <1>3 DEF Consumer

\* Nobody owns an idle cell, so the task that starts a drain is alone.
LEMMA ConsumerStarts ==
    ASSUME TypeOK, Consumer, NEW t \in Task, NEW u \in Task,
           ~draining, StartDrain(t, u)
    PROVE  Consumer'
<1>1. \A v \in Task : Owns(v)' <=> v = t
  BY FifoAssumption DEF Consumer, SingleConsumer, StartDrain, Goto, Owns, TypeOK
<1>2. SingleConsumer'
  BY <1>1 DEF SingleConsumer, StartDrain
<1>3. \A v \in Task : pc'[v] \in DrainLabels \ {"turn"} => job'[v] # Nobody
  BY DEF Consumer, StartDrain, Goto, DrainLabels, TypeOK
<1>4. QED
  BY <1>2, <1>3 DEF Consumer

\* The owner gives `draining` back and owns nothing afterwards.
LEMMA ConsumerStops ==
    ASSUME TypeOK, Consumer, NEW t \in Task, NEW l \in Labels, Owns(t),
           draining' = FALSE, pc' = [pc EXCEPT ![t] = l],
           \A u \in Task \ {t} : job'[u] = job[u],
           l \in DrainLabels => l = "turn" /\ job'[t] = Nobody
    PROVE  Consumer'
<1>1. \A u \in Task : ~Owns(u)'
  BY DEF Consumer, SingleConsumer, Owns, DrainLabels, TypeOK
<1>2. SingleConsumer'
  BY <1>1 DEF SingleConsumer
<1>3. \A u \in Task : pc'[u] \in DrainLabels \ {"turn"} => job'[u] # Nobody
  BY DEF Consumer, TypeOK
<1>4. QED
  BY <1>2, <1>3 DEF Consumer

\* offer makes a drainer only of a task that finds nobody draining.
LEMMA OfferConsumer ==
    ASSUME TypeOK, Consumer, NEW t \in Task, offer(t)
    PROVE  Consumer'
<1> USE DEF Goto, Offering
<1>1. CASE OfferClosed(t) \/ OfferQueued(t)
  <2>1. PICK l \in {"forget", "await"} : pc' = [pc EXCEPT ![t] = l]
    BY <1>1 DEF OfferClosed, OfferQueued, Answer
  <2>2. UNCHANGED <<draining, job>> /\ ~Owns(t)
    BY <1>1 DEF OfferClosed, OfferQueued, queueVars, Owns
  <2>3. QED
    BY <2>1, <2>2, ConsumerKept DEF Labels, DrainLabels
<1>2. CASE OfferFull(t)
  <2>1. PICK l \in {"rejected", "await"} : pc' = [pc EXCEPT ![t] = l]
    BY <1>2 DEF OfferFull
  <2>2. UNCHANGED <<draining, job>> /\ ~Owns(t)
    BY <1>2 DEF OfferFull, Owns
  <2>3. QED
    BY <2>1, <2>2, ConsumerKept DEF Labels, DrainLabels
<1>3. CASE OfferBehind(t)
  BY <1>3, ConsumerStarts, PopTyped DEF OfferBehind
<1>4. CASE OfferIdle(t)
  BY <1>4, ConsumerStarts DEF OfferIdle
<1>5. QED
  BY <1>1, <1>2, <1>3, <1>4 DEF offer

\* The drain loop gives `draining` back only when it ends.
LEMMA DrainConsumer ==
    ASSUME Unwound = {}, TypeOK, Consumer, NEW t \in Task, drain(t) \/ StepPanic(t)
    PROVE  Consumer'
<1> USE DEF Goto, queueVars, drainVars
<1>1. CASE Skip(t) \/ StepBegin(t)
  <2>1. PICK l \in {"next", "step"} : pc' = [pc EXCEPT ![t] = l]
    BY <1>1 DEF Skip, StepBegin
  <2>2. UNCHANGED <<draining, job>> /\ Owns(t) /\ job[t] # Nobody
    BY <1>1 DEF Skip, StepBegin, HasTurn, Owns
  <2>3. QED
    BY <2>1, <2>2, ConsumerKept DEF Labels, DrainLabels
<1>2. CASE StepReturn(t) \/ StepPanic(t) \/ Resolve(t)
  <2>1. PICK l \in {"resolve", "unwind", "next"} : pc' = [pc EXCEPT ![t] = l]
    BY <1>2 DEF StepReturn, StepPanic, Resolve
  <2>2. pc[t] \in {"step", "resolve"} /\ UNCHANGED <<draining, job>>
    BY <1>2 DEF StepReturn, StepPanic, Resolve
  <2>3. job[t] # Nobody /\ Owns(t)
    BY <2>2 DEF Consumer, DrainLabels, Owns
  <2>4. QED
    BY <2>1, <2>2, <2>3, ConsumerKept DEF Labels, DrainLabels
<1>3. CASE NextEvent(t)
  <2>1. pc[t] = "next" /\ pc' = [pc EXCEPT ![t] = "turn"] /\ "turn" \in Labels
    BY <1>3 DEF NextEvent, Labels
  <2>2. Owns(t)
    BY <2>1 DEF Consumer, DrainLabels, Owns
  <2>3. CASE events = << >>
    <3>1. draining' = FALSE /\ job' = [job EXCEPT ![t] = Nobody]
      BY <1>3, <2>3 DEF NextEvent
    <3>2. QED
      BY <2>1, <2>2, <3>1, ConsumerStops DEF TypeOK
  <2>4. CASE events # << >>
    <3>1. draining' = draining /\ job' = [job EXCEPT ![t] = Head(events)] /\ Head(events) \in Task
      BY <1>3, <2>4, PopTyped DEF NextEvent
    <3>2. \A u \in Task : Owns(u)' <=> Owns(u)
      BY <2>1, <2>2, <3>1, FifoAssumption DEF Owns, TypeOK
    <3>3. SingleConsumer'
      BY <3>1, <3>2 DEF Consumer, SingleConsumer
    <3>4. \A u \in Task : pc'[u] \in DrainLabels \ {"turn"} => job'[u] # Nobody
      BY <2>1, <3>1 DEF Consumer, TypeOK
    <3>5. QED
      BY <3>3, <3>4 DEF Consumer
  <2>5. QED
    BY <2>3, <2>4
<1>4. CASE WakeNext(t)
  <2>1. UNCHANGED <<pc, draining, job>>
    BY <1>4 DEF WakeNext
  <2>2. QED
    BY <2>1 DEF Consumer, SingleConsumer, Owns
<1>5. CASE DrainReturn(t)
  <2>1. DrainAnswer(t) /\ UNCHANGED <<draining, job>> /\ job[t] = Nobody
    BY <1>5 DEF DrainReturn
  <2>2. PICK l \in {"forget", "await"} : pc' = [pc EXCEPT ![t] = l]
    BY <2>1 DEF DrainAnswer, Answer
  <2>3. QED
    BY <2>1, <2>2, ConsumerKept DEF Labels, DrainLabels, Owns
<1>6. QED
  BY <1>1, <1>2, <1>3, <1>4, <1>5 DEF drain

\* A panicking drainer keeps `draining` until the Unwinding guard's Drop.
LEMMA UnwindConsumer ==
    ASSUME Unwound = {}, TypeOK, Consumer, NEW t \in Task, unwinding(t)
    PROVE  Consumer'
<1> USE DEF Goto, queueVars, drainVars
<1>1. CASE PendingDrop(t) \/ Probe(t)
  <2>1. PICK l \in {"probe", "handover"} : pc' = [pc EXCEPT ![t] = l]
    BY <1>1 DEF PendingDrop, Probe
  <2>2. pc[t] \in {"unwind", "probe"} /\ UNCHANGED <<draining, job>>
    BY <1>1 DEF PendingDrop, Probe
  <2>3. job[t] # Nobody /\ Owns(t)
    BY <2>2 DEF Consumer, DrainLabels, Owns
  <2>4. QED
    BY <2>1, <2>2, <2>3, ConsumerKept DEF Labels, DrainLabels
<1>2. CASE Handover(t)
  <2>1. /\ pc[t] = "handover" /\ pc' = [pc EXCEPT ![t] = "strand"] /\ draining' = FALSE
        /\ UNCHANGED job /\ "strand" \in Labels
    BY <1>2 DEF Handover, Labels
  <2>2. Owns(t)
    BY <2>1 DEF Consumer, DrainLabels, Owns
  <2>3. QED
    BY <2>1, <2>2, ConsumerStops DEF DrainLabels
<1>3. CASE ResolveStranded(t)
  <2>1. UNCHANGED <<pc, draining, job>>
    BY <1>3 DEF ResolveStranded
  <2>2. QED
    BY <2>1 DEF Consumer, SingleConsumer, Owns
<1>4. CASE Unwind(t)
  <2>1. pc[t] = "strand" /\ UNCHANGED <<draining, job>>
    BY <1>4 DEF Unwind
  <2>2. PICK l \in {"forget", "await", "panicked"} : pc' = [pc EXCEPT ![t] = l]
    BY <1>4 DEF Unwind, DrainAnswer, Answer
  <2>3. QED
    BY <2>1, <2>2, ConsumerKept DEF Labels, DrainLabels, Owns
<1>5. QED
  BY <1>1, <1>2, <1>3, <1>4 DEF unwinding

\* Polls and drops of completions are not about draining.
LEMMA PollConsumer ==
    ASSUME TypeOK, Consumer, NEW t \in Task,
           Poll(t) \/ forget(t) \/ PollAnswered(t) \/ DropCompletion(t)
    PROVE  Consumer'
<1>1. PICK l \in {"offer", "ready", "await", "polled", "dropped"} : pc' = [pc EXCEPT ![t] = l]
  BY DEF Poll, PollRoom, PollSettled, PollEnd, forget, PollAnswered, DropCompletion, Goto
<1>2. pc[t] \in {"await", "forget", "polled"} /\ UNCHANGED <<draining, job>>
  BY DEF Poll, PollRoom, PollSettled, forget, PollAnswered, DropCompletion,
         CompletionKeeps, drainVars
<1>3. QED
  BY <1>1, <1>2, ConsumerKept DEF Labels, DrainLabels, Owns

\* Every step leaves at most one drainer.
LEMMA ConsumerInductive ==
    ASSUME Unwound = {}, TypeOK, Consumer, [Next]_vars
    PROVE  Consumer'
<1>1. CASE UNCHANGED vars
  BY <1>1 DEF vars, queueVars, drainVars, Consumer, SingleConsumer, Owns
<1>2. CASE \E t \in Task : Step(t) \/ StepPanic(t) \/ Poll(t) \/ DropCompletion(t)
  BY <1>2, OfferConsumer, DrainConsumer, UnwindConsumer, PollConsumer DEF Step
<1>3. CASE \E r \in Reader : inspect(r)
  BY <1>3 DEF inspect, queueVars, drainVars, Consumer, SingleConsumer, Owns
<1>4. QED
  BY <1>1, <1>2, <1>3 DEF Next

\* The strengthened invariant holds in every reachable state.
LEMMA AlwaysConsumer ==
    ASSUME Unwound = {}
    PROVE  Spec => []Consumer
<1>1. Init => Consumer
  BY DEF Init, Consumer, SingleConsumer, Owns, DrainLabels
<1>2. TypeOK /\ Consumer /\ [Next]_vars => Consumer'
  BY ConsumerInductive
<1>3. QED
  BY <1>1, <1>2, CellTyped, PTL DEF Spec

\* StrictOrdering::SINGLE_CONSUMER for any number of tasks: at most one task
\* drains, and `draining` is set exactly while one does, through panics,
\* dropped completions and full queues, unless a task submits from a
\* destructor of an unwinding thread.
THEOREM OneConsumer ==
    ASSUME Unwound = {}
    PROVE  Spec => []SingleConsumer
<1>1. Consumer => SingleConsumer
  BY DEF Consumer
<1>2. QED
  BY <1>1, AlwaysConsumer, PTL

-----------------------------------------------------------------------------
(* Tickets, room and wakeups.                                              *)

\* What resolving a ticket does to the tickets.
LEMMA Resolved ==
    ASSUME TypeOK, NEW u, NEW b \in BOOLEAN, ResolveTicket(u, b)
    PROVE  \A t \in Task : ticket'[t] = "open" => ticket[t] = "open" /\ t # u
<1>1. ticket \in [Task -> Tickets]
  BY DEF TypeOK
<1>2. ticket' = [ticket EXCEPT ![u] = IF b THEN "true" ELSE "false"]
  BY DEF ResolveTicket
<1>3. QED
  BY <1>1, <1>2

-----------------------------------------------------------------------------
(* Open tickets.                                                           *)

\* Where a task is while it answers for the event it has in hand.
Holding == {"turn", "step", "resolve", "unwind"}

\* A step of task s that lets go of no open ticket keeps TicketsHeld.
LEMMA HeldKept ==
    ASSUME TypeOK, TicketsHeld, NEW s \in Task, NEW l,
           pc' = [pc EXCEPT ![s] = l], UNCHANGED <<job, stranded>>,
           Range(events) \subseteq Range(events'),
           \A t \in Task : ticket'[t] = "open" => ticket[t] = "open" \/ t \in Range(events'),
           pc[s] = "strand" => l = "strand" \/ stranded[s] = {},
           pc[s] \in Holding => l \in Holding \/ job[s] \notin Task \/ ticket'[job[s]] # "open"
    PROVE  TicketsHeld'
<1>1. pc \in [Task -> Labels]
  BY DEF TypeOK
<1> SUFFICES ASSUME NEW t \in Task, ticket'[t] = "open", t \notin Range(events')
             PROVE  \E u \in Task :
                      \/ t \in stranded'[u] /\ pc'[u] = "strand"
                      \/ job'[u] = t /\ pc'[u] \in Holding
  BY DEF TicketsHeld, Holding
<1>2. PICK u \in Task : \/ t \in stranded[u] /\ pc[u] = "strand"
                        \/ job[u] = t /\ pc[u] \in Holding
  BY DEF TicketsHeld, Holding
<1>3. CASE u # s
  BY <1>1, <1>2, <1>3
<1>4. CASE u = s
  BY <1>1, <1>2, <1>4
<1>5. QED
  BY <1>3, <1>4

\* offer issues a ticket only together with a place in the queue.
LEMMA OfferHeld ==
    ASSUME TypeOK, TicketsHeld, NEW s \in Task, offer(s)
    PROVE  TicketsHeld'
<1> USE DEF Offering, Goto, Holding
<1>t. events \in Seq(Task) /\ ticket \in [Task -> Tickets] /\ pc \in [Task -> Labels]
      /\ job \in [Task -> Task \union {Nobody}]
  BY DEF TypeOK
<1>1. CASE OfferClosed(s)
  <2>1. PICK l \in {"forget", "await"} : pc' = [pc EXCEPT ![s] = l]
    BY <1>1 DEF OfferClosed, Answer
  <2>2. UNCHANGED <<events, ticket, job, stranded>> /\ pc[s] \in {"start", "offer"}
    BY <1>1 DEF OfferClosed, OfferKeeps, queueVars
  <2>3. QED
    BY <2>1, <2>2, HeldKept
<1>2. CASE OfferFull(s)
  <2>1. PICK l \in {"rejected", "await"} : pc' = [pc EXCEPT ![s] = l]
    BY <1>2 DEF OfferFull
  <2>2. UNCHANGED <<events, ticket, job, stranded>> /\ pc[s] \in {"start", "offer"}
    BY <1>2 DEF OfferFull, OfferKeeps
  <2>3. QED
    BY <2>1, <2>2, HeldKept
<1>3. CASE OfferQueued(s)
  <2>1. PICK l \in {"forget", "await"} : pc' = [pc EXCEPT ![s] = l]
    BY <1>3 DEF OfferQueued, Answer
  <2>2. /\ UNCHANGED <<job, stranded>> /\ pc[s] \in {"start", "offer"}
        /\ events' = Append(events, s) /\ ticket' = [ticket EXCEPT ![s] = "open"]
    BY <1>3 DEF OfferQueued, OfferKeeps
  <2>3. Range(events') = Range(events) \union {s}
    BY <1>t, <2>2, RangeAppend
  <2>4. \A t \in Task : ticket'[t] = "open" => ticket[t] = "open" \/ t \in Range(events')
    BY <1>t, <2>2, <2>3
  <2>5. QED
    BY <2>1, <2>2, <2>3, <2>4, HeldKept
<1>4. CASE OfferBehind(s)
  <2>1. /\ pc' = [pc EXCEPT ![s] = "turn"] /\ pc[s] \in {"start", "offer"}
        /\ job' = [job EXCEPT ![s] = Head(events)] /\ UNCHANGED stranded
        /\ events' = Append(Tail(events), s) /\ ticket' = [ticket EXCEPT ![s] = "open"]
        /\ events # << >>
    BY <1>4 DEF OfferBehind, StartDrain, OfferKeeps, Popped
  <2>2. Head(events) \in Task /\ Tail(events) \in Seq(Task)
    BY <2>1, PopTyped DEF Popped
  <2>3. /\ Range(events) = {Head(events)} \union Range(Tail(events))
        /\ Range(events') = Range(Tail(events)) \union {s}
    BY <1>t, <2>1, <2>2, RangeAppend, RangePop
  <2> SUFFICES ASSUME NEW t \in Task, ticket'[t] = "open", t \notin Range(events')
               PROVE  \E u \in Task :
                        \/ t \in stranded'[u] /\ pc'[u] = "strand"
                        \/ job'[u] = t /\ pc'[u] \in Holding
    BY DEF TicketsHeld, Holding
  <2>4. ticket[t] = "open" /\ t # s
    BY <1>t, <2>1, <2>3
  <2>5. CASE t = Head(events)
    BY <1>t, <2>1, <2>2, <2>5
  <2>6. CASE t # Head(events)
    <3>1. PICK u \in Task : \/ t \in stranded[u] /\ pc[u] = "strand"
                            \/ job[u] = t /\ pc[u] \in Holding
      BY <2>3, <2>4, <2>6 DEF TicketsHeld
    <3>2. u # s
      BY <2>1, <3>1
    <3>3. QED
      BY <1>t, <2>1, <3>1, <3>2
  <2>7. QED
    BY <2>5, <2>6
<1>5. CASE OfferIdle(s)
  <2>1. /\ pc' = [pc EXCEPT ![s] = "turn"] /\ pc[s] \in {"start", "offer"}
        /\ job' = [job EXCEPT ![s] = s] /\ UNCHANGED <<stranded, events, ticket>>
    BY <1>5 DEF OfferIdle, StartDrain, OfferKeeps
  <2> SUFFICES ASSUME NEW t \in Task, ticket[t] = "open", t \notin Range(events)
               PROVE  \E u \in Task :
                        \/ t \in stranded'[u] /\ pc'[u] = "strand"
                        \/ job'[u] = t /\ pc'[u] \in Holding
    BY <2>1 DEF TicketsHeld, Holding
  <2>2. PICK u \in Task : \/ t \in stranded[u] /\ pc[u] = "strand"
                          \/ job[u] = t /\ pc[u] \in Holding
    BY DEF TicketsHeld
  <2>3. u # s
    BY <2>1, <2>2
  <2>4. QED
    BY <1>t, <2>1, <2>2, <2>3
<1>6. QED
  BY <1>1, <1>2, <1>3, <1>4, <1>5 DEF offer

\* The drainer resolves the event it has in hand before it lets go of it.
LEMMA DrainHeld ==
    ASSUME TypeOK, TicketsHeld, NEW s \in Task, drain(s) \/ StepPanic(s)
    PROVE  TicketsHeld'
<1> USE DEF Goto, Holding
<1>t. events \in Seq(Task) /\ ticket \in [Task -> Tickets] /\ pc \in [Task -> Labels]
      /\ job \in [Task -> Task \union {Nobody}]
  BY DEF TypeOK
<1>1. CASE Skip(s)
  <2>1. /\ pc' = [pc EXCEPT ![s] = "next"] /\ UNCHANGED <<events, job, stranded>>
        /\ pc[s] = "turn" /\ ResolveTicket(job[s], FALSE)
    BY <1>1 DEF Skip, HasTurn, queueVars, drainVars
  <2>2. \A t \in Task : ticket'[t] = "open" => ticket[t] = "open" /\ t # job[s]
    BY <2>1, Resolved
  <2>3. QED
    BY <2>1, <2>2, HeldKept
<1>2. CASE StepBegin(s) \/ StepReturn(s) \/ StepPanic(s)
  <2>1. PICK l \in {"step", "resolve", "unwind"} : pc' = [pc EXCEPT ![s] = l]
    BY <1>2 DEF StepBegin, StepReturn, StepPanic
  <2>2. UNCHANGED <<events, ticket, job, stranded>> /\ pc[s] \in {"turn", "step"}
    BY <1>2 DEF StepBegin, StepReturn, StepPanic, HasTurn, queueVars, ticketVars, drainVars
  <2>3. QED
    BY <2>1, <2>2, HeldKept
<1>3. CASE Resolve(s)
  <2>1. /\ pc' = [pc EXCEPT ![s] = "next"] /\ UNCHANGED <<events, job, stranded>>
        /\ pc[s] = "resolve"
    BY <1>3 DEF Resolve, queueVars
  <2>2. \A t \in Task : ticket'[t] = "open" => ticket[t] = "open" /\ t # job[s]
    <3>1. CASE ticket[job[s]] = "none"
      <4>1. UNCHANGED ticket
        BY <1>3, <3>1 DEF Resolve, ticketVars
      <4>2. QED
        BY <3>1, <4>1
    <3>2. CASE ticket[job[s]] # "none"
      <4>1. ResolveTicket(job[s], reply[s]) /\ reply[s] \in BOOLEAN
        BY <1>3, <3>2 DEF Resolve, TypeOK
      <4>2. QED
        BY <4>1, Resolved
    <3>3. QED
      BY <3>1, <3>2
  <2>3. QED
    BY <2>1, <2>2, HeldKept
<1>4. CASE NextEvent(s)
  <2>1. /\ pc' = [pc EXCEPT ![s] = "turn"] /\ pc[s] = "next" /\ UNCHANGED <<ticket, stranded>>
    BY <1>4 DEF NextEvent, ticketVars
  <2> SUFFICES ASSUME NEW t \in Task, ticket[t] = "open", t \notin Range(events')
               PROVE  \E u \in Task :
                        \/ t \in stranded'[u] /\ pc'[u] = "strand"
                        \/ job'[u] = t /\ pc'[u] \in Holding
    BY <2>1 DEF TicketsHeld, Holding
  <2>2. \A u \in Task \ {s} : job'[u] = job[u]
    BY <1>4, <1>t DEF NextEvent
  <2>3. CASE t \in Range(events)
    <3>1. events # << >>
      BY <2>3 DEF Range
    <3>2. job' = [job EXCEPT ![s] = Head(events)] /\ events' = Tail(events)
      BY <1>4, <3>1 DEF NextEvent, Popped
    <3>3. t = Head(events)
      BY <1>t, <2>3, <3>1, <3>2, RangePop
    <3>4. QED
      BY <1>t, <2>1, <3>2, <3>3
  <2>4. CASE t \notin Range(events)
    <3>1. PICK u \in Task : \/ t \in stranded[u] /\ pc[u] = "strand"
                            \/ job[u] = t /\ pc[u] \in Holding
      BY <2>4 DEF TicketsHeld
    <3>2. u # s
      BY <2>1, <3>1
    <3>3. QED
      BY <1>t, <2>1, <2>2, <3>1, <3>2
  <2>5. QED
    BY <2>3, <2>4
<1>5. CASE WakeNext(s)
  BY <1>5 DEF WakeNext, queueVars, ticketVars, TicketsHeld
<1>6. CASE DrainReturn(s)
  <2>1. PICK l \in {"forget", "await", "probe"} : pc' = [pc EXCEPT ![s] = l]
    BY <1>6 DEF DrainReturn, DrainAnswer, Answer
  <2>2. UNCHANGED <<events, ticket, job, stranded>> /\ pc[s] = "turn" /\ job[s] = Nobody
    BY <1>6 DEF DrainReturn, queueVars, ticketVars
  <2>3. QED
    BY <2>1, <2>2, HeldKept, FifoAssumption
<1>7. QED
  BY <1>1, <1>2, <1>3, <1>4, <1>5, <1>6 DEF drain

\* A panicking drainer resolves its own event and hands over or strands the
\* rest.
LEMMA UnwindHeld ==
    ASSUME TypeOK, TicketsHeld, NEW s \in Task, unwinding(s)
    PROVE  TicketsHeld'
<1> USE DEF Goto, Holding
<1>t. events \in Seq(Task) /\ ticket \in [Task -> Tickets] /\ pc \in [Task -> Labels]
      /\ job \in [Task -> Task \union {Nobody}] /\ stranded \in [Task -> SUBSET Task]
  BY DEF TypeOK
<1>1. CASE PendingDrop(s)
  <2>1. /\ pc' = [pc EXCEPT ![s] = "probe"] /\ UNCHANGED <<events, job, stranded>>
        /\ pc[s] = "unwind"
    BY <1>1 DEF PendingDrop, queueVars, drainVars
  <2>2. \A t \in Task : ticket'[t] = "open" => ticket[t] = "open" /\ t # job[s]
    <3>1. CASE ticket[job[s]] = "none"
      <4>1. UNCHANGED ticket
        BY <1>1, <3>1 DEF PendingDrop, ticketVars
      <4>2. QED
        BY <3>1, <4>1
    <3>2. CASE ticket[job[s]] # "none"
      BY <1>1, <3>2, Resolved DEF PendingDrop
    <3>3. QED
      BY <3>1, <3>2
  <2>3. QED
    BY <2>1, <2>2, HeldKept
<1>2. CASE Probe(s)
  <2>1. /\ pc' = [pc EXCEPT ![s] = "handover"] /\ pc[s] = "probe"
        /\ UNCHANGED <<events, ticket, job, stranded>>
    BY <1>2 DEF Probe, queueVars, ticketVars
  <2>2. QED
    BY <2>1, HeldKept
<1>3. CASE Handover(s)
  <2>1. /\ pc' = [pc EXCEPT ![s] = "strand"] /\ pc[s] = "handover" /\ UNCHANGED <<ticket, job>>
        /\ \/ UNCHANGED events
           \/ stranded' = [stranded EXCEPT ![s] = Range(events)]
        /\ \A u \in Task \ {s} : stranded'[u] = stranded[u]
    BY <1>3, <1>t DEF Handover, ticketVars
  <2> SUFFICES ASSUME NEW t \in Task, ticket[t] = "open", t \notin Range(events')
               PROVE  \E u \in Task :
                        \/ t \in stranded'[u] /\ pc'[u] = "strand"
                        \/ job'[u] = t /\ pc'[u] \in Holding
    BY <2>1 DEF TicketsHeld, Holding
  <2>2. CASE t \in Range(events)
    BY <1>t, <2>1, <2>2
  <2>3. CASE t \notin Range(events)
    <3>1. PICK u \in Task : \/ t \in stranded[u] /\ pc[u] = "strand"
                            \/ job[u] = t /\ pc[u] \in Holding
      BY <2>3 DEF TicketsHeld
    <3>2. u # s
      BY <2>1, <3>1
    <3>3. QED
      BY <1>t, <2>1, <3>1, <3>2
  <2>4. QED
    BY <2>2, <2>3
<1>4. CASE ResolveStranded(s)
  <2>1. PICK v \in stranded[s] : /\ ResolveTicket(v, FALSE)
                                 /\ stranded' = [stranded EXCEPT ![s] = @ \ {v}]
    BY <1>4 DEF ResolveStranded
  <2>2. UNCHANGED <<events, pc, job>>
    BY <1>4 DEF ResolveStranded, queueVars
  <2>3. \A t \in Task : ticket'[t] = "open" => ticket[t] = "open" /\ t # v
    BY <2>1, Resolved
  <2>4. \A t \in Task, u \in Task : t # v /\ t \in stranded[u] => t \in stranded'[u]
    BY <1>t, <2>1
  <2>5. QED
    BY <2>2, <2>3, <2>4 DEF TicketsHeld
<1>5. CASE Unwind(s)
  <2>1. PICK l \in {"forget", "await", "panicked"} : pc' = [pc EXCEPT ![s] = l]
    BY <1>5 DEF Unwind, DrainAnswer, Answer
  <2>2. /\ UNCHANGED <<events, ticket, job, stranded>> /\ pc[s] = "strand" /\ stranded[s] = {}
    BY <1>5 DEF Unwind, queueVars, ticketVars
  <2>3. QED
    BY <2>1, <2>2, HeldKept
<1>6. QED
  BY <1>1, <1>2, <1>3, <1>4, <1>5 DEF unwinding

\* Polls and drops of completions leave tickets as they are.
LEMMA PollHeld ==
    ASSUME TypeOK, TicketsHeld, NEW s \in Task,
           Poll(s) \/ forget(s) \/ PollAnswered(s) \/ DropCompletion(s)
    PROVE  TicketsHeld'
<1>1. UNCHANGED <<events, ticket, job, stranded>>
  BY DEF Poll, PollRoom, PollSettled, forget, PollAnswered, DropCompletion,
         CompletionKeeps, drainVars, ticketVars
<1>2. PICK l \in {"offer", "ready", "await", "polled", "dropped"} : pc' = [pc EXCEPT ![s] = l]
  BY DEF Poll, PollRoom, PollSettled, PollEnd, forget, PollAnswered, DropCompletion, Goto
<1>3. pc[s] \in {"await", "forget", "polled"}
  BY DEF Poll, PollRoom, PollSettled, forget, PollAnswered, DropCompletion
<1>4. QED
  BY <1>1, <1>2, <1>3, HeldKept DEF Holding

\* The comment on Pending, "so a panicking step never leaves a caller waiting":
\* at every moment somebody answers for every open ticket.
THEOREM EveryTicketHeld == Spec => []TicketsHeld
<1>1. Init => TicketsHeld
  BY DEF Init, TicketsHeld
<1>2. TypeOK /\ TicketsHeld /\ [Next]_vars => TicketsHeld'
  <2> SUFFICES ASSUME TypeOK, TicketsHeld, [Next]_vars PROVE TicketsHeld'
    OBVIOUS
  <2>1. CASE UNCHANGED vars
    BY <2>1 DEF vars, queueVars, ticketVars, drainVars, TicketsHeld
  <2>2. CASE \E t \in Task : Step(t) \/ StepPanic(t) \/ Poll(t) \/ DropCompletion(t)
    BY <2>2, OfferHeld, DrainHeld, UnwindHeld, PollHeld DEF Step
  <2>3. CASE \E r \in Reader : inspect(r)
    BY <2>3 DEF inspect, queueVars, ticketVars, drainVars, TicketsHeld
  <2>4. QED
    BY <2>1, <2>2, <2>3 DEF Next
<1>3. QED
  BY <1>1, <1>2, CellTyped, PTL DEF Spec

-----------------------------------------------------------------------------
(* Registrations.                                                          *)

\* Only a waiting or re-offering completion is registered.
LEMMA NotRegistered ==
    ASSUME TypeOK, RoomIsExact, NEW s \in Task,
           \/ ~draining
           \/ pc[s] \notin {"await", "offer", "forget"}
           \/ op[s] # "poll" /\ pc[s] \in {"offer", "forget"}
           \/ pc[s] = "await" /\ completion[s] # "room"
    PROVE  room[s] = 0 /\ room[s] <= 1 /\ room[s] # 1
<1>1. room[s] \in Nat /\ room[s] <= 1 /\ room[s] # 1
  BY DEF TypeOK, RoomIsExact
<1>2. QED
  BY <1>1

\* A step of task s that leaves the other registrations alone.
LEMMA RoomKept ==
    ASSUME TypeOK, RoomIsExact, NEW s \in Task, NEW l, pc' = [pc EXCEPT ![s] = l],
           \A u \in Task \ {s} : /\ room'[u] = room[u]
                                 /\ op'[u] = op[u] /\ completion'[u] = completion[u],
           draining => draining',
           room'[s] <= 1,
           room'[s] = 1 => /\ draining'
                           /\ \/ l = "await" /\ completion'[s] = "room"
                              \/ l \in {"offer", "forget"} /\ op'[s] = "poll"
    PROVE  RoomIsExact'
<1>1. pc \in [Task -> Labels]
  BY DEF TypeOK
<1> SUFFICES ASSUME NEW u \in Task
             PROVE  /\ room'[u] <= 1
                    /\ room'[u] = 1 => /\ draining'
                                       /\ \/ pc'[u] = "await" /\ completion'[u] = "room"
                                          \/ pc'[u] \in {"offer", "forget"} /\ op'[u] = "poll"
  BY DEF RoomIsExact
<1>2. CASE u = s
  BY <1>1, <1>2
<1>3. CASE u # s
  BY <1>1, <1>3 DEF RoomIsExact
<1>4. QED
  BY <1>2, <1>3

\* A step that takes every registration.
LEMMA RoomCleared ==
    ASSUME room' = [w \in Task |-> 0]
    PROVE  RoomIsExact'
<1>1. \A w \in Task : room'[w] = 0
  OBVIOUS
<1>2. 0 <= 1 /\ 0 # 1
  OBVIOUS
<1>3. QED
  BY <1>1, <1>2 DEF RoomIsExact

\* offer registers a waiter only while somebody drains, and only once.
LEMMA OfferRoom ==
    ASSUME TypeOK, RoomIsExact, NEW s \in Task, offer(s)
    PROVE  RoomIsExact'
<1> USE DEF Offering, Goto
<1>t. /\ room \in [Task -> Nat] /\ completion \in [Task -> Completions]
      /\ op \in [Task -> {"submit", "try", "poll"}]
  BY DEF TypeOK
<1>o. UNCHANGED op /\ pc[s] \in {"start", "offer"}
  BY DEF offer, OfferClosed, OfferFull, OfferQueued, OfferBehind, OfferIdle, OfferKeeps
<1>1. CASE OfferClosed(s) \/ OfferQueued(s)
  <2>1. UNCHANGED <<draining, room>>
    BY <1>1 DEF OfferClosed, OfferQueued, queueVars
  <2>2. PICK c : Answer(s, c)
    BY <1>1 DEF OfferClosed, OfferQueued
  <2>3. room[s] <= 1 /\ (room[s] = 1 => draining /\ op[s] = "poll")
    BY <1>o DEF RoomIsExact
  <2>4. pc' = [pc EXCEPT ![s] = IF op[s] = "poll" THEN "forget" ELSE "await"]
        /\ completion' = [completion EXCEPT ![s] = c]
    BY <2>2 DEF Answer
  <2>5. QED
    BY <1>t, <1>o, <2>1, <2>3, <2>4, RoomKept
<1>2. CASE OfferFull(s)
  <2>1. /\ UNCHANGED draining /\ draining /\ room' = Registered(s)
        /\ \/ op[s] = "try" /\ pc' = [pc EXCEPT ![s] = "rejected"] /\ UNCHANGED completion
           \/ /\ op[s] # "try" /\ pc' = [pc EXCEPT ![s] = "await"]
              /\ completion' = [completion EXCEPT ![s] = "room"]
    BY <1>2 DEF OfferFull
  <2>2. room[s] <= 1 /\ (room[s] = 1 => op[s] = "poll")
    BY <1>o DEF RoomIsExact
  <2>3. room'[s] <= 1 /\ (room'[s] = 1 => op[s] = "poll")
        /\ \A u \in Task \ {s} : room'[u] = room[u]
    BY <1>t, <2>1, <2>2 DEF Registered
  <2>4. QED
    BY <1>t, <1>o, <2>1, <2>3, RoomKept
<1>3. CASE OfferBehind(s) \/ OfferIdle(s)
  <2>1. /\ ~draining /\ UNCHANGED <<room, completion>>
        /\ pc' = [pc EXCEPT ![s] = "turn"]
    BY <1>3 DEF OfferBehind, OfferIdle, StartDrain
  <2>2. room[s] <= 1 /\ room[s] # 1
    BY <2>1, NotRegistered
  <2>3. QED
    BY <1>o, <2>1, <2>2, RoomKept
<1>4. QED
  BY <1>1, <1>2, <1>3 DEF offer

\* A drainer that pops or stops takes every registration.
LEMMA DrainRoom ==
    ASSUME TypeOK, RoomIsExact, NEW s \in Task, drain(s) \/ StepPanic(s) \/ unwinding(s)
    PROVE  RoomIsExact'
<1> USE DEF Goto, queueVars
<1>t. completion \in [Task -> Completions]
  BY DEF TypeOK
<1>1. CASE NextEvent(s) \/ Handover(s)
  BY <1>1, RoomCleared DEF NextEvent, Handover
<1>2. CASE \/ Skip(s) \/ StepBegin(s) \/ StepReturn(s) \/ StepPanic(s) \/ Resolve(s)
           \/ PendingDrop(s) \/ Probe(s)
  <2>1. PICK l \in {"next", "step", "resolve", "unwind", "probe", "handover"} :
          pc' = [pc EXCEPT ![s] = l]
    BY <1>2 DEF Skip, StepBegin, StepReturn, StepPanic, Resolve, PendingDrop, Probe
  <2>2. UNCHANGED <<draining, room, op, completion>>
        /\ pc[s] \in {"turn", "step", "resolve", "unwind", "probe"}
    BY <1>2 DEF Skip, StepBegin, StepReturn, StepPanic, Resolve, PendingDrop, Probe,
                HasTurn, DrainKeeps
  <2>3. room[s] <= 1 /\ room[s] # 1
    BY <2>2, NotRegistered
  <2>4. QED
    BY <2>1, <2>2, <2>3, RoomKept
<1>3. CASE DrainReturn(s) \/ Unwind(s)
  <2>1. UNCHANGED <<draining, room, op>> /\ pc[s] \in {"turn", "strand"}
    BY <1>3 DEF DrainReturn, Unwind, DrainKeeps
  <2>2. PICK l \in {"forget", "await", "probe", "panicked"} : pc' = [pc EXCEPT ![s] = l]
    BY <1>3 DEF DrainReturn, Unwind, DrainAnswer, Answer
  <2>3. \A u \in Task \ {s} : completion'[u] = completion[u]
    BY <1>3, <1>t DEF DrainReturn, Unwind, DrainAnswer, Answer
  <2>4. room[s] <= 1 /\ room[s] # 1
    BY <2>1, NotRegistered
  <2>5. QED
    BY <2>1, <2>2, <2>3, <2>4, RoomKept
<1>4. CASE WakeNext(s) \/ ResolveStranded(s)
  <2>1. UNCHANGED <<draining, room, op, completion, pc>>
    BY <1>4 DEF WakeNext, ResolveStranded, DrainKeeps
  <2>2. QED
    BY <2>1 DEF RoomIsExact
<1>5. QED
  BY <1>1, <1>2, <1>3, <1>4 DEF drain, unwinding

\* A poll, an answer and a drop withdraw the completion's registration.
LEMMA PollRoomExact ==
    ASSUME TypeOK, RoomIsExact, NEW s \in Task,
           Poll(s) \/ forget(s) \/ PollAnswered(s) \/ DropCompletion(s)
    PROVE  RoomIsExact'
<1> USE DEF Goto, CompletionKeeps
<1>t. /\ room \in [Task -> Nat] /\ completion \in [Task -> Completions]
      /\ op \in [Task -> {"submit", "try", "poll"}]
  BY DEF TypeOK
<1>1. CASE PollRoom(s)
  <2>1. /\ pc[s] = "await" /\ completion' = [completion EXCEPT ![s] = "false"]
        /\ op' = [op EXCEPT ![s] = "poll"] /\ pc' = [pc EXCEPT ![s] = "offer"]
        /\ UNCHANGED <<room, draining>>
    BY <1>1 DEF PollRoom
  <2>2. room[s] <= 1 /\ (room[s] = 1 => draining)
    BY DEF RoomIsExact
  <2>3. QED
    BY <1>t, <2>1, <2>2, RoomKept
<1>2. CASE PollSettled(s) \/ PollAnswered(s)
  <2>1. /\ UNCHANGED <<draining, room, op>>
        /\ pc[s] = "polled" \/ (pc[s] = "await" /\ completion[s] # "room")
        /\ \A u \in Task \ {s} : completion'[u] = completion[u]
    BY <1>2, <1>t DEF PollSettled, PollAnswered, PollEnd
  <2>2. PICK l \in {"ready", "await"} : pc' = [pc EXCEPT ![s] = l]
    BY <1>2 DEF PollSettled, PollAnswered, PollEnd
  <2>3. room[s] <= 1 /\ room[s] # 1
    BY <2>1, NotRegistered
  <2>4. QED
    BY <2>1, <2>2, <2>3, RoomKept
<1>3. CASE forget(s)
  <2>1. /\ room' = [room EXCEPT ![s] = 0] /\ pc' = [pc EXCEPT ![s] = "polled"]
        /\ UNCHANGED <<draining, op, completion>>
    BY <1>3 DEF forget
  <2>2. room'[s] <= 1 /\ room'[s] # 1
    BY <1>t, <2>1
  <2>3. QED
    BY <1>t, <2>1, <2>2, RoomKept
<1>4. CASE DropCompletion(s)
  <2>1. /\ pc' = [pc EXCEPT ![s] = "dropped"] /\ UNCHANGED <<draining, op, completion>>
        /\ \A u \in Task \ {s} : room'[u] = room[u]
    BY <1>4, <1>t DEF DropCompletion
  <2>2. room'[s] <= 1 /\ room'[s] # 1
    <3>1. CASE completion[s] = "room"
      BY <1>4, <1>t, <3>1 DEF DropCompletion
    <3>2. CASE completion[s] # "room"
      BY <1>4, <3>2, NotRegistered DEF DropCompletion
    <3>3. QED
      BY <3>1, <3>2
  <2>3. QED
    BY <2>1, <2>2, RoomKept
<1>5. QED
  BY <1>1, <1>2, <1>3, <1>4 DEF Poll

\* "One registration per completion waiting for room", and none that a drainer
\* is not bound to take: a completion that was answered or dropped withdrew its
\* own, and a drainer that stops takes all the others.
THEOREM OneRegistration == Spec => []RoomIsExact
<1>1. Init => RoomIsExact
  <2>1. Init => \A t \in Task : room[t] = 0
    BY DEF Init
  <2>2. 0 <= 1 /\ 0 # 1
    OBVIOUS
  <2>3. QED
    BY <2>1, <2>2 DEF RoomIsExact
<1>2. TypeOK /\ RoomIsExact /\ [Next]_vars => RoomIsExact'
  <2> SUFFICES ASSUME TypeOK, RoomIsExact, [Next]_vars PROVE RoomIsExact'
    OBVIOUS
  <2>1. CASE UNCHANGED vars
    BY <2>1 DEF vars, queueVars, RoomIsExact
  <2>2. CASE \E t \in Task : Step(t) \/ StepPanic(t) \/ Poll(t) \/ DropCompletion(t)
    BY <2>2, OfferRoom, DrainRoom, PollRoomExact DEF Step
  <2>3. CASE \E r \in Reader : inspect(r)
    BY <2>3 DEF inspect, queueVars, RoomIsExact
  <2>4. QED
    BY <2>1, <2>2, <2>3 DEF Next
<1>3. QED
  BY <1>1, <1>2, CellTyped, PTL DEF Spec

-----------------------------------------------------------------------------
(* Wakers.                                                                 *)

\* Somebody is bound to wake the task's waiter.
BoundToWake(t) ==
    \/ room[t] > 0
    \/ \E u \in Task : t \in wakes[u] /\ pc[u] \in {"turn", "strand"}

\* The two properties of sleepers are inductive together with where a task
\* may be asleep at all: a caller is awake until its first poll, and a poll
\* that offers again has stored its waker.
Sleeper(t) ==
    /\ pc[t] = "offer" => op[t] = "poll" /\ (awake[t] \/ waiterWaker[t])
    /\ pc[t] = "start" => awake[t]
    /\ op[t] # "poll" /\ pc[t] \in DrainLabels \union {"strand"} => awake[t]
    /\ pc[t] = "await" /\ completion[t] = "room" /\ ~awake[t] =>
           waiterWaker[t] /\ BoundToWake(t)
    /\ pc[t] = "await" /\ completion[t] = "queued" /\ ~awake[t] =>
           ticket[t] = "open" /\ ticketWaker[t]

Sleepers == \A t \in Task : Sleeper(t)

\* A step wakes the task or leaves its wakers, and what they wait for, alone.
Undisturbed(t) ==
    awake'[t] \/ /\ ~awake[t]
                 /\ waiterWaker[t] => waiterWaker'[t]
                 /\ ticketWaker[t] => ticketWaker'[t] /\ (ticket[t] = "open" => ticket'[t] = "open")

\* A step of task s that disturbs no other task.
LEMMA SleepersKept ==
    ASSUME TypeOK, Sleepers, NEW s \in Task, NEW l, pc' = [pc EXCEPT ![s] = l],
           \A t \in Task \ {s} :
               /\ op'[t] = op[t] /\ completion'[t] = completion[t]
               /\ Undisturbed(t)
               /\ BoundToWake(t) /\ ~awake'[t] => BoundToWake(t)',
           Sleeper(s)'
    PROVE  Sleepers'
<1>1. pc \in [Task -> Labels]
  BY DEF TypeOK
<1> SUFFICES ASSUME NEW t \in Task PROVE Sleeper(t)'
  BY DEF Sleepers
<1>2. CASE t = s
  BY <1>2
<1>3. CASE t # s
  <2>1. pc'[t] = pc[t]
    BY <1>1, <1>3
  <2>2. /\ op'[t] = op[t] /\ completion'[t] = completion[t] /\ Undisturbed(t)
        /\ BoundToWake(t) /\ ~awake'[t] => BoundToWake(t)'
        /\ Sleeper(t)
    BY <1>3 DEF Sleepers
  <2>3. QED
    BY <2>1, <2>2 DEF Sleeper, Undisturbed
<1>4. QED
  BY <1>2, <1>3

\* Registrations stay while the drainer that took them does not move on.
LEMMA RegisteredKept ==
    ASSUME TypeOK, NEW s \in Task, NEW l, pc' = [pc EXCEPT ![s] = l],
           UNCHANGED wakes,
           pc[s] \in {"turn", "strand"} => wakes[s] = {},
           NEW t \in Task, room[t] > 0 => room'[t] > 0, BoundToWake(t)
    PROVE  BoundToWake(t)'
<1>1. pc \in [Task -> Labels]
  BY DEF TypeOK
<1>2. CASE room[t] > 0
  BY <1>2 DEF BoundToWake
<1>3. CASE \E u \in Task : t \in wakes[u] /\ pc[u] \in {"turn", "strand"}
  <2>1. PICK u \in Task : t \in wakes[u] /\ pc[u] \in {"turn", "strand"}
    BY <1>3
  <2>2. u # s
    BY <2>1
  <2>3. QED
    BY <1>1, <2>1, <2>2 DEF BoundToWake
<1>4. QED
  BY <1>2, <1>3 DEF BoundToWake

\* Resolving a ticket disturbs nobody who sleeps on it.
LEMMA ResolveWakes ==
    ASSUME TypeOK, NEW u, NEW b \in BOOLEAN, ResolveTicket(u, b), UNCHANGED waiterWaker,
           NEW t \in Task
    PROVE  Undisturbed(t)
<1>1. /\ ticket \in [Task -> Tickets] /\ ticketWaker \in [Task -> BOOLEAN]
      /\ awake \in [Task -> BOOLEAN]
  BY DEF TypeOK
<1>2. /\ ticket' = [ticket EXCEPT ![u] = IF b THEN "true" ELSE "false"]
      /\ ticketWaker' = [ticketWaker EXCEPT ![u] = FALSE]
      /\ awake' = [awake EXCEPT ![u] = awake[u] \/ ticketWaker[u]]
  BY DEF ResolveTicket
<1>3. CASE t = u
  <2>1. awake'[t] = (awake[t] \/ ticketWaker[t])
    BY <1>1, <1>2, <1>3
  <2>2. QED
    BY <2>1 DEF Undisturbed
<1>4. CASE t # u
  BY <1>1, <1>2, <1>4 DEF Undisturbed
<1>5. QED
  BY <1>3, <1>4

\* offer puts to sleep only what a waker in place will wake.
LEMMA OfferSleepers ==
    ASSUME TypeOK, Sleepers, NEW s \in Task, offer(s)
    PROVE  Sleepers'
<1> USE DEF Offering, Goto
<1>t. /\ room \in [Task -> Nat] /\ completion \in [Task -> Completions]
      /\ ticket \in [Task -> Tickets] /\ pc \in [Task -> Labels]
  BY DEF TypeOK
<1>o. /\ UNCHANGED <<op, awake, ticketWaker, waiterWaker, wakes>>
      /\ pc[s] \in {"start", "offer"}
  BY DEF offer, OfferClosed, OfferFull, OfferQueued, OfferBehind, OfferIdle, OfferKeeps
<1>a. /\ op[s] # "poll" => awake[s]
      /\ op[s] = "poll" /\ pc[s] = "offer" => awake[s] \/ waiterWaker[s]
  BY <1>o DEF Sleepers, Sleeper
<1>1. CASE OfferClosed(s) \/ OfferQueued(s)
  <2>1. PICK c : Answer(s, c)
    BY <1>1 DEF OfferClosed, OfferQueued
  <2>2. /\ UNCHANGED room
        /\ \A t \in Task \ {s} : ticket'[t] = ticket[t]
    BY <1>1, <1>t DEF OfferClosed, OfferQueued, queueVars
  <2>3. /\ pc' = [pc EXCEPT ![s] = IF op[s] = "poll" THEN "forget" ELSE "await"]
        /\ completion' = [completion EXCEPT ![s] = c]
    BY <2>1 DEF Answer
  <2>4. \A t \in Task \ {s} : completion'[t] = completion[t] /\ Undisturbed(t)
    BY <1>t, <1>o, <2>2, <2>3 DEF Undisturbed
  <2>5. Sleeper(s)'
    BY <1>t, <1>o, <1>a, <2>3 DEF Sleeper, DrainLabels
  <2>6. QED
    BY <1>o, <2>2, <2>3, <2>4, <2>5, SleepersKept, RegisteredKept
<1>2. CASE OfferFull(s)
  <2>1. /\ UNCHANGED ticket /\ room' = Registered(s)
        /\ \/ op[s] = "try" /\ pc' = [pc EXCEPT ![s] = "rejected"] /\ UNCHANGED completion
           \/ /\ op[s] # "try" /\ pc' = [pc EXCEPT ![s] = "await"]
              /\ completion' = [completion EXCEPT ![s] = "room"]
    BY <1>2 DEF OfferFull
  <2>2. PICK l \in {"rejected", "await"} : pc' = [pc EXCEPT ![s] = l]
    BY <2>1
  <2>3. \A t \in Task \ {s} : completion'[t] = completion[t] /\ Undisturbed(t)
    BY <1>t, <1>o, <2>1 DEF Undisturbed
  <2>4. \A t \in Task : room[t] > 0 => room'[t] > 0
    BY <1>t, <2>1 DEF Registered
  <2>5. op[s] = "poll" => room'[s] > 0
    BY <1>t, <2>1 DEF Registered
  <2>6. awake[s] \/ (waiterWaker[s] /\ op[s] = "poll")
    BY <1>o DEF Sleepers, Sleeper
  <2>7. Sleeper(s)'
    BY <1>t, <1>o, <2>1, <2>5, <2>6 DEF Sleeper, BoundToWake, DrainLabels
  <2>8. QED
    BY <1>o, <2>2, <2>3, <2>4, <2>7, SleepersKept, RegisteredKept
<1>3. CASE OfferBehind(s) \/ OfferIdle(s)
  <2>1. /\ UNCHANGED <<room, completion>> /\ pc' = [pc EXCEPT ![s] = "turn"]
        /\ \A t \in Task \ {s} : ticket'[t] = ticket[t]
    BY <1>3, <1>t DEF OfferBehind, OfferIdle, StartDrain
  <2>2. \A t \in Task \ {s} : Undisturbed(t)
    BY <1>o, <2>1 DEF Undisturbed
  <2>3. Sleeper(s)'
    BY <1>t, <1>o, <1>a, <2>1 DEF Sleeper
  <2>4. QED
    BY <1>o, <2>1, <2>2, <2>3, SleepersKept, RegisteredKept
<1>4. QED
  BY <1>1, <1>2, <1>3 DEF offer

\* Every waker the drainer takes it also wakes.
LEMMA DrainSleepers ==
    ASSUME TypeOK, Sleepers, NEW s \in Task, drain(s) \/ StepPanic(s) \/ unwinding(s)
    PROVE  Sleepers'
<1> USE DEF Goto, queueVars, ticketVars, drainVars
<1>t. /\ room \in [Task -> Nat] /\ completion \in [Task -> Completions]
      /\ awake \in [Task -> BOOLEAN] /\ waiterWaker \in [Task -> BOOLEAN]
      /\ ticket \in [Task -> Tickets] /\ pc \in [Task -> Labels]
      /\ wakes \in [Task -> SUBSET Task] /\ reply \in [Task -> BOOLEAN]
  BY DEF TypeOK
<1>1. CASE Skip(s) \/ Resolve(s) \/ PendingDrop(s)
  <2>1. PICK l \in {"next", "probe"} : pc' = [pc EXCEPT ![s] = l]
    BY <1>1 DEF Skip, Resolve, PendingDrop
  <2>2. /\ UNCHANGED <<room, op, completion, waiterWaker, wakes>>
        /\ (pc[s] = "turn" /\ wakes[s] = {}) \/ pc[s] \in {"resolve", "unwind"}
    BY <1>1 DEF Skip, Resolve, PendingDrop, HasTurn, DrainKeeps
  <2>3. (UNCHANGED <<ticket, ticketWaker, awake>>) \/ \E b \in BOOLEAN : ResolveTicket(job[s], b)
    BY <1>1, <1>t DEF Skip, Resolve, PendingDrop
  <2>4. \A t \in Task : Undisturbed(t)
    BY <2>2, <2>3, ResolveWakes DEF Undisturbed
  <2>5. Sleeper(s)'
    BY <1>t, <2>1, <2>2, <2>4 DEF Sleepers, Sleeper, Undisturbed, DrainLabels
  <2>6. QED
    BY <2>1, <2>2, <2>4, <2>5, SleepersKept, RegisteredKept
<1>2. CASE StepBegin(s) \/ StepReturn(s) \/ StepPanic(s) \/ Probe(s)
  <2>1. PICK l \in {"step", "resolve", "unwind", "handover"} : pc' = [pc EXCEPT ![s] = l]
    BY <1>2 DEF StepBegin, StepReturn, StepPanic, Probe
  <2>2. /\ UNCHANGED <<room, op, completion, awake, ticket, ticketWaker, waiterWaker, wakes>>
        /\ (pc[s] = "turn" /\ wakes[s] = {}) \/ pc[s] \in {"step", "probe"}
    BY <1>2 DEF StepBegin, StepReturn, StepPanic, Probe, HasTurn, DrainKeeps
  <2>3. \A t \in Task : Undisturbed(t)
    BY <2>2 DEF Undisturbed
  <2>4. Sleeper(s)'
    BY <1>t, <2>1, <2>2 DEF Sleepers, Sleeper, DrainLabels
  <2>5. QED
    BY <2>1, <2>2, <2>3, <2>4, SleepersKept, RegisteredKept
<1>3. CASE NextEvent(s) \/ Handover(s)
  <2>1. PICK l \in {"turn", "strand"} : pc' = [pc EXCEPT ![s] = l]
    BY <1>3 DEF NextEvent, Handover
  <2>2. /\ UNCHANGED <<op, completion, awake, ticket, ticketWaker, waiterWaker>>
        /\ wakes' = [wakes EXCEPT ![s] = Waiting] /\ pc[s] \in {"next", "handover"}
    BY <1>3 DEF NextEvent, Handover, DrainKeeps
  <2>3. \A t \in Task : Undisturbed(t)
    BY <2>2 DEF Undisturbed
  <2>4. Sleeper(s)'
    BY <1>t, <2>1, <2>2 DEF Sleepers, Sleeper, DrainLabels
  <2>5. ASSUME NEW t \in Task, BoundToWake(t) PROVE BoundToWake(t)'
    <3>1. CASE room[t] > 0
      <4>1. t \in wakes'[s] /\ pc'[s] \in {"turn", "strand"}
        BY <1>t, <2>1, <2>2, <3>1 DEF Waiting
      <4>2. QED
        BY <4>1 DEF BoundToWake
    <3>2. CASE \E u \in Task : t \in wakes[u] /\ pc[u] \in {"turn", "strand"}
      <4>1. PICK u \in Task : t \in wakes[u] /\ pc[u] \in {"turn", "strand"}
        BY <3>2
      <4>2. u # s
        BY <2>2, <4>1
      <4>3. t \in wakes'[u] /\ pc'[u] \in {"turn", "strand"}
        BY <1>t, <2>1, <2>2, <4>1, <4>2
      <4>4. QED
        BY <4>3 DEF BoundToWake
    <3>3. QED
      BY <2>5, <3>1, <3>2 DEF BoundToWake
  <2>6. QED
    BY <2>1, <2>2, <2>3, <2>4, <2>5, SleepersKept
<1>4. CASE DrainReturn(s) \/ Unwind(s)
  <2>1. PICK l \in {"forget", "await", "probe", "panicked"} :
          /\ pc' = [pc EXCEPT ![s] = l]
          /\ l = "await" => op[s] # "poll"
    BY <1>4 DEF DrainReturn, Unwind, DrainAnswer, Answer
  <2>2. /\ UNCHANGED <<room, op, awake, ticket, ticketWaker, waiterWaker, wakes>>
        /\ pc[s] \in {"turn", "strand"} /\ wakes[s] = {}
    BY <1>4 DEF DrainReturn, Unwind, DrainKeeps
  <2>3. \A t \in Task : Undisturbed(t)
    BY <2>2 DEF Undisturbed
  <2>4. \A u \in Task \ {s} : completion'[u] = completion[u]
    BY <1>4, <1>t DEF DrainReturn, Unwind, DrainAnswer, Answer
  <2>5. Sleeper(s)'
    BY <1>t, <2>1, <2>2 DEF Sleepers, Sleeper, DrainLabels
  <2>6. QED
    BY <2>1, <2>2, <2>3, <2>4, <2>5, SleepersKept, RegisteredKept
<1>5. CASE WakeNext(s)
  <2>1. PICK w \in wakes[s] : WakeWaiter(w) /\ wakes' = [wakes EXCEPT ![s] = @ \ {w}]
    BY <1>5 DEF WakeNext
  <2>2. UNCHANGED <<room, pc, op, completion, ticket, ticketWaker>>
    BY <1>5 DEF WakeNext
  <2>3. /\ waiterWaker' = [waiterWaker EXCEPT ![w] = FALSE]
        /\ awake' = [awake EXCEPT ![w] = awake[w] \/ waiterWaker[w]]
    BY <2>1 DEF WakeWaiter
  <2>4. \A t \in Task \ {w} :
          /\ awake'[t] = awake[t] /\ waiterWaker'[t] = waiterWaker[t]
          /\ BoundToWake(t) => BoundToWake(t)'
    <3>1. \A t \in Task \ {w} : awake'[t] = awake[t] /\ waiterWaker'[t] = waiterWaker[t]
      BY <1>t, <2>3
    <3>2. \A t \in Task \ {w}, u \in Task : t \in wakes[u] => t \in wakes'[u]
      BY <1>t, <2>1
    <3>3. QED
      BY <2>2, <3>1, <3>2 DEF BoundToWake
  <2>5. w \in Task /\ (awake'[w] <=> awake[w] \/ waiterWaker[w])
    BY <1>t, <2>1, <2>3
  <2> SUFFICES ASSUME NEW t \in Task PROVE Sleeper(t)'
    BY DEF Sleepers
  <2>6. CASE t = w
    BY <2>2, <2>5, <2>6 DEF Sleepers, Sleeper
  <2>7. CASE t # w
    BY <2>2, <2>4, <2>7 DEF Sleepers, Sleeper
  <2>8. QED
    BY <2>6, <2>7
<1>6. CASE ResolveStranded(s)
  <2>1. PICK v : ResolveTicket(v, FALSE)
    BY <1>6 DEF ResolveStranded
  <2>2. UNCHANGED <<room, pc, op, completion, waiterWaker, wakes>>
    BY <1>6 DEF ResolveStranded, DrainKeeps
  <2>3. \A t \in Task : Undisturbed(t)
    BY <2>1, <2>2, ResolveWakes
  <2>4. \A t \in Task : BoundToWake(t)' <=> BoundToWake(t)
    BY <2>2 DEF BoundToWake
  <2>5. QED
    BY <2>2, <2>3, <2>4 DEF Sleepers, Sleeper, Undisturbed
<1>7. QED
  BY <1>1, <1>2, <1>3, <1>4, <1>5, <1>6 DEF drain, unwinding

\* A poll stores its waker before it looks for room or at its ticket.
LEMMA PollSleepers ==
    ASSUME TypeOK, Sleepers, NEW s \in Task,
           Poll(s) \/ forget(s) \/ PollAnswered(s) \/ DropCompletion(s)
    PROVE  Sleepers'
<1> USE DEF Goto
<1>t. /\ room \in [Task -> Nat] /\ completion \in [Task -> Completions]
      /\ awake \in [Task -> BOOLEAN] /\ waiterWaker \in [Task -> BOOLEAN]
      /\ ticketWaker \in [Task -> BOOLEAN] /\ op \in [Task -> {"submit", "try", "poll"}]
      /\ pc \in [Task -> Labels]
  BY DEF TypeOK
<1>k. UNCHANGED <<ticket, wakes>> /\ pc[s] \in {"await", "forget", "polled"}
  BY DEF Poll, PollRoom, PollSettled, forget, PollAnswered, DropCompletion, CompletionKeeps,
         drainVars, ticketVars
<1>1. CASE PollRoom(s)
  <2>1. /\ awake' = [awake EXCEPT ![s] = FALSE] /\ UNCHANGED <<room, ticketWaker>>
        /\ completion' = [completion EXCEPT ![s] = "false"]
        /\ waiterWaker' = [waiterWaker EXCEPT ![s] = TRUE]
        /\ op' = [op EXCEPT ![s] = "poll"] /\ pc' = [pc EXCEPT ![s] = "offer"]
    BY <1>1 DEF PollRoom, update, ticketVars
  <2>2. \A t \in Task \ {s} : /\ op'[t] = op[t] /\ completion'[t] = completion[t]
                              /\ Undisturbed(t)
    BY <1>t, <1>k, <2>1 DEF Undisturbed
  <2>3. Sleeper(s)'
    BY <1>t, <2>1 DEF Sleeper, DrainLabels
  <2>4. QED
    BY <1>k, <2>1, <2>2, <2>3, SleepersKept, RegisteredKept
<1>2. CASE PollSettled(s) \/ PollAnswered(s)
  <2>1. PICK l \in {"ready", "await"} : pc' = [pc EXCEPT ![s] = l]
    BY <1>2 DEF PollSettled, PollAnswered, PollEnd
  <2>2. /\ UNCHANGED <<room, op, waiterWaker>>
        /\ \A t \in Task \ {s} : /\ completion'[t] = completion[t] /\ awake'[t] = awake[t]
                                 /\ ticketWaker'[t] = ticketWaker[t]
    BY <1>2, <1>t DEF PollSettled, PollAnswered, PollEnd
  <2>3. \A t \in Task \ {s} : Undisturbed(t)
    BY <1>k, <2>2 DEF Undisturbed
  <2>4. l = "await" => /\ completion'[s] = "queued" /\ ticket[s] = "open" /\ ticketWaker'[s]
    BY <1>2, <1>t, <2>1 DEF PollSettled, PollAnswered, PollEnd
  <2>5. Sleeper(s)'
    BY <1>t, <1>k, <2>1, <2>4 DEF Sleeper, DrainLabels
  <2>6. QED
    BY <1>k, <2>1, <2>2, <2>3, <2>5, SleepersKept, RegisteredKept
<1>3. CASE forget(s) \/ DropCompletion(s)
  <2>1. PICK l \in {"polled", "dropped"} : pc' = [pc EXCEPT ![s] = l]
    BY <1>3 DEF forget, DropCompletion
  <2>2. /\ UNCHANGED <<op, completion, awake, ticketWaker, waiterWaker>>
        /\ \A t \in Task \ {s} : room'[t] = room[t]
    BY <1>3, <1>t DEF forget, DropCompletion, ticketVars
  <2>3. \A t \in Task \ {s} : Undisturbed(t)
    BY <1>k, <2>2 DEF Undisturbed
  <2>4. Sleeper(s)'
    BY <1>t, <2>1 DEF Sleeper, DrainLabels
  <2>5. QED
    BY <1>k, <2>1, <2>2, <2>3, <2>4, SleepersKept, RegisteredKept
<1>4. QED
  BY <1>1, <1>2, <1>3 DEF Poll

\* Every step leaves every sleeper somebody to wake it.
LEMMA SleepersInductive ==
    ASSUME TypeOK, Sleepers, [Next]_vars
    PROVE  Sleepers'
<1>1. CASE UNCHANGED vars
  <2>1. UNCHANGED <<room, pc, op, completion, awake, ticket, ticketWaker, waiterWaker, wakes>>
    BY <1>1 DEF vars, queueVars, ticketVars, drainVars
  <2>2. QED
    BY <2>1 DEF Sleepers, Sleeper, BoundToWake
<1>2. CASE \E t \in Task : Step(t) \/ StepPanic(t) \/ Poll(t) \/ DropCompletion(t)
  BY <1>2, OfferSleepers, DrainSleepers, PollSleepers DEF Step
<1>3. CASE \E r \in Reader : inspect(r)
  <2>1. UNCHANGED <<room, pc, op, completion, awake, ticket, ticketWaker, waiterWaker, wakes>>
    BY <1>3 DEF inspect, queueVars, ticketVars, drainVars
  <2>2. QED
    BY <2>1 DEF Sleepers, Sleeper, BoundToWake
<1>4. QED
  BY <1>1, <1>2, <1>3 DEF Next

\* No reachable state has a sleeper that nobody will wake.
LEMMA AlwaysSleepers == Spec => []Sleepers
<1>1. Init => Sleepers
  BY DEF Init, Sleepers, Sleeper
<1>2. QED
  BY <1>1, SleepersInductive, CellTyped, PTL DEF Spec

\* A caller that sleeps for room is registered, or a drainer is about to wake
\* it, with the waker of its last poll in place: a waker updated while the
\* drainer wakes is not lost, however the two interleave.
THEOREM NoWakeupLost == Spec => []NoLostWakeup
<1>1. Sleepers => NoLostWakeup
  BY DEF Sleepers, Sleeper, BoundToWake, NoLostWakeup
<1>2. QED
  BY <1>1, AlwaysSleepers, PTL

\* A caller that sleeps on its ticket is woken when the ticket is resolved.
THEOREM NoTicketWakeupLost == Spec => []NoLostTicketWakeup
<1>1. Sleepers => NoLostTicketWakeup
  BY DEF Sleepers, Sleeper, NoLostTicketWakeup
<1>2. QED
  BY <1>1, AlwaysSleepers, PTL
=============================================================================
