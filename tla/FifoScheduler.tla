---------------------------- MODULE FifoScheduler ----------------------------
(***************************************************************************)
(* scheduler::FifoScheduler<N>: a generated machine behind a shared cell.  *)
(*                                                                         *)
(* A task submits one event.  A task that finds the machine idle runs its  *)
(* event and then drains what other tasks queued meanwhile; a task that    *)
(* finds it busy queues its event and awaits a ticket, or, if the queue is *)
(* full, waits for room.  Several tasks may be inside the scheduler at     *)
(* once: every critical section of the queue mutex, of the machine mutex,  *)
(* of a ticket and of a waiter is one atomic step, and anything may happen *)
(* in between.  An action that re-enters its own machine is a task that    *)
(* submits while the machine is busy.                                      *)
(*                                                                         *)
(* The machine itself is any machine: a step is accepted or not, may reach *)
(* X, and may panic.  The queue is the bounded sequence that the ring of   *)
(* module EventQueue implements.                                           *)
(***************************************************************************)
EXTENDS Naturals, Sequences

CONSTANTS Task,         \* callers; a task's event is named by the task
          Reader,       \* threads that run read-only state queries
          N,            \* capacity of the queue
          TryCaller,    \* tasks that call try_submit; the others submit
          Dropper,      \* tasks that may drop their completion
          May,          \* what the machine may do with each event
          Unwound,      \* tasks that submit from a destructor while their
                        \* thread is already unwinding
          Nobody        \* neither a task nor a reader

ASSUME FifoAssumption ==
    /\ N \in Nat /\ N > 1               \* VALID_CAPACITY
    /\ TryCaller \subseteq Task
    /\ Dropper \subseteq Task
    /\ May \in [Task -> SUBSET {"accept", "reject", "stop", "panic"}]
    /\ Unwound \subseteq Task
    /\ Task \intersect Reader = {}
    /\ Nobody \notin Task \union Reader

VARIABLES
    \* FifoQueue, under the queue mutex
    events,             \* the queued events, oldest first
    draining,           \* some caller is running events
    terminated,         \* the cell is closed
    room,               \* registrations of each waiter (a Vec, order aside)
    \* the machine, under its own mutex
    lock,               \* who holds the machine mutex
    dead,               \* machine.is_terminated()
    \* each task
    pc,                 \* where the task is
    op,                 \* the call it is in: submit, try or poll
    completion,         \* its FifoWait
    awake,              \* its executor is going to poll it
    ticket,             \* its event's Ticket.accepted; "none" without ticket
    ticketWaker,        \* TicketState.waker is set
    waiterWaker,        \* Waiter.waker is set
    \* locals of a task that drains
    job,                \* the event it is running
    seen,               \* `terminated`: the last run found the machine in X
    reply,              \* acceptance of the event it just ran
    first,              \* `accepted`: acceptance of the first event it ran
    wakes,              \* waiters it took from room and has still to wake
    stranded,           \* tickets it took from the queue while unwinding
    \* history, read by properties only
    outcome,            \* what running each event came to
    pos,                \* the event's number in acceptance order, or zero
    issued              \* how many events were accepted

queueVars   == <<events, draining, terminated, room>>
machineVars == <<lock, dead>>
ticketVars  == <<ticket, ticketWaker>>
drainVars   == <<job, seen, reply, first, wakes, stranded>>
orderVars   == <<pos, issued>>
vars == <<queueVars, machineVars, pc, op, completion, awake, ticketVars,
          waiterWaker, drainVars, outcome, orderVars>>

-----------------------------------------------------------------------------
\* FifoScheduler::cell.  The machine may fail to start or start in X.
Init ==
    /\ events = << >>
    /\ draining = FALSE
    /\ dead \in BOOLEAN
    /\ \E started \in BOOLEAN : terminated = (~started \/ dead)
    /\ room = [t \in Task |-> 0]
    /\ lock = Nobody
    /\ pc = [t \in Task |-> "start"]
    /\ op = [t \in Task |-> IF t \in TryCaller THEN "try" ELSE "submit"]
    /\ completion = [t \in Task |-> "none"]
    /\ awake = [t \in Task |-> TRUE]
    /\ ticket = [t \in Task |-> "none"]
    /\ ticketWaker = [t \in Task |-> FALSE]
    /\ waiterWaker = [t \in Task |-> FALSE]
    /\ job = [t \in Task |-> Nobody]
    /\ seen = [t \in Task |-> FALSE]
    /\ reply = [t \in Task |-> FALSE]
    /\ first = [t \in Task |-> FALSE]
    /\ wakes = [t \in Task |-> {}]
    /\ stranded = [t \in Task |-> {}]
    /\ outcome = [t \in Task |-> "unrun"]
    /\ pos = [t \in Task |-> 0]
    /\ issued = 0

Goto(t, label) == pc' = [pc EXCEPT ![t] = label]

\* Slip: stores the acceptance but forgets the waker.
ResolveSilently(u, b) ==
    /\ ticket' = [ticket EXCEPT ![u] = IF b THEN "true" ELSE "false"]
    /\ UNCHANGED <<ticketWaker, awake>>

\* Ticket::resolve: store the acceptance, take the waker and wake it.
ResolveTicket(u, b) ==
    /\ ticket' = [ticket EXCEPT ![u] = IF b THEN "true" ELSE "false"]
    /\ ticketWaker' = [ticketWaker EXCEPT ![u] = FALSE]
    /\ awake' = [awake EXCEPT ![u] = awake[u] \/ ticketWaker[u]]

\* Slip: takes the waker and drops it.
WakeNobody(w) ==
    /\ waiterWaker' = [waiterWaker EXCEPT ![w] = FALSE]
    /\ UNCHANGED awake

\* Waiter::wake: take the waker and wake it.
WakeWaiter(w) ==
    /\ waiterWaker' = [waiterWaker EXCEPT ![w] = FALSE]
    /\ awake' = [awake EXCEPT ![w] = awake[w] \/ waiterWaker[w]]

\* The event gets the next number in acceptance order.
Accept(t) ==
    /\ issued' = issued + 1
    /\ pos' = [pos EXCEPT ![t] = issued + 1]

\* offer returned to its caller: submit and try_submit hand out the
\* completion, poll withdraws its waiter first.
Answer(t, c) ==
    /\ completion' = [completion EXCEPT ![t] = c]
    /\ Goto(t, IF op[t] = "poll" THEN "forget" ELSE "await")

-----------------------------------------------------------------------------
(* FifoCell::offer, one critical section of the queue mutex.               *)

\* submit and try_submit offer the event at once, poll after it stored the
\* waker.
Offering(t) == pc[t] \in {"start", "offer"}

\* The queue holds N events.  Slip: the bound is off by one.
FullTooLate == Len(events) = N + 1
IsFull == Len(events) = N

\* What EventQueue::pop leaves.
Popped == Tail(events)

\* What an offer never touches.
OfferKeeps == UNCHANGED <<machineVars, op, awake, ticketWaker, waiterWaker,
                          reply, first, wakes, stranded, outcome>>

OfferClosed(t) ==
    /\ Offering(t)
    /\ terminated
    /\ Answer(t, "false")
    /\ UNCHANGED <<queueVars, ticket, job, seen, orderVars>>
    /\ OfferKeeps

\* Only poll passes its waiter, which registers unless it already is.
\* Slip: it registers on every poll.
RegisteredAgain(t) ==
    IF op[t] = "poll" THEN [room EXCEPT ![t] = @ + 1] ELSE room
Registered(t) ==
    IF op[t] = "poll" /\ room[t] = 0 THEN [room EXCEPT ![t] = 1] ELSE room

\* submit makes a fresh waiter and try_submit reports QueueFull.
OfferFull(t) ==
    /\ Offering(t)
    /\ ~terminated /\ draining /\ IsFull
    /\ room' = Registered(t)
    /\ \/ /\ op[t] = "try"
          /\ Goto(t, "rejected")
          /\ UNCHANGED completion
       \/ /\ op[t] # "try"
          /\ Goto(t, "await")
          /\ completion' = [completion EXCEPT ![t] = "room"]
    /\ UNCHANGED <<events, draining, terminated, ticket, job, seen, orderVars>>
    /\ OfferKeeps

OfferQueued(t) ==
    /\ Offering(t)
    /\ ~terminated /\ draining /\ ~IsFull
    /\ events' = Append(events, t)
    /\ ticket' = [ticket EXCEPT ![t] = "open"]
    /\ Accept(t)
    /\ Answer(t, "queued")
    /\ UNCHANGED <<draining, terminated, room, job, seen>>
    /\ OfferKeeps

\* Slip: nobody is told that the machine is busy.
StartUnmarked(t, u) ==
    /\ job' = [job EXCEPT ![t] = u]
    /\ seen' = [seen EXCEPT ![t] = FALSE]
    /\ Goto(t, "turn")
    /\ UNCHANGED <<draining, terminated, room, completion>>

\* The caller becomes the draining caller and starts with event u.
StartDrain(t, u) ==
    /\ draining' = TRUE
    /\ job' = [job EXCEPT ![t] = u]
    /\ seen' = [seen EXCEPT ![t] = FALSE]
    /\ Goto(t, "turn")
    /\ UNCHANGED <<terminated, room, completion>>

\* Slip: the new event runs ahead of the events a panic left queued.
OfferAhead(t) ==
    /\ Offering(t)
    /\ ~terminated /\ ~draining /\ events # << >>
    /\ StartDrain(t, t)
    /\ Accept(t)
    /\ UNCHANGED <<events, ticket>>
    /\ OfferKeeps

\* A panic left older events queued: drain from the oldest and queue behind.
OfferBehind(t) ==
    /\ Offering(t)
    /\ ~terminated /\ ~draining /\ events # << >>
    /\ StartDrain(t, Head(events))
    /\ events' = Append(Popped, t)
    /\ ticket' = [ticket EXCEPT ![t] = "open"]
    /\ Accept(t)
    /\ OfferKeeps

OfferIdle(t) ==
    /\ Offering(t)
    /\ ~terminated /\ ~draining /\ events = << >>
    /\ StartDrain(t, t)
    /\ Accept(t)
    /\ UNCHANGED <<events, ticket>>
    /\ OfferKeeps

offer(t) ==
    \/ OfferClosed(t) \/ OfferFull(t) \/ OfferQueued(t)
    \/ OfferBehind(t) \/ OfferIdle(t)

-----------------------------------------------------------------------------
(* FifoCell::drain.                                                        *)

DrainKeeps == UNCHANGED <<op, waiterWaker, orderVars>>

\* The drainer has woken the waiters it took and holds the next event.
HasTurn(t) == pc[t] = "turn" /\ wakes[t] = {} /\ job[t] # Nobody

\* Pending::run on a machine already seen in X: the event does not run and
\* its caller learns false.
Skip(t) ==
    /\ HasTurn(t)
    /\ seen[t]
    /\ ResolveTicket(job[t], FALSE)
    /\ Goto(t, "next")
    /\ UNCHANGED <<queueVars, lock, dead, completion, drainVars, outcome>>
    /\ DrainKeeps

\* FifoCell::run takes the machine's mutex and calls the step.
StepBegin(t) ==
    /\ HasTurn(t)
    /\ ~seen[t]
    /\ lock = Nobody
    /\ lock' = t
    /\ outcome' = [outcome EXCEPT ![job[t]] = "running"]
    /\ Goto(t, "step")
    /\ UNCHANGED <<queueVars, dead, completion, awake, ticketVars, drainVars>>
    /\ DrainKeeps

\* The step leaves the machine in X or not.
MayStop(u) == dead' \in BOOLEAN /\ (dead' => "stop" \in May[u])

\* The drainer notes whether the machine is in X after the step.
NoteX(t) == seen' = [seen EXCEPT ![t] = dead']

\* The step returned: machine.step's result and is_terminated, then unlock.
StepReturn(t) ==
    /\ pc[t] = "step"
    /\ \E accepted \in BOOLEAN :
         /\ (IF accepted THEN "accept" ELSE "reject") \in May[job[t]]
         /\ reply' = [reply EXCEPT ![t] = accepted]
         /\ outcome' = [outcome EXCEPT ![job[t]] =
                           IF accepted THEN "true" ELSE "false"]
    /\ MayStop(job[t])
    /\ NoteX(t)
    /\ lock' = Nobody
    /\ Goto(t, "resolve")
    /\ UNCHANGED <<queueVars, completion, awake, ticketVars, job, first,
                   wakes, stranded>>
    /\ DrainKeeps

\* The step panicked, possibly after it reached X.  On a thread that is
\* already unwinding this aborts the process.
StepPanic(t) ==
    /\ pc[t] = "step"
    /\ "panic" \in May[job[t]]
    /\ t \notin Unwound
    /\ MayStop(job[t])
    /\ outcome' = [outcome EXCEPT ![job[t]] = "panicked"]
    /\ lock' = Nobody
    /\ Goto(t, "unwind")
    /\ UNCHANGED <<queueVars, completion, awake, ticketVars, drainVars>>
    /\ DrainKeeps

\* Resolve the event's caller; an event that runs without a ticket is the
\* drainer's own, and its acceptance is what drain returns.
Resolve(t) ==
    /\ pc[t] = "resolve"
    /\ \/ /\ ticket[job[t]] = "none"
          /\ first' = [first EXCEPT ![t] = reply[t]]
          /\ UNCHANGED <<ticketVars, awake>>
       \/ /\ ticket[job[t]] # "none"
          /\ ResolveTicket(job[t], reply[t])
          /\ UNCHANGED first
    /\ reply' = [reply EXCEPT ![t] = FALSE]
    /\ Goto(t, "next")
    /\ UNCHANGED <<queueVars, lock, dead, completion, job, seen, wakes,
                   stranded, outcome>>
    /\ DrainKeeps

Waiting == {w \in Task : room[w] > 0}

\* The loop's critical section: record X, pop, or stop draining.
NextEvent(t) ==
    /\ pc[t] = "next"
    /\ terminated' = seen[t]
    /\ \/ /\ events = << >>
          /\ draining' = FALSE
          /\ job' = [job EXCEPT ![t] = Nobody]
          /\ UNCHANGED events
       \/ /\ events # << >>
          /\ job' = [job EXCEPT ![t] = Head(events)]
          /\ events' = Popped
          /\ UNCHANGED draining
    /\ wakes' = [wakes EXCEPT ![t] = Waiting]
    /\ room' = [w \in Task |-> 0]
    /\ Goto(t, "turn")
    /\ UNCHANGED <<lock, dead, completion, awake, ticketVars, seen, reply,
                   first, stranded, outcome>>
    /\ DrainKeeps

\* Wakes the waiters it took, outside the mutex.
WakeNext(t) ==
    /\ pc[t] = "turn" \/ (pc[t] = "strand" /\ stranded[t] = {})
    /\ \E w \in wakes[t] :
         /\ WakeWaiter(w)
         /\ wakes' = [wakes EXCEPT ![t] = @ \ {w}]
    /\ UNCHANGED <<queueVars, machineVars, pc, op, completion, ticketVars,
                   job, seen, reply, first, stranded, outcome, orderVars>>

\* drain returned; offer answers Done(accepted), or Queued(ticket) when the
\* caller's own event went behind older ones.
\* Slip: it answers for the first event it ran, whoever's that was.
AnswerFirst(t) ==
    /\ Answer(t, IF first[t] THEN "true" ELSE "false")
    /\ first' = [first EXCEPT ![t] = FALSE]
    /\ seen' = [seen EXCEPT ![t] = FALSE]
DrainAnswer(t) ==
    /\ Answer(t, IF ticket[t] # "none" THEN "queued"
                 ELSE IF first[t] THEN "true" ELSE "false")
    /\ first' = [first EXCEPT ![t] = FALSE]
    /\ seen' = [seen EXCEPT ![t] = FALSE]

\* The Unwinding guard is dropped: it acts only on a panicking thread.
DrainReturn(t) ==
    /\ pc[t] = "turn"
    /\ wakes[t] = {}
    /\ job[t] = Nobody
    /\ \/ t \notin Unwound /\ DrainAnswer(t)
       \/ t \in Unwound /\ Goto(t, "probe") /\ UNCHANGED <<completion, first, seen>>
    /\ UNCHANGED <<queueVars, lock, dead, awake, ticketVars, job, reply,
                   wakes, stranded, outcome>>
    /\ DrainKeeps

drain(t) ==
    \/ Skip(t) \/ StepBegin(t) \/ StepReturn(t) \/ Resolve(t)
    \/ NextEvent(t) \/ WakeNext(t) \/ DrainReturn(t)

-----------------------------------------------------------------------------
(* Unwinding: the guards of Pending and of drain, dropped in this order.   *)

\* Slip: the event's caller is forgotten.
PendingForgets(t) ==
    /\ pc[t] = "unwind"
    /\ Goto(t, "probe")
    /\ UNCHANGED <<queueVars, lock, dead, completion, awake, ticketVars,
                   drainVars, outcome>>
    /\ DrainKeeps

\* Pending's Drop resolves the panicking event's caller to false.
PendingDrop(t) ==
    /\ pc[t] = "unwind"
    /\ \/ ticket[job[t]] = "none" /\ UNCHANGED <<ticketVars, awake>>
       \/ ticket[job[t]] # "none" /\ ResolveTicket(job[t], FALSE)
    /\ Goto(t, "probe")
    /\ UNCHANGED <<queueVars, lock, dead, completion, drainVars, outcome>>
    /\ DrainKeeps

\* Unwinding's Drop: is the machine in X?
Probe(t) ==
    /\ pc[t] = "probe"
    /\ lock = Nobody
    /\ seen' = [seen EXCEPT ![t] = dead]
    /\ Goto(t, "handover")
    /\ UNCHANGED <<queueVars, lock, dead, completion, awake, ticketVars, job,
                   reply, first, wakes, stranded, outcome>>
    /\ DrainKeeps

Range(s) == {s[i] : i \in DOMAIN s}

\* Slip: the callers waiting for room are taken and not woken.
HandoverSilently(t) ==
    /\ pc[t] = "handover"
    /\ draining' = FALSE
    /\ terminated' = (terminated \/ seen[t])
    /\ events' = IF terminated' THEN << >> ELSE events
    /\ stranded' = [stranded EXCEPT ![t] =
                       IF terminated' THEN Range(events) ELSE {}]
    /\ room' = [w \in Task |-> 0]
    /\ Goto(t, "strand")
    /\ UNCHANGED <<lock, dead, completion, awake, ticketVars, job, seen,
                   reply, first, wakes, outcome>>
    /\ DrainKeeps

\* Its critical section: stop draining, and empty a closed queue.
Handover(t) ==
    /\ pc[t] = "handover"
    /\ draining' = FALSE
    /\ terminated' = (terminated \/ seen[t])
    /\ events' = IF terminated' THEN << >> ELSE events
    /\ stranded' = [stranded EXCEPT ![t] =
                       IF terminated' THEN Range(events) ELSE {}]
    /\ wakes' = [wakes EXCEPT ![t] = Waiting]
    /\ room' = [w \in Task |-> 0]
    /\ Goto(t, "strand")
    /\ UNCHANGED <<lock, dead, completion, awake, ticketVars, job, seen,
                   reply, first, outcome>>
    /\ DrainKeeps

\* Resolves the events it stranded; WakeNext then wakes the waiters.
ResolveStranded(t) ==
    /\ pc[t] = "strand"
    /\ \E u \in stranded[t] :
         /\ ResolveTicket(u, FALSE)
         /\ stranded' = [stranded EXCEPT ![t] = @ \ {u}]
    /\ UNCHANGED <<queueVars, lock, dead, pc, completion, job, seen, reply,
                   first, wakes, outcome>>
    /\ DrainKeeps

\* A panic goes on unwinding through the caller; a drain that was merely
\* called on an unwinding thread returns.
Unwind(t) ==
    /\ pc[t] = "strand"
    /\ stranded[t] = {} /\ wakes[t] = {}
    /\ \/ job[t] = Nobody /\ DrainAnswer(t)
       \/ job[t] # Nobody /\ Goto(t, "panicked") /\ UNCHANGED <<completion, first, seen>>
    /\ UNCHANGED <<queueVars, lock, dead, awake, ticketVars, job, reply,
                   wakes, stranded, outcome>>
    /\ DrainKeeps

unwinding(t) ==
    \/ PendingDrop(t) \/ Probe(t) \/ Handover(t)
    \/ ResolveStranded(t) \/ Unwind(t)

-----------------------------------------------------------------------------
(* FifoCompletion: poll and drop.                                          *)

CompletionKeeps == UNCHANGED <<events, draining, terminated, machineVars,
                               drainVars, outcome, orderVars>>

\* Waiter::update.
update(t) == waiterWaker' = [waiterWaker EXCEPT ![t] = TRUE]

\* poll takes the state out, leaving Done(false), and a waiting completion
\* stores the waker of this poll before it offers its event again.
PollRoom(t) ==
    /\ pc[t] = "await"
    /\ completion[t] = "room"
    /\ awake' = [awake EXCEPT ![t] = FALSE]
    /\ completion' = [completion EXCEPT ![t] = "false"]
    /\ update(t)
    /\ op' = [op EXCEPT ![t] = "poll"]
    /\ Goto(t, "offer")
    /\ UNCHANGED <<room, ticketVars>>
    /\ CompletionKeeps

\* Withdraws the waiter after an answer, under the queue mutex.
forget(t) ==
    /\ pc[t] = "forget"
    /\ room' = [room EXCEPT ![t] = 0]
    /\ Goto(t, "polled")
    /\ UNCHANGED <<op, completion, awake, ticketVars, waiterWaker>>
    /\ CompletionKeeps

\* The match at the end of poll: Ready, or Ticket::poll under its mutex.
PollEnd(t) ==
    \/ /\ completion[t] \in {"true", "false"}
       /\ Goto(t, "ready")
       /\ UNCHANGED <<completion, ticketWaker>>
    \/ /\ completion[t] = "queued" /\ ticket[t] # "open"
       /\ completion' = [completion EXCEPT ![t] = ticket[t]]
       /\ Goto(t, "ready")
       /\ UNCHANGED ticketWaker
    \/ /\ completion[t] = "queued" /\ ticket[t] = "open"
       /\ ticketWaker' = [ticketWaker EXCEPT ![t] = TRUE]
       /\ Goto(t, "await")
       /\ UNCHANGED completion

PollSettled(t) ==
    /\ pc[t] = "await"
    /\ awake' = [awake EXCEPT ![t] = FALSE]
    /\ PollEnd(t)
    /\ UNCHANGED <<room, op, ticket, waiterWaker>>
    /\ CompletionKeeps

PollAnswered(t) ==
    /\ pc[t] = "polled"
    /\ PollEnd(t)
    /\ UNCHANGED <<room, op, awake, ticket, waiterWaker>>
    /\ CompletionKeeps

Poll(t) == PollRoom(t) \/ PollSettled(t)

\* FifoCompletion's Drop withdraws a waiting completion.
DropCompletion(t) ==
    /\ t \in Dropper
    /\ pc[t] = "await"
    /\ room' = IF completion[t] = "room" THEN [room EXCEPT ![t] = 0] ELSE room
    /\ Goto(t, "dropped")
    /\ UNCHANGED <<op, completion, awake, ticketVars, waiterWaker>>
    /\ CompletionKeeps

-----------------------------------------------------------------------------
\* Scheduler::inspect runs a state query under the machine's mutex.
inspect(r) ==
    /\ \/ lock = Nobody /\ lock' = r
       \/ lock = r /\ lock' = Nobody
    /\ UNCHANGED <<queueVars, dead, pc, op, completion, awake, ticketVars,
                   waiterWaker, drainVars, outcome, orderVars>>

\* What the thread or executor running a task does without being asked.
Step(t) == \/ offer(t) \/ drain(t) \/ unwinding(t)
           \/ forget(t) \/ PollAnswered(t)

Next ==
    \/ \E t \in Task : Step(t) \/ StepPanic(t) \/ Poll(t) \/ DropCompletion(t)
    \/ \E r \in Reader : inspect(r)

Spec == Init /\ [][Next]_vars

\* Threads inside the scheduler keep running, steps return or panic, queries
\* end, and an executor polls a future whose waker was called.  Nobody has to
\* submit, to drop, to poll unasked or to panic.
Fairness ==
    /\ \A t \in Task : WF_vars(pc[t] # "start" /\ (Step(t) \/ StepPanic(t)))
    /\ \A t \in Task : WF_vars(awake[t] /\ Poll(t))
    /\ \A r \in Reader : WF_vars(lock = r /\ inspect(r))

FairSpec == Spec /\ Fairness

-----------------------------------------------------------------------------
(* Properties.                                                             *)

Labels      == {"start", "offer", "turn", "step", "resolve", "next", "unwind",
                "probe", "handover", "strand", "forget", "await", "polled",
                "ready", "dropped", "rejected", "panicked"}
Completions == {"none", "true", "false", "queued", "room"}
Tickets     == {"none", "open", "true", "false"}
Outcomes    == {"unrun", "running", "true", "false", "panicked"}

TypeOK ==
    /\ events \in Seq(Task)
    /\ Len(events) <= N
    /\ draining \in BOOLEAN
    /\ terminated \in BOOLEAN
    /\ room \in [Task -> Nat]
    /\ lock \in Task \union Reader \union {Nobody}
    /\ dead \in BOOLEAN
    /\ pc \in [Task -> Labels]
    /\ op \in [Task -> {"submit", "try", "poll"}]
    /\ completion \in [Task -> Completions]
    /\ awake \in [Task -> BOOLEAN]
    /\ ticket \in [Task -> Tickets]
    /\ ticketWaker \in [Task -> BOOLEAN]
    /\ waiterWaker \in [Task -> BOOLEAN]
    /\ job \in [Task -> Task \union {Nobody}]
    /\ seen \in [Task -> BOOLEAN]
    /\ reply \in [Task -> BOOLEAN]
    /\ first \in [Task -> BOOLEAN]
    /\ wakes \in [Task -> SUBSET Task]
    /\ stranded \in [Task -> SUBSET Task]
    /\ outcome \in [Task -> Outcomes]
    /\ pos \in [Task -> Nat]
    /\ issued \in Nat

\* The task set `draining` and has not given it back.
Owns(t) ==
    /\ pc[t] \in {"turn", "step", "resolve", "next", "unwind", "probe", "handover"}
    /\ job[t] # Nobody

\* StrictOrdering::SINGLE_CONSUMER and the comment on drain, "Only the caller
\* that set `draining` gets here": one task drains, and `draining` says so
\* exactly as long as it does, panics included.
SingleConsumer ==
    /\ \A t, u \in Task : Owns(t) /\ Owns(u) => t = u
    /\ draining <=> \E t \in Task : Owns(t)

\* StrictOrdering::GUARANTEES_FIFO and RUN_TO_COMPLETION: an event has started
\* only if every event accepted before it has finished.
RunsInOrder ==
    \A t, u \in Task :
        0 < pos[t] /\ pos[t] < pos[u] /\ outcome[u] # "unrun"
            => outcome[t] \notin {"unrun", "running"}

\* The event's step was never called, and the cell is closed.
Unreachable(t) == outcome[t] = "unrun" /\ (dead \/ terminated)

\* A caller told `true` had its event accepted by the machine; one told
\* `false` had it rejected, saw it panic, or came too late for a machine in X.
ToldTheTruth ==
    \A t \in Task :
        LET told == IF pc[t] = "ready" THEN completion[t] ELSE ticket[t]
        IN  /\ told = "true" => outcome[t] = "true"
            /\ told = "false" => \/ outcome[t] \in {"false", "panicked"}
                                 \/ Unreachable(t)

\* Someone is bound to resolve every open ticket: it is in the queue, or the
\* event of a drainer that has not resolved it, or stranded by an unwinding
\* one.  Pending's comment: "so a panicking step never leaves a caller waiting".
TicketsHeld ==
    \A t \in Task : ticket[t] = "open" =>
        \/ t \in Range(events)
        \/ \E u \in Task :
             \/ t \in stranded[u] /\ pc[u] = "strand"
             \/ job[u] = t /\ pc[u] \in {"turn", "step", "resolve", "unwind"}

\* A completion that sleeps for room is registered, or about to be woken by
\* the drainer that took its registration, and its waker is in place: an
\* update of the waker that races the wake is not lost.
NoLostWakeup ==
    \A t \in Task :
        pc[t] = "await" /\ completion[t] = "room" /\ ~awake[t] =>
            /\ waiterWaker[t]
            /\ \/ room[t] > 0
               \/ \E u \in Task : t \in wakes[u] /\ pc[u] \in {"turn", "strand"}

\* A completion that sleeps on its ticket finds its waker there.
NoLostTicketWakeup ==
    \A t \in Task :
        pc[t] = "await" /\ completion[t] = "queued" /\ ~awake[t] =>
            ticket[t] = "open" /\ ticketWaker[t]

\* "One registration per completion waiting for room", none for a completion
\* that was dropped or answered, and none while nobody drains: no waiter waits
\* for a drainer that does not exist.
RoomIsExact ==
    \A t \in Task :
        /\ room[t] <= 1
        /\ room[t] = 1 => /\ draining
                          /\ \/ pc[t] = "await" /\ completion[t] = "room"
                             \/ pc[t] \in {"offer", "forget"} /\ op[t] = "poll"

\* The cell implements the contract.  The event a drainer popped but has not
\* started is still the front of the line.
InHand == {job[t] : t \in {u \in Task : pc[u] = "turn" /\ job[u] # Nobody}}
InStep == {job[t] : t \in {u \in Task : pc[u] = "step"}}
Only(S) == IF S = {} THEN << >> ELSE <<CHOOSE e \in S : TRUE>>

Contract == INSTANCE StrictOrdering WITH
    Event   <- Task,
    Faulty  <- {t \in Task : "panic" \in May[t]},
    line    <- Only(InHand) \o events,
    running <- IF InStep = {} THEN Nobody ELSE CHOOSE e \in InStep : TRUE,
    closed  <- dead \/ terminated,
    verdict <- [t \in Task |->
                  IF outcome[t] \in {"true", "false", "panicked"} THEN outcome[t]
                  ELSE IF pos[t] > 0 THEN "accepted" ELSE "unknown"]
ImplementsContract == Contract!Spec

\* Its event was left queued by a panic, and nobody has offered one since.
LeftByPanic(t) ==
    /\ pc[t] = "await" /\ completion[t] = "queued"
    /\ t \in Range(events) /\ ~draining
    /\ \E u \in Task : outcome[u] = "panicked"

\* Every call comes to an end: a submitted event's caller learns its result,
\* unless it was turned away or stopped listening.  The guards of a panicking
\* drain "hand draining to the next caller, which runs what is still queued
\* first": an event left queued may wait for that caller and for nothing else,
\* each time that it is left, and callers that wait for room are such callers.
EveryCallEnds ==
    \A t \in Task :
        pc[t] # "start" ~>
            pc[t] \in {"ready", "dropped", "rejected", "panicked"} \/ LeftByPanic(t)
=============================================================================
