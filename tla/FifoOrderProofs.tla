--------------------------- MODULE FifoOrderProofs ---------------------------
(***************************************************************************)
(* Events run in the order of their acceptance, one at a time and each to  *)
(* completion, and callers are told what became of them: for every set of  *)
(* tasks, every capacity and every machine, unless a task submits from a   *)
(* destructor of an unwinding thread (Unwound): there the drain's guard    *)
(* takes a normal return for a panic, and hands over a queue that another  *)
(* task may be draining.                                                   *)
(*                                                                         *)
(* The invariant follows an event from its number through the queue and    *)
(* the drainer's hand to its outcome and its caller's answer; the proof    *)
(* sorts the steps of a task into five kinds by what they do to it.  From  *)
(* the same invariant, the cell implements StrictOrdering.                 *)
(***************************************************************************)
EXTENDS FifoSchedulerProofs

\* The cell turns callers away, or soon will.
Closed == dead \/ terminated

\* While nobody drains, a machine in X closed the cell; while somebody does,
\* only a machine in X closes it, and the drainer knows.
Closing ==
    /\ ~draining /\ dead => terminated
    /\ draining /\ terminated => dead
    /\ \A d \in Task :
         /\ pc[d] \in {"turn", "resolve", "next", "handover"} /\ job[d] # Nobody => (seen[d] <=> dead)
         /\ pc[d] = "step" => ~dead

\* Numbers are handed out in order, to events that were accepted.
Numbering ==
    \A t \in Task :
        /\ pos[t] <= issued
        /\ Offering(t) \/ (pc[t] = "await" /\ completion[t] = "room") => pos[t] = 0
        /\ pos[t] = 0 => ticket[t] = "none" /\ outcome[t] = "unrun"

\* The events of q come in the order of their numbers.
Ascending(q, p) == \A i, j \in DOMAIN q : i < j => p[q[i]] < p[q[j]]

\* The queue holds accepted events that have not run, in order.
Queue ==
    /\ Ascending(events, pos)
    /\ \A t \in Range(events) : pos[t] > 0 /\ outcome[t] = "unrun" /\ ticket[t] # "none"

\* The event in hand: what became of it, by where the drainer is.
HandLabels == {"turn", "step", "resolve", "unwind"}
HandAt(d) ==
    /\ pos[job[d]] > 0
    /\ ticket[job[d]] = "none" => job[d] = d
    /\ pc[d] = "turn" => /\ outcome[job[d]] = "unrun"
                         /\ \A e \in Range(events) : pos[job[d]] < pos[e]
    /\ pc[d] = "step" => outcome[job[d]] = "running"
    /\ pc[d] = "resolve" => outcome[job[d]] = IF reply[d] THEN "true" ELSE "false"
    /\ pc[d] = "unwind" => outcome[job[d]] = "panicked"
Hand == \A d \in Task : pc[d] \in HandLabels /\ job[d] # Nobody => HandAt(d)

\* Stranded events never run.
Strand ==
    \A d \in Task : pc[d] = "strand" =>
        /\ job[d] # Nobody
        /\ \A t \in stranded[d] : pos[t] > 0 /\ outcome[t] = "unrun" /\ Closed

\* What has started was accepted before all that has not.
Order ==
    /\ \A t, u \in Task :
         outcome[t] = "unrun" /\ pos[t] > 0 /\ outcome[u] # "unrun" => pos[u] < pos[t]
    /\ \A t, u \in Task :
         outcome[t] = "running" /\ outcome[u] # "unrun" => pos[u] <= pos[t]
    /\ \A t \in Task :
         outcome[t] = "running" => \E d \in Task : pc[d] = "step" /\ job[d] = t
    /\ \A t \in Task :
         outcome[t] = "unrun" /\ pos[t] > 0 /\ ~Closed =>
             t \in Range(events) \/ \E d \in Task : pc[d] = "turn" /\ job[d] = t

\* The answer b is true of task t's event.
TrueOf(t, b) ==
    /\ b = "true" => outcome[t] = "true"
    /\ b = "false" => outcome[t] \in {"false", "panicked"} \/ Unreachable(t)

\* The drainer's own event ran, and it remembers what came of it.
OwnDone(d) == outcome[d] \in {"true", "false"} /\ (first[d] <=> outcome[d] = "true")

Answers ==
    \A t \in Task :
        /\ TrueOf(t, ticket[t])
        /\ pc[t] \in {"forget", "await", "polled", "ready"} => TrueOf(t, completion[t])
        /\ pc[t] \in {"turn", "step", "resolve", "next"} /\ ticket[t] = "none" =>
               OwnDone(t) \/ (job[t] = t /\ pc[t] # "next")

-----------------------------------------------------------------------------
(* What each step leaves alone.                                            *)

\* The drainer is alone.
LEMMA Alone ==
    ASSUME Consumer, NEW s \in Task, pc[s] \in DrainLabels, pc[s] = "turn" => job[s] # Nobody
    PROVE  /\ draining /\ job[s] # Nobody
           /\ \A d \in Task : pc[d] \in DrainLabels /\ job[d] # Nobody => d = s
BY DEF Consumer, SingleConsumer, Owns, DrainLabels

\* Nobody has an event in hand while nobody drains.
LEMMA Nobodys ==
    ASSUME Consumer, ~draining
    PROVE  \A d \in Task : pc[d] \in DrainLabels => pc[d] = "turn" /\ job[d] = Nobody
BY DEF Consumer, SingleConsumer, Owns, DrainLabels

\* Steps that neither accept, run nor discard an event.
Quiet(s) ==
    \/ OfferClosed(s) \/ OfferFull(s) \/ WakeNext(s) \/ DrainReturn(s) \/ Probe(s) \/ Unwind(s)
    \/ Poll(s) \/ PollAnswered(s) \/ forget(s) \/ DropCompletion(s)

\* A quiet step leaves the queue, the tickets and the outcomes alone.
LEMMA QuietKeeps ==
    ASSUME NEW s \in Task, Quiet(s)
    PROVE  UNCHANGED <<events, draining, terminated, dead, pos, issued, outcome, ticket, job,
                       reply, stranded>>
<1> USE DEF queueVars, machineVars, orderVars, ticketVars, drainVars
<1>1. CASE OfferClosed(s) \/ OfferFull(s)
  BY <1>1 DEF OfferClosed, OfferFull, OfferKeeps
<1>2. CASE WakeNext(s) \/ DrainReturn(s) \/ Probe(s) \/ Unwind(s)
  BY <1>2 DEF WakeNext, DrainReturn, Probe, Unwind, DrainKeeps
<1>3. CASE Poll(s) \/ PollAnswered(s) \/ forget(s) \/ DropCompletion(s)
  BY <1>3 DEF Poll, PollRoom, PollSettled, PollAnswered, forget, DropCompletion, CompletionKeeps
<1>4. QED
  BY <1>1, <1>2, <1>3 DEF Quiet

\* Where a quiet step leads, and what else it may touch.
LEMMA QuietMoves ==
    ASSUME TypeOK, Unwound = {}, Strand, NEW s \in Task, Quiet(s)
    PROVE  \E l : /\ pc' = [pc EXCEPT ![s] = l]
                  /\ \A d \in Task \ {s} : /\ seen'[d] = seen[d] /\ first'[d] = first[d]
                                           /\ completion'[d] = completion[d]
                  /\ \/ l = pc[s] /\ UNCHANGED <<seen, first, completion>>
                     \/ l \in {"forget", "await", "rejected"} /\ pc[s] \in {"start", "offer"}
                     \/ l \in {"forget", "await"} /\ pc[s] = "turn" /\ job[s] = Nobody
                     \/ l = "handover" /\ pc[s] = "probe" /\ seen'[s] = dead
                     \/ l = "panicked" /\ pc[s] = "strand"
                     \/ /\ l \in {"offer", "polled", "ready", "await", "dropped"}
                        /\ pc[s] \in {"await", "forget", "polled"}
<1> USE DEF Goto, drainVars
<1>t. /\ seen \in [Task -> BOOLEAN] /\ first \in [Task -> BOOLEAN]
      /\ completion \in [Task -> Completions] /\ pc \in [Task -> Labels]
  BY DEF TypeOK
<1>1. CASE OfferClosed(s) \/ OfferFull(s)
  <2>1. PICK l \in {"forget", "await", "rejected"} : pc' = [pc EXCEPT ![s] = l]
    BY <1>1 DEF OfferClosed, OfferFull, Answer
  <2>2. pc[s] \in {"start", "offer"} /\ UNCHANGED <<seen, first>>
    BY <1>1 DEF OfferClosed, OfferFull, Offering, OfferKeeps
  <2>3. \A d \in Task \ {s} : completion'[d] = completion[d]
    BY <1>1, <1>t DEF OfferClosed, OfferFull, Answer
  <2>4. QED
    BY <2>1, <2>2, <2>3
<1>2. CASE WakeNext(s)
  <2>1. UNCHANGED <<pc, seen, first, completion>>
    BY <1>2 DEF WakeNext
  <2>2. pc' = [pc EXCEPT ![s] = pc[s]]
    BY <1>t, <2>1
  <2>3. QED
    BY <2>1, <2>2
<1>3. CASE DrainReturn(s)
  <2>1. PICK l \in {"forget", "await"} : pc' = [pc EXCEPT ![s] = l]
    BY <1>3 DEF DrainReturn, DrainAnswer, Answer
  <2>2. pc[s] = "turn" /\ job[s] = Nobody
    BY <1>3 DEF DrainReturn
  <2>3. \A d \in Task \ {s} : /\ seen'[d] = seen[d] /\ first'[d] = first[d]
                              /\ completion'[d] = completion[d]
    BY <1>3, <1>t DEF DrainReturn, DrainAnswer, Answer
  <2>4. QED
    BY <2>1, <2>2, <2>3
<1>4. CASE Probe(s)
  BY <1>4, <1>t DEF Probe
<1>5. CASE Unwind(s)
  BY <1>5 DEF Unwind, Strand
<1>6. CASE Poll(s) \/ PollAnswered(s) \/ forget(s) \/ DropCompletion(s)
  <2>1. PICK l \in {"offer", "polled", "ready", "await", "dropped"} : pc' = [pc EXCEPT ![s] = l]
    BY <1>6 DEF Poll, PollRoom, PollSettled, PollEnd, PollAnswered, forget, DropCompletion
  <2>2. pc[s] \in {"await", "forget", "polled"} /\ UNCHANGED <<seen, first>>
    BY <1>6 DEF Poll, PollRoom, PollSettled, PollAnswered, forget, DropCompletion, CompletionKeeps
  <2>3. \A d \in Task \ {s} : completion'[d] = completion[d]
    BY <1>6, <1>t DEF Poll, PollRoom, PollSettled, PollEnd, PollAnswered, forget, DropCompletion
  <2>4. QED
    BY <2>1, <2>2, <2>3
<1>7. QED
  BY <1>1, <1>2, <1>3, <1>4, <1>5, <1>6 DEF Quiet

\* Steps that accept an event.
Accepting(s) == OfferQueued(s) \/ OfferBehind(s) \/ OfferIdle(s)

\* Accepting touches the accepting task's number and ticket only.
LEMMA AcceptingKeeps ==
    ASSUME TypeOK, NEW s \in Task, Accepting(s)
    PROVE  /\ UNCHANGED <<dead, terminated, outcome, first, reply, stranded>>
           /\ ~terminated /\ pc[s] \in {"start", "offer"}
           /\ issued' = issued + 1 /\ pos' = [pos EXCEPT ![s] = issued + 1]
           /\ \A t \in Task \ {s} : /\ job'[t] = job[t] /\ seen'[t] = seen[t]
                                    /\ ticket'[t] = ticket[t] /\ completion'[t] = completion[t]
<1>t. /\ seen \in [Task -> BOOLEAN] /\ ticket \in [Task -> Tickets]
      /\ completion \in [Task -> Completions] /\ job \in [Task -> Task \union {Nobody}]
  BY DEF TypeOK
<1>1. CASE OfferQueued(s)
  BY <1>t, <1>1 DEF OfferQueued, OfferKeeps, Accept, Answer, Offering, machineVars
<1>2. CASE OfferBehind(s)
  BY <1>t, <1>2 DEF OfferBehind, StartDrain, OfferKeeps, Accept, Offering, machineVars
<1>3. CASE OfferIdle(s)
  BY <1>t, <1>3 DEF OfferIdle, StartDrain, OfferKeeps, Accept, Offering, machineVars
<1>4. QED
  BY <1>1, <1>2, <1>3 DEF Accepting

\* Steps that resolve an event's caller.
Resolving(s) == Skip(s) \/ Resolve(s) \/ PendingDrop(s) \/ ResolveStranded(s)

\* Resolving a caller leaves the queue and the outcomes alone.
LEMMA ResolvingKeeps ==
    ASSUME NEW s \in Task, Resolving(s)
    PROVE  UNCHANGED <<events, draining, terminated, dead, pos, issued, outcome, job, seen,
                       completion>>
<1> USE DEF queueVars, drainVars, orderVars
<1>1. CASE Skip(s) \/ Resolve(s)
  BY <1>1 DEF Skip, Resolve, DrainKeeps
<1>2. CASE PendingDrop(s) \/ ResolveStranded(s)
  BY <1>2 DEF PendingDrop, ResolveStranded, DrainKeeps
<1>3. QED
  BY <1>1, <1>2 DEF Resolving

\* Steps of the machine.
Running(s) == StepBegin(s) \/ StepReturn(s) \/ StepPanic(s)

\* A step of the machine happens outside the queue mutex.
LEMMA RunningKeeps ==
    ASSUME NEW s \in Task, Running(s)
    PROVE  UNCHANGED <<events, draining, terminated, pos, issued, job, first, stranded,
                       ticket, completion>>
BY DEF Running, StepBegin, StepReturn, StepPanic, DrainKeeps, queueVars, ticketVars, drainVars,
       orderVars

-----------------------------------------------------------------------------
(* Closing.                                                                *)

\* A step of task s that neither closes the cell nor starts or stops a drain.
LEMMA ClosingKept ==
    ASSUME TypeOK, Closing, NEW s \in Task, NEW l, pc' = [pc EXCEPT ![s] = l],
           UNCHANGED <<draining, terminated, dead>>,
           \A d \in Task \ {s} : job'[d] = job[d] /\ seen'[d] = seen[d],
           l \in {"turn", "resolve", "next", "handover"} /\ job'[s] # Nobody => (seen'[s] <=> dead),
           l = "step" => ~dead
    PROVE  Closing'
<1>1. pc \in [Task -> Labels]
  BY DEF TypeOK
<1>2. ASSUME NEW d \in Task
      PROVE  /\ pc'[d] \in {"turn", "resolve", "next", "handover"} /\ job'[d] # Nobody =>
                    (seen'[d] <=> dead')
             /\ pc'[d] = "step" => ~dead'
  <2>1. CASE d = s
    BY <1>1, <2>1
  <2>2. CASE d # s
    BY <1>1, <2>2 DEF Closing
  <2>3. QED
    BY <2>1, <2>2
<1>3. (~draining /\ dead => terminated)' /\ (draining /\ terminated => dead)'
  BY DEF Closing
<1>4. QED
  BY <1>2, <1>3 DEF Closing

\* Quiet steps do not close the cell, and a probe reads whether the machine is
\* in X.
LEMMA QuietClosing ==
    ASSUME Unwound = {}, TypeOK, Closing, Strand, NEW s \in Task, Quiet(s)
    PROVE  Closing'
<1>1. UNCHANGED <<draining, terminated, dead, job>>
  BY QuietKeeps
<1>2. PICK l : /\ pc' = [pc EXCEPT ![s] = l]
               /\ \A d \in Task \ {s} : seen'[d] = seen[d]
               /\ \/ l = pc[s] /\ UNCHANGED seen
                  \/ l \in {"forget", "await", "rejected", "panicked", "offer", "polled", "ready",
                            "dropped"}
                  \/ l = "handover" /\ seen'[s] = dead
  BY QuietMoves
<1>3. (l \in {"turn", "resolve", "next", "handover"} /\ job'[s] # Nobody => (seen'[s] <=> dead))
      /\ (l = "step" => ~dead)
  BY <1>1, <1>2 DEF Closing
<1>4. QED
  BY <1>1, <1>2, <1>3, ClosingKept

\* A drain starts only on an open cell, whose machine is not in X.
LEMMA AcceptingClosing ==
    ASSUME TypeOK, Consumer, Closing, NEW s \in Task, Accepting(s)
    PROVE  Closing'
<1> USE DEF Goto
<1>t. /\ seen \in [Task -> BOOLEAN] /\ pc \in [Task -> Labels]
  BY DEF TypeOK
<1>k. /\ UNCHANGED <<dead, terminated>> /\ ~terminated
      /\ \A t \in Task \ {s} : job'[t] = job[t] /\ seen'[t] = seen[t]
  BY AcceptingKeeps
<1>1. CASE OfferQueued(s)
  <2>1. PICK l \in {"forget", "await"} : pc' = [pc EXCEPT ![s] = l]
    BY <1>1 DEF OfferQueued, Answer
  <2>2. UNCHANGED draining
    BY <1>1 DEF OfferQueued
  <2>3. QED
    BY <1>k, <2>1, <2>2, ClosingKept
<1>2. CASE OfferBehind(s) \/ OfferIdle(s)
  <2>1. /\ pc' = [pc EXCEPT ![s] = "turn"] /\ seen' = [seen EXCEPT ![s] = FALSE]
        /\ ~draining /\ draining'
    BY <1>2 DEF OfferBehind, OfferIdle, StartDrain
  <2>2. ~dead
    BY <1>k, <2>1 DEF Closing
  <2>3. ASSUME NEW d \in Task
        PROVE  /\ pc'[d] \in {"turn", "resolve", "next", "handover"} /\ job'[d] # Nobody =>
                      (seen'[d] <=> dead')
               /\ pc'[d] = "step" => ~dead'
    <3>1. CASE d = s
      BY <1>t, <1>k, <2>1, <2>2, <3>1
    <3>2. CASE d # s
      BY <1>t, <1>k, <2>1, <3>2 DEF Closing
    <3>3. QED
      BY <3>1, <3>2
  <2>4. QED
    BY <1>k, <2>1, <2>3 DEF Closing
<1>3. QED
  BY <1>1, <1>2 DEF Accepting

\* Resolving a caller does not close the cell.
LEMMA ResolvingClosing ==
    ASSUME TypeOK, Closing, NEW s \in Task, Resolving(s)
    PROVE  Closing'
<1> USE DEF Goto
<1>k. UNCHANGED <<draining, terminated, dead, job, seen>>
  BY ResolvingKeeps
<1>1. CASE Skip(s)
  <2>1. pc' = [pc EXCEPT ![s] = "next"] /\ pc[s] = "turn" /\ job[s] # Nobody
    BY <1>1 DEF Skip, HasTurn
  <2>2. seen[s] <=> dead
    BY <2>1 DEF Closing
  <2>3. QED
    BY <1>k, <2>1, <2>2, ClosingKept
<1>2. CASE Resolve(s)
  <2>1. pc' = [pc EXCEPT ![s] = "next"] /\ pc[s] = "resolve"
    BY <1>2 DEF Resolve
  <2>2. job[s] # Nobody => (seen[s] <=> dead)
    BY <2>1 DEF Closing
  <2>3. QED
    BY <1>k, <2>1, <2>2, ClosingKept
<1>3. CASE PendingDrop(s)
  <2>1. pc' = [pc EXCEPT ![s] = "probe"]
    BY <1>3 DEF PendingDrop
  <2>2. QED
    BY <1>k, <2>1, ClosingKept
<1>4. CASE ResolveStranded(s)
  <2>1. UNCHANGED pc
    BY <1>4 DEF ResolveStranded
  <2>2. QED
    BY <1>k, <2>1 DEF Closing
<1>5. QED
  BY <1>1, <1>2, <1>3, <1>4 DEF Resolving

\* After a step the drainer notes whether the machine is in X.
LEMMA RunningClosing ==
    ASSUME TypeOK, Consumer, Closing, NEW s \in Task, Running(s)
    PROVE  Closing'
<1> USE DEF Goto
<1>t. /\ seen \in [Task -> BOOLEAN] /\ pc \in [Task -> Labels]
  BY DEF TypeOK
<1>k. UNCHANGED <<draining, terminated, job>>
  BY RunningKeeps
<1>1. CASE StepBegin(s)
  <2>1. /\ pc' = [pc EXCEPT ![s] = "step"] /\ UNCHANGED <<seen, dead>>
        /\ pc[s] = "turn" /\ job[s] # Nobody /\ ~seen[s]
    BY <1>1 DEF StepBegin, HasTurn, drainVars
  <2>2. ~dead
    BY <2>1 DEF Closing
  <2>3. QED
    BY <1>k, <2>1, <2>2, ClosingKept
<1>2. CASE StepReturn(s) \/ StepPanic(s)
  <2>1. PICK l \in {"resolve", "unwind"} : pc' = [pc EXCEPT ![s] = l]
    BY <1>2 DEF StepReturn, StepPanic
  <2>2. /\ pc[s] = "step"
        /\ \A d \in Task \ {s} : seen'[d] = seen[d]
        /\ l = "resolve" => seen'[s] = dead'
    BY <1>2, <1>t, <2>1 DEF StepReturn, StepPanic, NoteX, drainVars
  <2>3. /\ draining /\ ~terminated
        /\ \A d \in Task : pc[d] \in DrainLabels /\ job[d] # Nobody => d = s
    BY <2>2, Alone DEF DrainLabels, Closing
  <2>4. ASSUME NEW d \in Task
        PROVE  /\ pc'[d] \in {"turn", "resolve", "next", "handover"} /\ job'[d] # Nobody =>
                      (seen'[d] <=> dead')
               /\ pc'[d] = "step" => ~dead'
    <3>1. CASE d = s
      BY <1>t, <2>1, <2>2, <3>1
    <3>2. CASE d # s
      <4>1. pc'[d] = pc[d] /\ ~(pc[d] \in DrainLabels /\ job[d] # Nobody)
        BY <1>t, <2>1, <2>3, <3>2
      <4>2. pc[d] # "step"
        BY <4>1 DEF Consumer, DrainLabels
      <4>3. QED
        BY <1>k, <4>1, <4>2 DEF DrainLabels
    <3>3. QED
      BY <3>1, <3>2
  <2>5. QED
    BY <1>k, <2>3, <2>4 DEF Closing
<1>3. QED
  BY <1>1, <1>2 DEF Running

\* The drain loop closes the cell exactly when its machine is in X.
LEMMA NextEventClosing ==
    ASSUME TypeOK, Consumer, Closing, NEW s \in Task, NextEvent(s)
    PROVE  Closing'
<1>t. pc \in [Task -> Labels] /\ job \in [Task -> Task \union {Nobody}]
  BY DEF TypeOK
<1>1. /\ pc' = [pc EXCEPT ![s] = "turn"] /\ pc[s] = "next" /\ UNCHANGED <<dead, seen>>
      /\ terminated' = seen[s]
  BY DEF NextEvent, Goto
<1>2. \A d \in Task \ {s} : job'[d] = job[d]
  BY <1>t DEF NextEvent
<1>3. job[s] # Nobody
  BY <1>1, Alone DEF DrainLabels
<1>4. seen[s] <=> dead
  BY <1>1, <1>3 DEF Closing
<1>5. ASSUME NEW d \in Task
      PROVE  /\ pc'[d] \in {"turn", "resolve", "next", "handover"} /\ job'[d] # Nobody =>
                    (seen'[d] <=> dead')
             /\ pc'[d] = "step" => ~dead'
  <2>1. CASE d = s
    BY <1>t, <1>1, <1>4, <2>1
  <2>2. CASE d # s
    BY <1>t, <1>1, <1>2, <2>2 DEF Closing
  <2>3. QED
    BY <2>1, <2>2
<1>6. QED
  BY <1>1, <1>4, <1>5 DEF Closing

\* An unwinding drainer leaves the cell closed if its machine is in X.
LEMMA HandoverClosing ==
    ASSUME TypeOK, Consumer, Closing, NEW s \in Task, Handover(s)
    PROVE  Closing'
<1>t. pc \in [Task -> Labels]
  BY DEF TypeOK
<1>1. /\ pc' = [pc EXCEPT ![s] = "strand"] /\ pc[s] = "handover" /\ UNCHANGED <<dead, seen, job>>
      /\ terminated' = (terminated \/ seen[s]) /\ draining' = FALSE
  BY DEF Handover, Goto
<1>3. job[s] # Nobody
  BY <1>1, Alone DEF DrainLabels
<1>4. seen[s] <=> dead
  BY <1>1, <1>3 DEF Closing
<1>5. ASSUME NEW d \in Task
      PROVE  /\ pc'[d] \in {"turn", "resolve", "next", "handover"} /\ job'[d] # Nobody =>
                    (seen'[d] <=> dead')
             /\ pc'[d] = "step" => ~dead'
  <2>1. CASE d = s
    BY <1>t, <1>1, <2>1
  <2>2. CASE d # s
    BY <1>t, <1>1, <2>2 DEF Closing
  <2>3. QED
    BY <2>1, <2>2
<1>6. QED
  BY <1>1, <1>4, <1>5 DEF Closing

-----------------------------------------------------------------------------
(* Numbering.                                                              *)

\* A step of task s that accepts nothing and stays clear of the events that
\* were not accepted.
LEMMA NumberingKept ==
    ASSUME TypeOK, Numbering, NEW s \in Task, NEW l, pc' = [pc EXCEPT ![s] = l],
           UNCHANGED <<pos, issued>>,
           \A t \in Task : pos[t] = 0 => ticket'[t] = ticket[t] /\ outcome'[t] = outcome[t],
           \A t \in Task \ {s} : completion'[t] = completion[t],
           l \in {"start", "offer"} \/ (l = "await" /\ completion'[s] = "room") => pos[s] = 0
    PROVE  Numbering'
<1>1. pc \in [Task -> Labels]
  BY DEF TypeOK
<1> SUFFICES ASSUME NEW t \in Task
             PROVE  /\ pos'[t] <= issued'
                    /\ pc'[t] \in {"start", "offer"} => pos'[t] = 0
                    /\ pc'[t] = "await" /\ completion'[t] = "room" => pos'[t] = 0
                    /\ pos'[t] = 0 => ticket'[t] = "none" /\ outcome'[t] = "unrun"
  BY DEF Numbering, Offering
<1>2. pos'[t] <= issued' /\ (pos'[t] = 0 => ticket'[t] = "none" /\ outcome'[t] = "unrun")
  BY DEF Numbering
<1>3. CASE t = s
  BY <1>1, <1>2, <1>3
<1>4. CASE t # s
  BY <1>1, <1>2, <1>4 DEF Numbering, Offering
<1>5. QED
  BY <1>3, <1>4

\* Quiet steps hand out no number.
LEMMA QuietNumbering ==
    ASSUME Unwound = {}, TypeOK, Strand, Numbering, NEW s \in Task, Quiet(s)
    PROVE  Numbering'
<1>1. UNCHANGED <<pos, issued, ticket, outcome>>
  BY QuietKeeps
<1>t. completion \in [Task -> Completions]
  BY DEF TypeOK
<1>2. PICK l : /\ pc' = [pc EXCEPT ![s] = l]
               /\ \A d \in Task \ {s} : completion'[d] = completion[d]
               /\ \/ l = pc[s] /\ UNCHANGED completion
                  \/ l \in {"forget", "await", "rejected"} /\ pc[s] \in {"start", "offer"}
                  \/ l \in {"forget", "await"} /\ pc[s] = "turn"
                  \/ l \in {"handover", "panicked"}
                  \/ /\ l \in {"offer", "polled", "ready", "await", "dropped"}
                     /\ pc[s] \in {"await", "forget", "polled"}
  BY QuietMoves
<1>3. l \in {"start", "offer"} \/ (l = "await" /\ completion'[s] = "room") => pos[s] = 0
  <2>1. CASE l = pc[s] /\ UNCHANGED completion
    BY <2>1 DEF Numbering, Offering
  <2>2. CASE l \in {"forget", "await", "rejected"} /\ pc[s] \in {"start", "offer"}
    BY <2>2 DEF Numbering, Offering
  <2>3. CASE l \in {"forget", "await"} /\ pc[s] = "turn"
    <3>1. l # "await" \/ completion'[s] # "room"
      <4>1. pc'[s] = l /\ pc'[s] # pc[s]
        BY <1>2, <2>3 DEF TypeOK
      <4>2. DrainReturn(s)
        BY <2>3, <4>1 DEF Quiet, OfferClosed, OfferFull, Offering, WakeNext, Probe, Unwind, Poll,
               PollRoom, PollSettled, PollAnswered, forget, DropCompletion
      <4>3. DrainAnswer(s)
        BY <4>2 DEF DrainReturn
      <4>4. completion'[s] \in {"queued", "true", "false"}
        BY <4>3, <1>t DEF DrainAnswer, Answer
      <4>5. QED
        BY <4>4
    <3>2. QED
      BY <2>3, <3>1
  <2>4. CASE l \in {"handover", "panicked"}
    BY <2>4
  <2>5. CASE /\ l \in {"offer", "polled", "ready", "await", "dropped"}
             /\ pc[s] \in {"await", "forget", "polled"}
    <3>1. pc'[s] = l
      BY <1>2 DEF TypeOK
    <3>2. CASE PollRoom(s)
      BY <3>1, <3>2 DEF PollRoom, Goto, Numbering, TypeOK
    <3>3. CASE PollSettled(s) \/ PollAnswered(s)
      <4>1. l = "ready" \/ (l = "await" /\ completion'[s] = "queued")
        BY <3>1, <3>3 DEF PollSettled, PollAnswered, PollEnd, Goto, TypeOK
      <4>2. QED
        BY <4>1
    <3>4. CASE forget(s) \/ DropCompletion(s)
      BY <3>1, <3>4 DEF forget, DropCompletion, Goto, TypeOK
    <3>5. CASE WakeNext(s)
      BY <3>5, <2>5 DEF WakeNext
    <3>6. QED
      BY <2>5, <3>2, <3>3, <3>4, <3>5 DEF Quiet, OfferClosed, OfferFull, Offering, DrainReturn,
             Probe, Unwind, Poll
  <2>6. QED
    BY <1>2, <2>1, <2>2, <2>3, <2>4, <2>5
<1>4. QED
  BY <1>1, <1>2, <1>3, NumberingKept

\* An accepted event gets the next number.
LEMMA AcceptingNumbering ==
    ASSUME TypeOK, Numbering, NEW s \in Task, Accepting(s)
    PROVE  Numbering'
<1>t. /\ pos \in [Task -> Nat] /\ issued \in Nat /\ pc \in [Task -> Labels]
      /\ completion \in [Task -> Completions]
  BY DEF TypeOK
<1>k. /\ UNCHANGED outcome
      /\ issued' = issued + 1 /\ pos' = [pos EXCEPT ![s] = issued + 1]
      /\ \A t \in Task \ {s} : ticket'[t] = ticket[t] /\ completion'[t] = completion[t]
  BY AcceptingKeeps
<1>1. PICK l : /\ pc' = [pc EXCEPT ![s] = l]
               /\ l \in {"forget", "turn"} \/ (l = "await" /\ completion'[s] = "queued")
  <2>1. CASE OfferQueued(s)
    BY <2>1, <1>t DEF OfferQueued, Answer, Goto
  <2>2. CASE OfferBehind(s) \/ OfferIdle(s)
    BY <2>2 DEF OfferBehind, OfferIdle, StartDrain, Goto
  <2>3. QED
    BY <2>1, <2>2 DEF Accepting
<1> SUFFICES ASSUME NEW t \in Task
             PROVE  /\ pos'[t] <= issued'
                    /\ pc'[t] \in {"start", "offer"} => pos'[t] = 0
                    /\ pc'[t] = "await" /\ completion'[t] = "room" => pos'[t] = 0
                    /\ pos'[t] = 0 => ticket'[t] = "none" /\ outcome'[t] = "unrun"
  BY DEF Numbering, Offering
<1>2. CASE t = s
  <2>1. pos'[t] = issued + 1 /\ pc'[t] = l
    BY <1>t, <1>k, <1>1, <1>2
  <2>2. pos'[t] <= issued' /\ pos'[t] # 0
    BY <1>t, <1>k, <2>1
  <2>3. QED
    BY <1>1, <1>2, <2>1, <2>2
<1>3. CASE t # s
  <2>1. /\ pos'[t] = pos[t] /\ pc'[t] = pc[t]
        /\ completion'[t] = completion[t] /\ ticket'[t] = ticket[t]
    BY <1>t, <1>k, <1>1, <1>3
  <2>2. pos[t] <= issued => pos'[t] <= issued'
    BY <1>t, <1>k, <2>1
  <2>3. QED
    BY <1>k, <2>1, <2>2 DEF Numbering, Offering
<1>4. QED
  BY <1>2, <1>3

\* Whoever is resolved was accepted, and so was whatever runs.
LEMMA ResolvingAccepted ==
    ASSUME TypeOK, Consumer, Hand, Strand, NEW s \in Task, Resolving(s)
    PROVE  UNCHANGED <<ticket>> \/ \E v \in Task : /\ pos[v] > 0
                                                   /\ \E b \in BOOLEAN : ResolveTicket(v, b)
<1>t. /\ job \in [Task -> Task \union {Nobody}] /\ reply \in [Task -> BOOLEAN]
      /\ stranded \in [Task -> SUBSET Task]
  BY DEF TypeOK
<1>1. CASE Skip(s) \/ Resolve(s) \/ PendingDrop(s)
  <2>1. pc[s] \in {"turn", "resolve", "unwind"} /\ job[s] # Nobody
    BY <1>1 DEF Skip, HasTurn, Resolve, PendingDrop, Consumer, DrainLabels
  <2>2. job[s] \in Task /\ pos[job[s]] > 0
    BY <1>t, <2>1 DEF Hand, HandAt, HandLabels
  <2>3. UNCHANGED ticket \/ \E b \in BOOLEAN : ResolveTicket(job[s], b)
    BY <1>1, <1>t DEF Skip, Resolve, PendingDrop, ticketVars
  <2>4. QED
    BY <2>2, <2>3
<1>2. CASE ResolveStranded(s)
  <2>1. PICK v \in stranded[s] : ResolveTicket(v, FALSE)
    BY <1>2 DEF ResolveStranded
  <2>2. v \in Task /\ pos[v] > 0
    BY <1>t, <1>2, <2>1 DEF ResolveStranded, Strand
  <2>3. QED
    BY <2>1, <2>2
<1>3. QED
  BY <1>1, <1>2 DEF Resolving

\* What a resolved ticket says, and that all others stay as they are.
LEMMA ResolvedTo ==
    ASSUME TypeOK, NEW v \in Task, NEW b \in BOOLEAN, ResolveTicket(v, b)
    PROVE  /\ ticket'[v] = IF b THEN "true" ELSE "false"
           /\ \A t \in Task \ {v} : ticket'[t] = ticket[t]
BY DEF ResolveTicket, TypeOK

\* Where a resolving step leads.
LEMMA ResolvingMoves ==
    ASSUME TypeOK, NEW s \in Task, Resolving(s)
    PROVE  \/ ResolveStranded(s) /\ pc' = [pc EXCEPT ![s] = pc[s]] /\ pc[s] = "strand"
           \/ pc' = [pc EXCEPT ![s] = "next"] /\ pc[s] \in {"turn", "resolve"}
           \/ pc' = [pc EXCEPT ![s] = "probe"] /\ pc[s] = "unwind"
BY DEF Resolving, Skip, HasTurn, Resolve, PendingDrop, ResolveStranded, Goto, TypeOK

\* Only accepted events are resolved.
LEMMA ResolvingNumbering ==
    ASSUME TypeOK, Consumer, Hand, Strand, Numbering, NEW s \in Task, Resolving(s)
    PROVE  Numbering'
<1>k. UNCHANGED <<pos, issued, outcome, completion>>
  BY ResolvingKeeps
<1>1. \A t \in Task : pos[t] = 0 => ticket'[t] = ticket[t]
  <2>1. CASE UNCHANGED ticket
    BY <2>1
  <2>2. CASE \E v \in Task : pos[v] > 0 /\ \E b \in BOOLEAN : ResolveTicket(v, b)
    <3>1. PICK v \in Task, b \in BOOLEAN : pos[v] > 0 /\ ResolveTicket(v, b)
      BY <2>2
    <3>2. \A t \in Task \ {v} : ticket'[t] = ticket[t]
      BY <3>1, ResolvedTo
    <3>3. pos[v] # 0
      BY <3>1 DEF TypeOK
    <3>4. QED
      BY <3>2, <3>3
  <2>3. QED
    BY <2>1, <2>2, ResolvingAccepted
<1>2. PICK l \in {"strand", "next", "probe"} : pc' = [pc EXCEPT ![s] = l]
  BY ResolvingMoves
<1>3. QED
  BY <1>k, <1>1, <1>2, NumberingKept

\* A step of the machine is about the event in hand.
LEMMA RunningJob ==
    ASSUME TypeOK, Consumer, Hand, NEW s \in Task, Running(s)
    PROVE  /\ pc[s] \in {"turn", "step"} /\ job[s] \in Task /\ pos[job[s]] > 0
           /\ \E l \in {"step", "resolve", "unwind"} : pc' = [pc EXCEPT ![s] = l]
           /\ \A t \in Task \ {job[s]} : outcome'[t] = outcome[t]
<1>t. job \in [Task -> Task \union {Nobody}] /\ outcome \in [Task -> Outcomes]
  BY DEF TypeOK
<1>1. /\ pc[s] \in {"turn", "step"}
      /\ pc[s] = "turn" => job[s] # Nobody
      /\ \E l \in {"step", "resolve", "unwind"} : pc' = [pc EXCEPT ![s] = l]
      /\ \A t \in Task \ {job[s]} : outcome'[t] = outcome[t]
  BY <1>t DEF Running, StepBegin, HasTurn, StepReturn, StepPanic, Goto
<1>2. job[s] # Nobody
  BY <1>1 DEF Consumer, DrainLabels
<1>3. QED
  BY <1>t, <1>1, <1>2 DEF Hand, HandAt, HandLabels

\* Only accepted events run.
LEMMA RunningNumbering ==
    ASSUME TypeOK, Consumer, Hand, Numbering, NEW s \in Task, Running(s)
    PROVE  Numbering'
<1>k. UNCHANGED <<pos, issued, ticket, completion>>
  BY RunningKeeps
<1>1. \A t \in Task : pos[t] = 0 => outcome'[t] = outcome[t]
  <2>1. pos[job[s]] # 0
    BY RunningJob DEF TypeOK
  <2>2. QED
    BY <2>1, RunningJob
<1>2. PICK l \in {"step", "resolve", "unwind"} : pc' = [pc EXCEPT ![s] = l]
  BY RunningJob
<1>3. QED
  BY <1>k, <1>1, <1>2, NumberingKept

\* Popping and handing over number nothing.
LEMMA PoppingNumbering ==
    ASSUME TypeOK, Numbering, NEW s \in Task, NextEvent(s) \/ Handover(s)
    PROVE  Numbering'
<1>1. UNCHANGED <<pos, issued, ticket, outcome, completion>>
  BY DEF NextEvent, Handover, DrainKeeps, orderVars, ticketVars
<1>2. PICK l \in {"turn", "strand"} : pc' = [pc EXCEPT ![s] = l]
  BY DEF NextEvent, Handover, Goto
<1>3. QED
  BY <1>1, <1>2, NumberingKept

-----------------------------------------------------------------------------
(* The queue.                                                              *)

\* An event with a greater number keeps the order when it is appended.
LEMMA AscendingAppend ==
    ASSUME NEW q \in Seq(Task), NEW p \in [Task -> Nat], NEW e \in Task, NEW n \in Nat,
           Ascending(q, p), \A t \in Range(q) : p[t] < n /\ t # e
    PROVE  Ascending(Append(q, e), [p EXCEPT ![e] = n])
<1> DEFINE r == Append(q, e)
           m == [p EXCEPT ![e] = n]
<1>1. /\ DOMAIN q = 1..Len(q) /\ Len(q) \in Nat /\ DOMAIN r = 1..(Len(q) + 1)
      /\ r[Len(q) + 1] = e /\ \A i \in 1..Len(q) : r[i] = q[i] /\ q[i] \in Task
  OBVIOUS
<1>2. \A i \in 1..Len(q) : m[r[i]] = p[q[i]] /\ p[q[i]] < n
  <2> SUFFICES ASSUME NEW i \in 1..Len(q) PROVE m[r[i]] = p[q[i]] /\ p[q[i]] < n
    OBVIOUS
  <2>1. q[i] \in Range(q)
    BY <1>1 DEF Range
  <2>2. QED
    BY <1>1, <2>1
<1>3. m[r[Len(q) + 1]] = n
  BY <1>1
<1> SUFFICES ASSUME NEW i \in 1..(Len(q) + 1), NEW j \in 1..(Len(q) + 1), i < j
             PROVE  m[r[i]] < m[r[j]]
  BY <1>1 DEF Ascending
<1>4. i \in 1..Len(q)
  BY <1>1
<1>5. CASE j = Len(q) + 1
  BY <1>2, <1>3, <1>4, <1>5
<1>6. CASE j # Len(q) + 1
  <2>1. j \in 1..Len(q)
    BY <1>1, <1>6
  <2>2. p[q[i]] < p[q[j]]
    BY <1>1, <1>4, <2>1 DEF Ascending
  <2>3. QED
    BY <1>2, <1>4, <2>1, <2>2
<1>7. QED
  BY <1>5, <1>6

\* What is left when the oldest event is popped is in order and behind it.
LEMMA AscendingTail ==
    ASSUME NEW q \in Seq(Task), NEW p \in [Task -> Nat], q # << >>, Ascending(q, p)
    PROVE  /\ Ascending(Tail(q), p)
           /\ \A t \in Range(Tail(q)) : p[Head(q)] < p[t]
<1>1. /\ DOMAIN q = 1..Len(q) /\ Len(q) \in Nat /\ Len(q) > 0
      /\ DOMAIN Tail(q) = 1..(Len(q) - 1) /\ Head(q) = q[1]
      /\ \A i \in 1..(Len(q) - 1) : Tail(q)[i] = q[i + 1]
  OBVIOUS
<1>2. Ascending(Tail(q), p)
  <2> SUFFICES ASSUME NEW i \in 1..(Len(q) - 1), NEW j \in 1..(Len(q) - 1), i < j
               PROVE  p[Tail(q)[i]] < p[Tail(q)[j]]
    BY <1>1 DEF Ascending
  <2>1. i + 1 \in 1..Len(q) /\ j + 1 \in 1..Len(q) /\ i + 1 < j + 1
    BY <1>1
  <2>2. p[q[i + 1]] < p[q[j + 1]]
    BY <1>1, <2>1 DEF Ascending
  <2>3. QED
    BY <1>1, <2>2
<1>3. \A t \in Range(Tail(q)) : p[Head(q)] < p[t]
  <2> SUFFICES ASSUME NEW i \in 1..(Len(q) - 1) PROVE p[q[1]] < p[q[i + 1]]
    BY <1>1 DEF Range
  <2>1. 1 \in 1..Len(q) /\ i + 1 \in 1..Len(q) /\ 1 < i + 1
    BY <1>1
  <2>2. QED
    BY <1>1, <2>1 DEF Ascending
<1>4. QED
  BY <1>2, <1>3

\* A step that leaves the queue, and the events in it, as they are.
LEMMA QueueKept ==
    ASSUME Queue, UNCHANGED <<events, pos>>,
           \A t \in Range(events) : /\ outcome'[t] = outcome[t]
                                    /\ ticket[t] # "none" => ticket'[t] # "none"
    PROVE  Queue'
BY DEF Queue

\* The queued events are tasks' events.
LEMMA QueuedTasks ==
    ASSUME TypeOK
    PROVE  Range(events) \subseteq Task
BY DEF Range, TypeOK

\* An event that was not accepted is nowhere.
LEMMA Fresh ==
    ASSUME TypeOK, Numbering, Queue, NEW s \in Task, pc[s] \in {"start", "offer"}
    PROVE  /\ pos[s] = 0 /\ outcome[s] = "unrun" /\ ticket[s] = "none"
           /\ s \notin Range(events)
<1>1. pos[s] = 0 /\ outcome[s] = "unrun" /\ ticket[s] = "none"
  BY DEF Numbering, Offering
<1>2. ~(0 > 0)
  OBVIOUS
<1>3. QED
  BY <1>1, <1>2 DEF Queue

\* An accepted event goes to the end of the queue, or into the drainer's hand.
LEMMA AcceptingQueue ==
    ASSUME TypeOK, Numbering, Queue, NEW s \in Task, Accepting(s)
    PROVE  Queue'
<1>t. /\ pos \in [Task -> Nat] /\ issued \in Nat /\ events \in Seq(Task)
      /\ ticket \in [Task -> Tickets]
  BY DEF TypeOK
<1>k. /\ UNCHANGED outcome /\ pc[s] \in {"start", "offer"}
      /\ issued' = issued + 1 /\ pos' = [pos EXCEPT ![s] = issued + 1]
      /\ \A t \in Task \ {s} : ticket'[t] = ticket[t]
  BY AcceptingKeeps
<1>f. pos[s] = 0 /\ outcome[s] = "unrun" /\ s \notin Range(events)
  BY <1>k, Fresh
<1>1. ASSUME NEW q \in Seq(Task), Range(q) \subseteq Range(events), Ascending(q, pos),
             events' = Append(q, s), ticket' = [ticket EXCEPT ![s] = "open"]
      PROVE  Queue'
  <2>1. \A t \in Range(q) : t \in Task /\ t # s /\ pos[t] < issued + 1
    <3> SUFFICES ASSUME NEW t \in Range(q) PROVE t \in Task /\ t # s /\ pos[t] < issued + 1
      OBVIOUS
    <3>1. t \in Task
      BY DEF Range
    <3>2. t # s
      BY <1>1, <1>f
    <3>3. pos[t] <= issued
      BY <3>1 DEF Numbering
    <3>4. QED
      BY <1>t, <3>1, <3>2, <3>3
  <2>2. Ascending(events', pos')
    <3>1. issued + 1 \in Nat
      BY <1>t
    <3>2. Ascending(Append(q, s), [pos EXCEPT ![s] = issued + 1])
      BY <1>1, <1>t, <2>1, <3>1, AscendingAppend
    <3>3. QED
      BY <1>1, <1>k, <3>2
  <2>3. Range(events') = Range(q) \union {s}
    BY <1>1, RangeAppend
  <2>4. ASSUME NEW t \in Range(events')
        PROVE  pos'[t] > 0 /\ outcome'[t] = "unrun" /\ ticket'[t] # "none"
    <3>1. CASE t = s
      BY <1>1, <1>t, <1>k, <1>f, <3>1
    <3>2. CASE t # s
      <4>1. t \in Range(events) /\ t \in Task
        BY <1>1, <2>1, <2>3, <2>4, <3>2
      <4>2. pos'[t] = pos[t] /\ ticket'[t] = ticket[t]
        BY <1>t, <1>k, <3>2, <4>1
      <4>3. QED
        BY <1>k, <4>1, <4>2 DEF Queue
    <3>3. QED
      BY <3>1, <3>2
  <2>5. QED
    BY <2>2, <2>4 DEF Queue
<1>2. CASE OfferQueued(s)
  BY <1>1, <1>2, <1>t DEF OfferQueued, Queue
<1>3. CASE OfferBehind(s)
  <2>1. events # << >> /\ events' = Append(Tail(events), s) /\ ticket' = [ticket EXCEPT ![s] = "open"]
    BY <1>3 DEF OfferBehind, Popped
  <2>2. Tail(events) \in Seq(Task) /\ Ascending(Tail(events), pos)
    BY <1>t, <2>1, AscendingTail, PopTyped DEF Queue, Popped
  <2>3. Range(Tail(events)) \subseteq Range(events)
    BY <1>t, <2>1, RangePop
  <2>4. QED
    BY <1>1, <2>1, <2>2, <2>3
<1>4. CASE OfferIdle(s)
  <2>1. events' = << >>
    BY <1>4 DEF OfferIdle
  <2>2. QED
    BY <2>1 DEF Queue, Ascending, Range
<1>5. QED
  BY <1>2, <1>3, <1>4 DEF Accepting

\* A resolved ticket stays a ticket.
LEMMA TicketStays ==
    ASSUME TypeOK, Consumer, Hand, Strand, NEW s \in Task, Resolving(s)
    PROVE  \A t \in Task : ticket[t] # "none" => ticket'[t] # "none"
<1>1. CASE UNCHANGED ticket
  BY <1>1
<1>2. CASE \E v \in Task : pos[v] > 0 /\ \E b \in BOOLEAN : ResolveTicket(v, b)
  <2>1. PICK v \in Task, b \in BOOLEAN : pos[v] > 0 /\ ResolveTicket(v, b)
    BY <1>2
  <2>2. /\ ticket'[v] = IF b THEN "true" ELSE "false"
        /\ \A t \in Task \ {v} : ticket'[t] = ticket[t]
    BY <2>1, ResolvedTo
  <2>3. QED
    BY <2>2
<1>3. QED
  BY <1>1, <1>2, ResolvingAccepted

\* The event in hand is not in the queue any more.
LEMMA JobNotQueued ==
    ASSUME TypeOK, Queue, Hand, NEW s \in Task, pc[s] \in {"turn", "step"}, job[s] \in Task
    PROVE  job[s] \notin Range(events)
<1>1. job[s] # Nobody
  BY FifoAssumption
<1>2. CASE pc[s] = "turn"
  <2>1. \A e \in Range(events) : pos[job[s]] < pos[e]
    BY <1>1, <1>2 DEF Hand, HandAt, HandLabels
  <2>2. ~(pos[job[s]] < pos[job[s]])
    BY DEF TypeOK
  <2>3. QED
    BY <2>1, <2>2
<1>3. CASE pc[s] = "step"
  BY <1>1, <1>3 DEF Hand, HandAt, HandLabels, Queue
<1>4. QED
  BY <1>2, <1>3

\* The running event is not in the queue any more.
LEMMA RunningQueue ==
    ASSUME TypeOK, Consumer, Queue, Hand, NEW s \in Task, Running(s)
    PROVE  Queue'
<1>k. UNCHANGED <<events, pos, ticket>>
  BY RunningKeeps
<1>1. pc[s] \in {"turn", "step"} /\ job[s] \in Task /\ \A t \in Task \ {job[s]} : outcome'[t] = outcome[t]
  BY RunningJob
<1>2. Range(events) \subseteq Task
  BY DEF Range, TypeOK
<1>3. \A t \in Range(events) : outcome'[t] = outcome[t]
  BY <1>1, <1>2, JobNotQueued
<1>4. QED
  BY <1>k, <1>3, QueueKept

\* Popping takes the oldest event; handing over keeps or empties the queue.
LEMMA PoppingQueue ==
    ASSUME TypeOK, Queue, NEW s \in Task, NextEvent(s) \/ Handover(s)
    PROVE  Queue'
<1>t. events \in Seq(Task) /\ pos \in [Task -> Nat]
  BY DEF TypeOK
<1>k. UNCHANGED <<pos, ticket, outcome>>
  BY DEF NextEvent, Handover, DrainKeeps, orderVars, ticketVars
<1>1. CASE UNCHANGED events
  BY <1>k, <1>1, QueueKept
<1>2. CASE events' = << >>
  BY <1>2 DEF Queue, Ascending, Range
<1>3. CASE events # << >> /\ events' = Tail(events)
  <2>1. Ascending(events', pos) /\ Range(events') \subseteq Range(events)
    BY <1>t, <1>3, AscendingTail, RangePop DEF Queue
  <2>2. QED
    BY <1>k, <2>1 DEF Queue
<1>4. QED
  BY <1>1, <1>2, <1>3 DEF NextEvent, Handover, Popped

-----------------------------------------------------------------------------
(* The event in hand.                                                      *)

\* A step that disturbs no event in hand, new hands aside.
LEMMA HandKept ==
    ASSUME TypeOK, Hand,
           \A t \in Task : /\ pos[t] > 0 => pos'[t] = pos[t]
                           /\ ticket[t] # "none" => ticket'[t] # "none",
           \A e \in Range(events') : \/ e \in Range(events) /\ pos'[e] = pos[e]
                                     \/ \A t \in Task : pos[t] < pos'[e],
           \A d \in Task : pc'[d] \in HandLabels /\ job'[d] # Nobody =>
               \/ /\ pc'[d] = pc[d] /\ job'[d] = job[d] /\ reply'[d] = reply[d]
                  /\ outcome'[job[d]] = outcome[job[d]]
               \/ HandAt(d)'
    PROVE  Hand'
<1> SUFFICES ASSUME NEW d \in Task, pc'[d] \in HandLabels, job'[d] # Nobody,
                    pc'[d] = pc[d], job'[d] = job[d], reply'[d] = reply[d],
                    outcome'[job[d]] = outcome[job[d]]
             PROVE  HandAt(d)'
  BY DEF Hand
<1>1. HandAt(d) /\ job[d] \in Task
  BY DEF Hand, TypeOK
<1>2. /\ pos'[job[d]] = pos[job[d]]
      /\ ticket'[job[d]] = "none" => ticket[job[d]] = "none"
  BY <1>1 DEF HandAt
<1>3. pc[d] = "turn" => \A e \in Range(events') : pos'[job[d]] < pos'[e]
  <2> SUFFICES ASSUME pc[d] = "turn", NEW e \in Range(events') PROVE pos[job[d]] < pos'[e]
    BY <1>2
  <2>1. CASE e \in Range(events) /\ pos'[e] = pos[e]
    BY <1>1, <2>1 DEF HandAt
  <2>2. CASE \A t \in Task : pos[t] < pos'[e]
    BY <1>1, <2>2
  <2>3. QED
    BY <2>1, <2>2
<1>4. QED
  BY <1>1, <1>2, <1>3 DEF HandAt

\* While the drainer moves nobody else has an event in hand.
LEMMA HandAlone ==
    ASSUME TypeOK, Consumer, NEW s \in Task, NEW l, pc' = [pc EXCEPT ![s] = l],
           pc[s] \in DrainLabels, pc[s] = "turn" => job[s] # Nobody,
           \A d \in Task \ {s} : job'[d] = job[d],
           l \in HandLabels /\ job'[s] # Nobody => HandAt(s)'
    PROVE  Hand'
<1>1. pc \in [Task -> Labels]
  BY DEF TypeOK
<1>2. \A d \in Task : pc[d] \in DrainLabels /\ job[d] # Nobody => d = s
  BY Alone
<1>3. \A d \in Task \ {s} : ~(pc'[d] \in HandLabels /\ job'[d] # Nobody)
  BY <1>1, <1>2 DEF HandLabels, DrainLabels
<1>4. pc'[s] = l
  BY <1>1
<1>5. QED
  BY <1>3, <1>4 DEF Hand

\* Quiet steps leave the event in hand alone.
LEMMA QuietHand ==
    ASSUME Unwound = {}, TypeOK, Strand, Hand, NEW s \in Task, Quiet(s)
    PROVE  Hand'
<1>k. UNCHANGED <<events, pos, outcome, ticket, job, reply>>
  BY QuietKeeps
<1>1. PICK l : /\ pc' = [pc EXCEPT ![s] = l]
               /\ \/ l = pc[s]
                  \/ l \in {"forget", "await", "rejected", "handover", "panicked", "offer",
                            "polled", "ready", "dropped"}
  BY QuietMoves
<1>2. \A d \in Task : pc'[d] \in HandLabels => pc'[d] = pc[d]
  BY <1>1 DEF TypeOK, HandLabels
<1>3. QED
  BY <1>k, <1>2, HandKept

\* The event a new drainer takes in hand is older than all that are queued.
LEMMA AcceptingHand ==
    ASSUME TypeOK, Numbering, Queue, Hand, NEW s \in Task, Accepting(s)
    PROVE  Hand'
<1> USE DEF Goto
<1>t. /\ pos \in [Task -> Nat] /\ issued \in Nat /\ events \in Seq(Task)
      /\ ticket \in [Task -> Tickets] /\ pc \in [Task -> Labels]
      /\ job \in [Task -> Task \union {Nobody}]
  BY DEF TypeOK
<1>k. /\ UNCHANGED <<outcome, reply>> /\ pc[s] \in {"start", "offer"}
      /\ issued' = issued + 1 /\ pos' = [pos EXCEPT ![s] = issued + 1]
      /\ \A t \in Task \ {s} : job'[t] = job[t] /\ ticket'[t] = ticket[t]
  BY AcceptingKeeps
<1>f. pos[s] = 0 /\ outcome[s] = "unrun" /\ ticket[s] = "none" /\ s \notin Range(events)
  BY <1>k, Fresh
<1>p. /\ pos'[s] = issued + 1 /\ pos'[s] > 0
      /\ \A t \in Task : pos[t] < pos'[s]
  <2>1. pos'[s] = issued + 1
    BY <1>t, <1>k
  <2>2. \A t \in Task : pos[t] <= issued
    BY DEF Numbering
  <2>3. QED
    BY <1>t, <2>1, <2>2
<1>1. \A t \in Task : /\ pos[t] > 0 => pos'[t] = pos[t]
                      /\ ticket[t] # "none" => ticket'[t] # "none"
  <2>1. ~(pos[s] > 0)
    BY <1>f
  <2>2. QED
    BY <1>t, <1>k, <1>f, <2>1
<1>2. \A e \in Range(events) : e \in Task /\ e # s /\ pos'[e] = pos[e]
  BY <1>t, <1>k, <1>f DEF Range
<1>3. Range(events') \subseteq Range(events) \union {s}
  <2>1. CASE OfferQueued(s)
    BY <1>t, <2>1, RangeAppend DEF OfferQueued
  <2>2. CASE OfferBehind(s)
    <3>1. events # << >> /\ events' = Append(Tail(events), s) /\ Tail(events) \in Seq(Task)
      BY <2>2, PopTyped DEF OfferBehind, Popped
    <3>2. Range(events') = Range(Tail(events)) \union {s}
      BY <3>1, RangeAppend
    <3>3. Range(events) = {Head(events)} \union Range(Tail(events))
      BY <1>t, <3>1, RangePop
    <3>4. QED
      BY <3>2, <3>3
  <2>3. CASE OfferIdle(s)
    BY <2>3 DEF OfferIdle
  <2>4. QED
    BY <2>1, <2>2, <2>3 DEF Accepting
<1>4. \A e \in Range(events') : \/ e \in Range(events) /\ pos'[e] = pos[e]
                                \/ \A t \in Task : pos[t] < pos'[e]
  BY <1>p, <1>2, <1>3
<1>5. \A d \in Task \ {s} : pc'[d] = pc[d]
  BY <1>t DEF Accepting, OfferQueued, Answer, OfferBehind, OfferIdle, StartDrain
<1>6. pc'[s] \in HandLabels /\ job'[s] # Nobody => HandAt(s)'
  <2>1. CASE OfferQueued(s)
    BY <1>t, <2>1 DEF OfferQueued, Answer, HandLabels
  <2>2. CASE OfferBehind(s)
    <3>1. /\ events # << >> /\ events' = Append(Tail(events), s) /\ job'[s] = Head(events)
          /\ pc'[s] = "turn"
      BY <1>t, <2>2 DEF OfferBehind, StartDrain, Popped
    <3>2. Head(events) \in Range(events) /\ Range(events') = Range(Tail(events)) \union {s}
      BY <1>t, <3>1, RangeAppend, RangePop, PopTyped DEF Popped
    <3>3. /\ pos'[Head(events)] > 0 /\ outcome'[Head(events)] = "unrun"
          /\ ticket'[Head(events)] # "none"
      BY <1>k, <1>2, <3>2 DEF Queue
    <3>4. \A e \in Range(events') : pos'[Head(events)] < pos'[e]
      <4> SUFFICES ASSUME NEW e \in Range(events') PROVE pos'[Head(events)] < pos'[e]
        OBVIOUS
      <4>1. CASE e = s
        BY <1>p, <1>2, <3>2, <4>1
      <4>2. CASE e # s
        <5>1. e \in Range(Tail(events)) /\ e \in Range(events)
          BY <1>t, <3>1, <3>2, <4>2, RangePop
        <5>2. pos[Head(events)] < pos[e]
          BY <1>t, <3>1, <5>1, AscendingTail DEF Queue
        <5>3. QED
          BY <1>2, <3>2, <5>1, <5>2
      <4>3. QED
        BY <4>1, <4>2
    <3>5. QED
      BY <3>1, <3>3, <3>4 DEF HandAt
  <2>3. CASE OfferIdle(s)
    <3>1. /\ events' = << >> /\ job'[s] = s /\ pc'[s] = "turn" /\ ticket' = ticket
      BY <1>t, <2>3 DEF OfferIdle, StartDrain
    <3>2. Range(events') = {}
      BY <3>1 DEF Range
    <3>3. QED
      BY <1>k, <1>f, <1>p, <3>1, <3>2 DEF HandAt
  <2>4. QED
    BY <2>1, <2>2, <2>3 DEF Accepting
<1>7. \A d \in Task : pc'[d] \in HandLabels /\ job'[d] # Nobody =>
          \/ /\ pc'[d] = pc[d] /\ job'[d] = job[d] /\ reply'[d] = reply[d]
             /\ outcome'[job[d]] = outcome[job[d]]
          \/ HandAt(d)'
  BY <1>k, <1>5, <1>6
<1>8. QED
  BY <1>1, <1>4, <1>7, HandKept

\* Resolving its caller lets go of the event in hand.
LEMMA ResolvingHand ==
    ASSUME TypeOK, Consumer, Hand, Strand, NEW s \in Task, Resolving(s)
    PROVE  Hand'
<1>t. pc \in [Task -> Labels] /\ reply \in [Task -> BOOLEAN]
  BY DEF TypeOK
<1>k. UNCHANGED <<events, pos, outcome, job>>
  BY ResolvingKeeps
<1>1. \A d \in Task \ {s} : pc'[d] = pc[d] /\ reply'[d] = reply[d]
  BY <1>t DEF Resolving, Skip, Resolve, PendingDrop, ResolveStranded, Goto, drainVars
<1>2. pc'[s] \notin HandLabels
  BY <1>t, ResolvingMoves DEF HandLabels
<1>3. \A t \in Task : ticket[t] # "none" => ticket'[t] # "none"
  BY TicketStays
<1>4. QED
  BY <1>k, <1>1, <1>2, <1>3, HandKept

\* The event in hand goes from unrun to running to its outcome.
LEMMA RunningHand ==
    ASSUME TypeOK, Consumer, Hand, NEW s \in Task, Running(s)
    PROVE  Hand'
<1> USE DEF Goto
<1>t. /\ pc \in [Task -> Labels] /\ outcome \in [Task -> Outcomes] /\ reply \in [Task -> BOOLEAN]
  BY DEF TypeOK
<1>k. UNCHANGED <<events, pos, job, ticket>>
  BY RunningKeeps
<1>1. PICK l \in {"step", "resolve", "unwind"} : pc' = [pc EXCEPT ![s] = l]
  BY RunningJob
<1>2. /\ pc[s] \in {"turn", "step"} /\ job[s] \in Task /\ job[s] # Nobody
  BY RunningJob, FifoAssumption
<1>3. HandAt(s)
  BY <1>2 DEF Hand, HandLabels
<1>4. /\ l = "step" => outcome'[job[s]] = "running"
      /\ l = "resolve" => outcome'[job[s]] = IF reply'[s] THEN "true" ELSE "false"
      /\ l = "unwind" => outcome'[job[s]] = "panicked"
  <2>1. CASE StepBegin(s)
    BY <1>t, <1>1, <1>2, <2>1 DEF StepBegin
  <2>2. CASE StepReturn(s)
    BY <1>t, <1>1, <1>2, <2>2 DEF StepReturn
  <2>3. CASE StepPanic(s)
    BY <1>t, <1>1, <1>2, <2>3 DEF StepPanic
  <2>4. QED
    BY <2>1, <2>2, <2>3 DEF Running
<1>5. HandAt(s)'
  <2>1. pc'[s] = l
    BY <1>t, <1>1
  <2>2. QED
    BY <1>k, <1>3, <1>4, <2>1 DEF HandAt
<1>6. QED
  BY <1>k, <1>1, <1>2, <1>5, HandAlone DEF DrainLabels

\* The event popped is older than all that stay in the queue.
LEMMA PoppingHand ==
    ASSUME TypeOK, Consumer, Queue, Hand, NEW s \in Task, NextEvent(s) \/ Handover(s)
    PROVE  Hand'
<1> USE DEF Goto
<1>t. /\ pc \in [Task -> Labels] /\ events \in Seq(Task) /\ pos \in [Task -> Nat]
      /\ job \in [Task -> Task \union {Nobody}]
  BY DEF TypeOK
<1>k. UNCHANGED <<pos, ticket, outcome>>
  BY DEF NextEvent, Handover, DrainKeeps, orderVars, ticketVars
<1>1. CASE NextEvent(s)
  <2>1. /\ pc' = [pc EXCEPT ![s] = "turn"] /\ pc[s] = "next"
        /\ \A d \in Task \ {s} : job'[d] = job[d]
    BY <1>t, <1>1 DEF NextEvent
  <2>2. CASE events = << >>
    <3>1. job'[s] = Nobody
      BY <1>t, <1>1, <2>2 DEF NextEvent
    <3>2. QED
      BY <2>1, <3>1, HandAlone DEF DrainLabels
  <2>3. CASE events # << >>
    <3>1. job'[s] = Head(events) /\ events' = Tail(events) /\ pc'[s] = "turn"
      BY <1>t, <1>1, <2>1, <2>3 DEF NextEvent, Popped
    <3>2. Head(events) \in Range(events)
      BY <1>t, <2>3, RangePop
    <3>3. \A e \in Range(events') : pos[Head(events)] < pos[e]
      BY <1>t, <2>3, <3>1, AscendingTail DEF Queue
    <3>4. HandAt(s)'
      BY <1>k, <3>1, <3>2, <3>3 DEF HandAt, Queue
    <3>5. QED
      BY <2>1, <3>4, HandAlone DEF DrainLabels
  <2>4. QED
    BY <2>2, <2>3
<1>2. CASE Handover(s)
  <2>1. pc' = [pc EXCEPT ![s] = "strand"] /\ pc[s] = "handover" /\ UNCHANGED job
    BY <1>2 DEF Handover
  <2>2. QED
    BY <2>1, HandAlone DEF DrainLabels, HandLabels
<1>3. QED
  BY <1>1, <1>2

-----------------------------------------------------------------------------
(* A closed cell stays closed, and runs nothing.                           *)

\* A machine in X runs nothing.
LEMMA RunningOpen ==
    ASSUME TypeOK, Consumer, Closing, NEW s \in Task, Running(s)
    PROVE  ~Closed
<1>1. \/ pc[s] = "turn" /\ job[s] # Nobody /\ ~seen[s]
      \/ pc[s] = "step"
  BY DEF Running, StepBegin, HasTurn, StepReturn, StepPanic
<1>2. draining
  BY <1>1, Alone DEF DrainLabels
<1>3. ~dead
  BY <1>1 DEF Closing
<1>4. QED
  BY <1>2, <1>3 DEF Closing, Closed

\* Recording X in the cell does not change whether callers are turned away.
LEMMA PoppingClosed ==
    ASSUME TypeOK, Consumer, Closing, NEW s \in Task, NextEvent(s) \/ Handover(s)
    PROVE  /\ Closed' <=> Closed
           /\ UNCHANGED dead /\ seen[s] = dead /\ draining /\ job[s] # Nobody
<1>1. pc[s] \in {"next", "handover"}
  BY DEF NextEvent, Handover
<1>2. draining /\ job[s] # Nobody
  BY <1>1, Alone DEF DrainLabels
<1>3. seen[s] = dead
  BY <1>1, <1>2 DEF Closing, TypeOK
<1>4. UNCHANGED dead /\ (terminated' = seen[s] \/ terminated' = (terminated \/ seen[s]))
  BY DEF NextEvent, Handover
<1>5. QED
  BY <1>2, <1>3, <1>4 DEF Closing, Closed

\* Every step of a task, by what it does to the events.
Acts(s) ==
    Quiet(s) \/ Accepting(s) \/ Resolving(s) \/ Running(s) \/ NextEvent(s) \/ Handover(s)

\* Neither X nor a closed cell is ever left.
LEMMA ClosedStays ==
    ASSUME TypeOK, Consumer, Closing, NEW s \in Task, Acts(s), Closed
    PROVE  Closed'
<1>1. CASE Quiet(s)
  BY <1>1, QuietKeeps DEF Closed
<1>2. CASE Accepting(s)
  BY <1>2, AcceptingKeeps DEF Closed
<1>3. CASE Resolving(s)
  BY <1>3, ResolvingKeeps DEF Closed
<1>4. CASE Running(s)
  BY <1>4, RunningOpen
<1>5. CASE NextEvent(s) \/ Handover(s)
  BY <1>5, PoppingClosed
<1>6. QED
  BY <1>1, <1>2, <1>3, <1>4, <1>5 DEF Acts

\* Where the task's event never ran and never will, the machine's step does
\* not change that; nor does it change what became of a finished event.
LEMMA RunningRuns ==
    ASSUME TypeOK, Consumer, Closing, Hand, NEW s \in Task, Running(s)
    PROVE  outcome[job[s]] \in {"unrun", "running"}
<1>1. /\ pc[s] = "turn" \/ pc[s] = "step"
      /\ job[s] \in Task /\ job[s] # Nobody
  BY RunningJob, FifoAssumption
<1>2. QED
  BY <1>1 DEF Hand, HandAt, HandLabels

-----------------------------------------------------------------------------
(* Stranded events.                                                        *)

\* A step that strands nothing new keeps the stranded events unrun.
LEMMA StrandKept ==
    ASSUME TypeOK, Strand, Closed => Closed',
           \A t \in Task : pos[t] > 0 => pos'[t] > 0,
           \A t \in Task : outcome[t] = "unrun" /\ Closed => outcome'[t] = "unrun",
           \A d \in Task : pc'[d] = "strand" =>
               pc[d] = "strand" /\ job'[d] = job[d] /\ stranded'[d] \subseteq stranded[d]
    PROVE  Strand'
<1> SUFFICES ASSUME NEW d \in Task, pc'[d] = "strand"
             PROVE  /\ job'[d] # Nobody
                    /\ \A t \in stranded'[d] : pos'[t] > 0 /\ outcome'[t] = "unrun" /\ Closed'
  BY DEF Strand
<1>1. pc[d] = "strand" /\ job'[d] = job[d] /\ stranded'[d] \subseteq stranded[d]
  OBVIOUS
<1>2. stranded[d] \subseteq Task
  BY DEF TypeOK
<1>3. QED
  BY <1>1, <1>2 DEF Strand

\* Only the queue of a closed cell is stranded.
LEMMA ActsStrand ==
    ASSUME Unwound = {}, TypeOK, Consumer, Closing, Numbering, Queue, Hand, Strand,
           NEW s \in Task, Acts(s)
    PROVE  Strand'
<1> USE DEF Goto
<1>t. /\ pc \in [Task -> Labels] /\ stranded \in [Task -> SUBSET Task]
      /\ job \in [Task -> Task \union {Nobody}] /\ pos \in [Task -> Nat] /\ issued \in Nat
  BY DEF TypeOK
<1>c. Closed => Closed'
  BY ClosedStays
<1>1. CASE Quiet(s)
  <2>1. UNCHANGED <<pos, outcome, job, stranded>>
    BY <1>1, QuietKeeps
  <2>2. PICK l : /\ pc' = [pc EXCEPT ![s] = l]
                 /\ \/ l = pc[s]
                    \/ l \in {"forget", "await", "rejected", "handover", "panicked", "offer",
                              "polled", "ready", "dropped"}
    BY <1>1, QuietMoves
  <2>3. \A d \in Task : pc'[d] = "strand" => pc[d] = "strand"
    BY <1>t, <2>2
  <2>4. QED
    BY <1>c, <2>1, <2>3, StrandKept
<1>2. CASE Accepting(s)
  <2>1. /\ UNCHANGED <<outcome, stranded>> /\ pos' = [pos EXCEPT ![s] = issued + 1]
        /\ \A t \in Task \ {s} : job'[t] = job[t]
    BY <1>2, AcceptingKeeps
  <2>2. \A d \in Task : pc'[d] = "strand" => d # s /\ pc[d] = "strand"
    BY <1>t, <1>2 DEF Accepting, OfferQueued, Answer, OfferBehind, OfferIdle, StartDrain
  <2>3. \A t \in Task : pos[t] > 0 => pos'[t] > 0
    BY <1>t, <2>1
  <2>4. QED
    BY <1>c, <2>1, <2>2, <2>3, StrandKept
<1>3. CASE Resolving(s)
  <2>1. UNCHANGED <<pos, outcome, job>>
    BY <1>3, ResolvingKeeps
  <2>2. \A d \in Task : pc'[d] = "strand" => pc[d] = "strand"
    BY <1>t, <1>3, ResolvingMoves
  <2>3. \A d \in Task : stranded'[d] \subseteq stranded[d]
    BY <1>t, <1>3 DEF Resolving, Skip, Resolve, PendingDrop, ResolveStranded, drainVars
  <2>4. QED
    BY <1>c, <2>1, <2>2, <2>3, StrandKept
<1>4. CASE Running(s)
  <2>1. UNCHANGED <<pos, job, stranded>>
    BY <1>4, RunningKeeps
  <2>2. PICK l \in {"step", "resolve", "unwind"} : pc' = [pc EXCEPT ![s] = l]
    BY <1>4, RunningJob
  <2>3. \A d \in Task : pc'[d] = "strand" => pc[d] = "strand"
    BY <1>t, <2>2
  <2>4. ~Closed
    BY <1>4, RunningOpen
  <2>5. QED
    BY <2>1, <2>3, <2>4, StrandKept
<1>5. CASE NextEvent(s)
  <2>1. /\ UNCHANGED <<pos, outcome, stranded>> /\ pc' = [pc EXCEPT ![s] = "turn"]
        /\ \A d \in Task \ {s} : job'[d] = job[d]
    BY <1>5, <1>t DEF NextEvent, DrainKeeps, orderVars
  <2>2. \A d \in Task : pc'[d] = "strand" => d # s /\ pc[d] = "strand"
    BY <1>t, <2>1
  <2>3. QED
    BY <1>c, <2>1, <2>2, StrandKept
<1>6. CASE Handover(s)
  <2>1. /\ UNCHANGED <<pos, outcome, job>> /\ pc' = [pc EXCEPT ![s] = "strand"]
        /\ \A d \in Task \ {s} : stranded'[d] = stranded[d]
        /\ stranded'[s] = {} \/ (terminated' /\ stranded'[s] = Range(events))
    BY <1>6, <1>t DEF Handover, DrainKeeps, orderVars
  <2>2. job[s] # Nobody
    BY <1>6, PoppingClosed
  <2>3. \A t \in stranded'[s] : pos[t] > 0 /\ outcome[t] = "unrun" /\ Closed'
    BY <2>1 DEF Queue, Closed
  <2>4. \A d \in Task \ {s} : pc'[d] = "strand" => pc[d] = "strand"
    BY <1>t, <2>1
  <2>5. QED
    BY <1>c, <2>1, <2>2, <2>3, <2>4 DEF Strand
<1>7. QED
  BY <1>1, <1>2, <1>3, <1>4, <1>5, <1>6 DEF Acts

-----------------------------------------------------------------------------
(* Order.                                                                  *)

\* The accepted events that have not started and will.
Ahead(t) == t \in Range(events) \/ \E d \in Task : pc[d] = "turn" /\ job[d] = t

\* A step that neither accepts nor runs an event.
LEMMA OrderKept ==
    ASSUME TypeOK, Order, UNCHANGED <<pos, outcome>>, Closed => Closed',
           \A d \in Task : pc[d] = "step" => pc'[d] = "step" /\ job'[d] = job[d],
           \A t \in Task : Ahead(t) => Ahead(t)' \/ Closed'
    PROVE  Order'
<1>1. \A t \in Task : outcome'[t] = "running" => \E d \in Task : pc'[d] = "step" /\ job'[d] = t
  BY DEF Order
<1>2. \A t \in Task : outcome'[t] = "unrun" /\ pos'[t] > 0 /\ ~Closed' => Ahead(t)'
  BY DEF Order, Ahead
<1>3. QED
  BY <1>1, <1>2 DEF Order, Ahead

\* Quiet steps start and finish nothing.
LEMMA QuietOrder ==
    ASSUME Unwound = {}, TypeOK, Strand, Order, NEW s \in Task, Quiet(s)
    PROVE  Order'
<1>t. pc \in [Task -> Labels] /\ job \in [Task -> Task \union {Nobody}]
  BY DEF TypeOK
<1>k. UNCHANGED <<events, pos, outcome, job, dead, terminated>>
  BY QuietKeeps
<1>1. PICK l : /\ pc' = [pc EXCEPT ![s] = l]
               /\ \/ l = pc[s]
                  \/ pc[s] \in {"start", "offer", "probe", "strand", "await", "forget", "polled"}
                  \/ pc[s] = "turn" /\ job[s] = Nobody
  BY QuietMoves
<1>2. \A d \in Task : pc[d] = "step" \/ (pc[d] = "turn" /\ job[d] \in Task) => pc'[d] = pc[d]
  BY <1>t, <1>1, FifoAssumption
<1>3. \A t \in Task : Ahead(t) => Ahead(t)'
  BY <1>k, <1>2 DEF Ahead
<1>4. Closed' <=> Closed
  BY <1>k DEF Closed
<1>5. QED
  BY <1>k, <1>2, <1>3, <1>4, OrderKept

\* An event is skipped only when the machine is in X.
LEMMA ResolvingOrder ==
    ASSUME TypeOK, Closing, Order, NEW s \in Task, Resolving(s)
    PROVE  Order'
<1>t. pc \in [Task -> Labels]
  BY DEF TypeOK
<1>k. UNCHANGED <<events, pos, outcome, job, dead, terminated>>
  BY ResolvingKeeps
<1>1. \A d \in Task \ {s} : pc'[d] = pc[d]
  BY <1>t, ResolvingMoves
<1>2. pc[s] # "step" /\ (pc[s] = "turn" => Skip(s))
  BY DEF Resolving, Skip, HasTurn, Resolve, PendingDrop, ResolveStranded
<1>3. pc[s] = "turn" => Closed
  BY <1>2 DEF Skip, HasTurn, Closing, Closed
<1>4. Closed' <=> Closed
  BY <1>k DEF Closed
<1>5. \A t \in Task : Ahead(t) => Ahead(t)' \/ Closed'
  BY <1>k, <1>1, <1>3, <1>4 DEF Ahead
<1>6. QED
  BY <1>k, <1>1, <1>2, <1>4, <1>5, OrderKept

\* A popped event is the oldest that has not started.
LEMMA PoppingOrder ==
    ASSUME TypeOK, Consumer, Closing, Order, NEW s \in Task, NextEvent(s) \/ Handover(s)
    PROVE  Order'
<1> USE DEF Goto
<1>t. /\ pc \in [Task -> Labels] /\ job \in [Task -> Task \union {Nobody}]
      /\ events \in Seq(Task)
  BY DEF TypeOK
<1>k. UNCHANGED <<pos, outcome>>
  BY DEF NextEvent, Handover, DrainKeeps, orderVars
<1>1. /\ \A d \in Task \ {s} : pc'[d] = pc[d] /\ job'[d] = job[d]
      /\ pc[s] \in {"next", "handover"}
  BY <1>t DEF NextEvent, Handover
<1>2. Closed => Closed'
  BY PoppingClosed
<1>3. ASSUME NEW t \in Task, Ahead(t), ~Closed'
      PROVE  Ahead(t)'
  <2>1. CASE \E d \in Task : pc[d] = "turn" /\ job[d] = t
    BY <1>1, <2>1 DEF Ahead
  <2>2. CASE t \in Range(events) /\ NextEvent(s)
    <3>1. events # << >>
      BY <2>2 DEF Range
    <3>2. job'[s] = Head(events) /\ pc'[s] = "turn" /\ events' = Tail(events)
      BY <1>t, <2>2, <3>1 DEF NextEvent, Popped
    <3>3. t = Head(events) \/ t \in Range(Tail(events))
      BY <1>t, <2>2, <3>1, RangePop
    <3>4. QED
      BY <3>2, <3>3 DEF Ahead
  <2>3. CASE t \in Range(events) /\ Handover(s)
    <3>1. events' = events
      BY <1>3, <2>3 DEF Handover, Closed
    <3>2. QED
      BY <2>3, <3>1 DEF Ahead
  <2>4. QED
    BY <1>3, <2>1, <2>2, <2>3 DEF Ahead
<1>4. QED
  BY <1>k, <1>1, <1>2, <1>3, OrderKept

\* An accepted event is younger than all that started.
LEMMA AcceptingOrder ==
    ASSUME TypeOK, Consumer, Numbering, Queue, Order, NEW s \in Task, Accepting(s)
    PROVE  Order'
<1> USE DEF Goto
<1>t. /\ pos \in [Task -> Nat] /\ issued \in Nat /\ events \in Seq(Task)
      /\ pc \in [Task -> Labels] /\ job \in [Task -> Task \union {Nobody}]
  BY DEF TypeOK
<1>k. /\ UNCHANGED <<outcome, dead, terminated>> /\ pc[s] \in {"start", "offer"}
      /\ pos' = [pos EXCEPT ![s] = issued + 1]
      /\ \A t \in Task \ {s} : job'[t] = job[t]
  BY AcceptingKeeps
<1>f. outcome[s] = "unrun"
  BY <1>k, Fresh
<1>p. /\ \A t \in Task \ {s} : pos'[t] = pos[t]
      /\ \A t \in Task : pos[t] < pos'[s]
  <2>1. pos'[s] = issued + 1 /\ \A t \in Task \ {s} : pos'[t] = pos[t]
    BY <1>t, <1>k
  <2>2. \A t \in Task : pos[t] <= issued
    BY DEF Numbering
  <2>3. QED
    BY <1>t, <2>1, <2>2
<1>c. \A d \in Task \ {s} : pc'[d] = pc[d]
  BY <1>t DEF Accepting, OfferQueued, Answer, OfferBehind, OfferIdle, StartDrain
<1>1. \A t, u \in Task :
        outcome'[t] = "unrun" /\ pos'[t] > 0 /\ outcome'[u] # "unrun" => pos'[u] < pos'[t]
  <2> SUFFICES ASSUME NEW t \in Task, NEW u \in Task, outcome[t] = "unrun", pos'[t] > 0,
                      outcome[u] # "unrun"
               PROVE  pos'[u] < pos'[t]
    BY <1>k
  <2>1. u # s /\ pos'[u] = pos[u]
    BY <1>f, <1>p
  <2>2. CASE t = s
    BY <1>p, <2>1, <2>2
  <2>3. CASE t # s
    BY <1>p, <2>1, <2>3 DEF Order
  <2>4. QED
    BY <2>2, <2>3
<1>2. \A t, u \in Task : outcome'[t] = "running" /\ outcome'[u] # "unrun" => pos'[u] <= pos'[t]
  <2> SUFFICES ASSUME NEW t \in Task, NEW u \in Task, outcome[t] = "running", outcome[u] # "unrun"
               PROVE  pos'[u] <= pos'[t]
    BY <1>k
  <2>1. u # s /\ t # s
    BY <1>f
  <2>2. pos'[u] = pos[u] /\ pos'[t] = pos[t]
    BY <1>p, <2>1
  <2>3. QED
    BY <2>2 DEF Order
<1>3. \A t \in Task : outcome'[t] = "running" => \E d \in Task : pc'[d] = "step" /\ job'[d] = t
  BY <1>k, <1>c DEF Order
<1>4. \A t \in Task : Ahead(t) => Ahead(t)'
  <2> SUFFICES ASSUME NEW t \in Task, t \in Range(events) PROVE Ahead(t)'
    BY <1>k, <1>c DEF Ahead
  <2>1. CASE OfferQueued(s)
    BY <1>t, <2>1, RangeAppend DEF OfferQueued, Ahead
  <2>2. CASE OfferBehind(s)
    <3>1. /\ events # << >> /\ events' = Append(Tail(events), s) /\ Tail(events) \in Seq(Task)
          /\ job'[s] = Head(events) /\ pc'[s] = "turn"
      BY <1>t, <2>2, PopTyped DEF OfferBehind, StartDrain, Popped
    <3>2. Range(events') = Range(Tail(events)) \union {s}
      BY <3>1, RangeAppend
    <3>3. Range(events) = {Head(events)} \union Range(Tail(events))
      BY <1>t, <3>1, RangePop
    <3>4. QED
      BY <3>1, <3>2, <3>3 DEF Ahead
  <2>3. CASE OfferIdle(s)
    BY <2>3 DEF OfferIdle, Ahead
  <2>4. QED
    BY <2>1, <2>2, <2>3 DEF Accepting
<1>5. Ahead(s)'
  <2>1. CASE OfferQueued(s)
    BY <1>t, <2>1, RangeAppend DEF OfferQueued, Ahead
  <2>2. CASE OfferBehind(s)
    <3>1. events' = Append(Tail(events), s) /\ Tail(events) \in Seq(Task)
      BY <2>2, PopTyped DEF OfferBehind, Popped
    <3>2. QED
      BY <3>1, RangeAppend DEF Ahead
  <2>3. CASE OfferIdle(s)
    BY <1>t, <2>3 DEF OfferIdle, StartDrain, Ahead
  <2>4. QED
    BY <2>1, <2>2, <2>3 DEF Accepting
<1>6. \A t \in Task : outcome'[t] = "unrun" /\ pos'[t] > 0 /\ ~Closed' => Ahead(t)'
  <2> SUFFICES ASSUME NEW t \in Task, outcome[t] = "unrun", pos'[t] > 0, ~Closed, t # s
               PROVE  Ahead(t)
    BY <1>k, <1>4, <1>5 DEF Closed
  <2>1. pos[t] > 0
    BY <1>p
  <2>2. QED
    BY <2>1 DEF Order, Ahead
<1>7. QED
  BY <1>1, <1>2, <1>3, <1>6 DEF Order, Ahead

\* The event that starts is the oldest that has not, and nothing else runs.
LEMMA RunningOrder ==
    ASSUME TypeOK, Consumer, Closing, Numbering, Hand, Order, NEW s \in Task, Running(s)
    PROVE  Order'
<1> USE DEF Goto
<1>t. /\ pos \in [Task -> Nat] /\ outcome \in [Task -> Outcomes] /\ pc \in [Task -> Labels]
  BY DEF TypeOK
<1>k. UNCHANGED <<events, pos, job>>
  BY RunningKeeps
<1>j. /\ job[s] \in Task /\ job[s] # Nobody /\ pos[job[s]] > 0 /\ pc[s] \in {"turn", "step"}
      /\ \A t \in Task \ {job[s]} : outcome'[t] = outcome[t]
      /\ \A d \in Task \ {s} : pc'[d] = pc[d]
  BY <1>t, RunningJob, FifoAssumption
<1>h. HandAt(s)
  BY <1>j DEF Hand, HandLabels
<1>o. ~Closed
  BY RunningOpen
<1>a. \A d \in Task : pc[d] \in {"turn", "step"} /\ job[d] \in Task => d = s
  BY <1>j, Alone, FifoAssumption DEF DrainLabels
<1>r. \A t \in Task : outcome[t] = "running" => t = job[s]
  BY <1>a DEF Order
<1>1. CASE StepBegin(s)
  <2>1. pc[s] = "turn" /\ pc'[s] = "step" /\ outcome'[job[s]] = "running"
    BY <1>t, <1>1, <1>j DEF StepBegin, HasTurn
  <2>2. outcome[job[s]] = "unrun" /\ \A e \in Range(events) : pos[job[s]] < pos[e]
    BY <1>h, <2>1 DEF HandAt
  <2>3. \A t \in Task \ {job[s]} : outcome[t] = "unrun" /\ pos[t] > 0 => t \in Range(events)
    BY <1>a, <1>o DEF Order
  <2>4. \A t, u \in Task :
          outcome'[t] = "unrun" /\ pos'[t] > 0 /\ outcome'[u] # "unrun" => pos'[u] < pos'[t]
    <3> SUFFICES ASSUME NEW t \in Task, NEW u \in Task, outcome'[t] = "unrun", pos[t] > 0,
                        outcome'[u] # "unrun"
                 PROVE  pos[u] < pos[t]
      BY <1>k
    <3>1. t # job[s] /\ outcome[t] = "unrun"
      BY <1>j, <2>1
    <3>2. CASE u = job[s]
      BY <2>2, <2>3, <3>1, <3>2
    <3>3. CASE u # job[s]
      BY <1>j, <3>1, <3>3 DEF Order
    <3>4. QED
      BY <3>2, <3>3
  <2>5. \A t, u \in Task : outcome'[t] = "running" /\ outcome'[u] # "unrun" => pos'[u] <= pos'[t]
    <3> SUFFICES ASSUME NEW t \in Task, NEW u \in Task, outcome'[t] = "running",
                        outcome'[u] # "unrun"
                 PROVE  pos[u] <= pos[t]
      BY <1>k
    <3>1. t = job[s]
      BY <1>j, <1>r
    <3>2. CASE u = job[s]
      BY <1>t, <3>1, <3>2
    <3>3. CASE u # job[s]
      <4>1. pos[u] < pos[job[s]]
        BY <1>j, <2>2, <3>3 DEF Order
      <4>2. QED
        BY <1>t, <1>j, <3>1, <4>1
    <3>4. QED
      BY <3>2, <3>3
  <2>6. \A t \in Task : outcome'[t] = "running" => \E d \in Task : pc'[d] = "step" /\ job'[d] = t
    BY <1>j, <1>k, <1>r, <2>1
  <2>7. \A t \in Task : outcome'[t] = "unrun" /\ pos'[t] > 0 => t \in Range(events')
    BY <1>j, <1>k, <2>1, <2>3
  <2>8. QED
    BY <2>4, <2>5, <2>6, <2>7 DEF Order
<1>2. CASE StepReturn(s) \/ StepPanic(s)
  <2>1. /\ pc[s] = "step" /\ pc'[s] # "step"
        /\ outcome'[job[s]] \in {"true", "false", "panicked"}
    BY <1>t, <1>2, <1>j DEF StepReturn, StepPanic
  <2>2. outcome[job[s]] = "running"
    BY <1>h, <2>1 DEF HandAt
  <2>3. \A t \in Task : /\ outcome'[t] = "unrun" <=> outcome[t] = "unrun"
                        /\ outcome'[t] # "running"
    BY <1>j, <1>r, <2>1, <2>2
  <2>4. \A t \in Task : outcome[t] = "unrun" /\ pos[t] > 0 => t \in Range(events)
    BY <1>a, <1>o, <2>1 DEF Order
  <2>5. QED
    BY <1>k, <2>3, <2>4 DEF Order
<1>3. QED
  BY <1>1, <1>2 DEF Running

-----------------------------------------------------------------------------
(* Answers.                                                                *)

\* What is true of an event's outcome stays true.
LEMMA TruthStays ==
    ASSUME TypeOK, Consumer, Closing, Hand, NEW s \in Task, Acts(s),
           NEW t \in Task, NEW b, TrueOf(t, b)
    PROVE  TrueOf(t, b)'
<1>c. Closed => Closed'
  BY ClosedStays
<1>1. CASE UNCHANGED outcome
  BY <1>1, <1>c DEF TrueOf, Unreachable, Closed
<1>2. CASE Running(s)
  <2>1. /\ \A u \in Task \ {job[s]} : outcome'[u] = outcome[u]
        /\ outcome[job[s]] \in {"unrun", "running"} /\ ~Closed
    BY <1>2, RunningJob, RunningRuns, RunningOpen
  <2>2. CASE t = job[s]
    BY <2>1, <2>2 DEF TrueOf, Unreachable, Closed
  <2>3. CASE t # job[s]
    BY <1>c, <2>1, <2>3 DEF TrueOf, Unreachable, Closed
  <2>4. QED
    BY <2>2, <2>3
<1>3. CASE Quiet(s) \/ Accepting(s) \/ Resolving(s) \/ NextEvent(s) \/ Handover(s)
  BY <1>1, <1>3, QuietKeeps, AcceptingKeeps, ResolvingKeeps DEF NextEvent, Handover
<1>4. QED
  BY <1>2, <1>3 DEF Acts

\* The drainer's own result stays what it is, while `first` does.
LEMMA OwnStays ==
    ASSUME TypeOK, Consumer, Closing, Hand, NEW s \in Task, Acts(s),
           NEW t \in Task, OwnDone(t), first'[t] = first[t]
    PROVE  OwnDone(t)'
<1>1. CASE Running(s)
  <2>1. /\ \A u \in Task \ {job[s]} : outcome'[u] = outcome[u]
        /\ outcome[job[s]] \in {"unrun", "running"}
    BY <1>1, RunningJob, RunningRuns
  <2>2. t # job[s]
    BY <2>1 DEF OwnDone
  <2>3. QED
    BY <2>1, <2>2 DEF OwnDone
<1>2. CASE Quiet(s) \/ Accepting(s) \/ Resolving(s) \/ NextEvent(s) \/ Handover(s)
  <2>1. UNCHANGED outcome
    BY <1>2, QuietKeeps, AcceptingKeeps, ResolvingKeeps DEF NextEvent, Handover
  <2>2. QED
    BY <2>1 DEF OwnDone
<1>3. QED
  BY <1>1, <1>2 DEF Acts

Told(t) == pc[t] \in {"forget", "await", "polled", "ready"} => TrueOf(t, completion[t])
Own(t) == pc[t] \in {"turn", "step", "resolve", "next"} /\ ticket[t] = "none" =>
              OwnDone(t) \/ (job[t] = t /\ pc[t] # "next")

\* A step of task s leaves the answers of the others alone.
LEMMA AnswersKept ==
    ASSUME TypeOK, Consumer, Closing, Hand, Answers, NEW s \in Task, Acts(s),
           NEW l, pc' = [pc EXCEPT ![s] = l],
           \A t \in Task \ {s} : /\ completion'[t] = completion[t] /\ first'[t] = first[t]
                                 /\ job'[t] = job[t],
           \A t \in Task : ticket[t] # "none" => ticket'[t] # "none",
           \A t \in Task : ticket'[t] = ticket[t] \/ TrueOf(t, ticket[t])',
           Told(s)', Own(s)'
    PROVE  Answers'
<1>t. pc \in [Task -> Labels]
  BY DEF TypeOK
<1> SUFFICES ASSUME NEW t \in Task PROVE (TrueOf(t, ticket[t]) /\ Told(t) /\ Own(t))'
  BY DEF Answers, Told, Own
<1>1. TrueOf(t, ticket[t])'
  <2>1. CASE ticket'[t] = ticket[t]
    <3>1. PICK b : b = ticket[t]
      OBVIOUS
    <3>2. TrueOf(t, b)
      BY <3>1 DEF Answers
    <3>3. TrueOf(t, b)'
      BY <3>2, TruthStays
    <3>4. QED
      BY <2>1, <3>1, <3>3 DEF TrueOf
  <2>2. QED
    BY <2>1
<1>2. CASE t = s
  BY <1>1, <1>2
<1>3. CASE t # s
  <2>1. /\ pc'[t] = pc[t] /\ completion'[t] = completion[t] /\ first'[t] = first[t]
        /\ job'[t] = job[t]
    BY <1>t, <1>3
  <2>2. Told(t)'
    <3>1. PICK b : b = completion[t]
      OBVIOUS
    <3>2. Told(t) => (pc[t] \in {"forget", "await", "polled", "ready"} => TrueOf(t, b)')
      BY <3>1, TruthStays DEF Told
    <3>3. QED
      BY <2>1, <3>1, <3>2 DEF Answers, Told, TrueOf
  <2>3. Own(t)'
    BY <2>1, OwnStays DEF Answers, Own
  <2>4. QED
    BY <1>1, <2>2, <2>3
<1>4. QED
  BY <1>2, <1>3

\* The end of a poll passes on what it was told before, or what the ticket says.
LEMMA PollEndTold ==
    ASSUME TypeOK, Answers, NEW s \in Task, PollEnd(s), UNCHANGED <<outcome, dead, terminated, ticket>>,
           pc[s] \in {"await", "polled"}
    PROVE  Told(s)'
<1>1. TrueOf(s, completion[s]) /\ TrueOf(s, ticket[s])
  BY DEF Answers
<1>2. completion'[s] = completion[s] \/ completion'[s] = ticket[s]
  BY DEF PollEnd, TypeOK
<1>3. TrueOf(s, completion[s])'
  BY <1>1, <1>2 DEF TrueOf, Unreachable
<1>4. QED
  BY <1>3 DEF Told

\* What a poll or a drain returns is true of the event.
LEMMA QuietAnswers ==
    ASSUME Unwound = {}, TypeOK, Consumer, Closing, Numbering, Queue, Hand, Strand, Answers,
           NEW s \in Task, Quiet(s)
    PROVE  Answers'
<1> USE DEF Goto
<1>t. /\ pc \in [Task -> Labels] /\ completion \in [Task -> Completions]
      /\ ticket \in [Task -> Tickets] /\ first \in [Task -> BOOLEAN]
  BY DEF TypeOK
<1>k. UNCHANGED <<outcome, dead, terminated, ticket, job>>
  BY QuietKeeps
<1>1. PICK l : /\ pc' = [pc EXCEPT ![s] = l]
               /\ \A d \in Task \ {s} : first'[d] = first[d] /\ completion'[d] = completion[d]
               /\ \/ l = pc[s] /\ UNCHANGED <<first, completion>>
                  \/ l \in {"forget", "await", "rejected", "handover", "panicked", "offer",
                            "polled", "ready", "dropped"}
  BY QuietMoves
<1>2. pc'[s] = l
  BY <1>t, <1>1
<1>3. Own(s)'
  BY <1>k, <1>1, <1>2 DEF Own, OwnDone, Answers
<1>4. Told(s)'
  <2>1. CASE OfferClosed(s)
    <3>1. terminated /\ pc[s] \in {"start", "offer"} /\ completion'[s] = "false"
      BY <1>t, <2>1 DEF OfferClosed, Offering, Answer
    <3>2. outcome[s] = "unrun"
      BY <3>1, Fresh
    <3>3. QED
      BY <1>k, <3>1, <3>2 DEF Told, TrueOf, Unreachable
  <2>2. CASE OfferFull(s)
    <3>1. pc'[s] = "rejected" \/ completion'[s] = "room"
      BY <1>t, <2>2 DEF OfferFull
    <3>2. QED
      BY <3>1 DEF Told, TrueOf
  <2>3. CASE WakeNext(s)
    <3>1. UNCHANGED <<pc, completion>>
      BY <2>3 DEF WakeNext
    <3>2. QED
      BY <1>k, <3>1 DEF Answers, Told, TrueOf, Unreachable
  <2>4. CASE DrainReturn(s)
    <3>1. /\ pc[s] = "turn" /\ job[s] = Nobody
          /\ completion'[s] = IF ticket[s] # "none" THEN "queued"
                              ELSE IF first[s] THEN "true" ELSE "false"
      BY <1>t, <2>4 DEF DrainReturn, DrainAnswer, Answer
    <3>2. ticket[s] = "none" => OwnDone(s)
      BY <3>1, FifoAssumption DEF Answers
    <3>3. TrueOf(s, completion[s])'
      BY <1>k, <3>1, <3>2 DEF TrueOf, OwnDone
    <3>4. QED
      BY <3>3 DEF Told
  <2>5. CASE Probe(s) \/ Unwind(s)
    <3>1. l \in {"handover", "panicked"}
      BY <1>2, <1>t, <2>5 DEF Probe, Unwind, Strand
    <3>2. QED
      BY <1>2, <3>1 DEF Told
  <2>6. CASE PollRoom(s)
    BY <1>t, <2>6 DEF PollRoom, Told
  <2>7. CASE PollSettled(s) \/ PollAnswered(s)
    BY <1>k, <2>7, PollEndTold DEF PollSettled, PollAnswered
  <2>8. CASE forget(s) \/ DropCompletion(s)
    <3>1. completion' = completion /\ pc[s] \in {"forget", "await"}
      BY <2>8 DEF forget, DropCompletion
    <3>2. QED
      BY <1>k, <3>1 DEF Answers, Told, TrueOf, Unreachable
  <2>9. QED
    BY <2>1, <2>2, <2>3, <2>4, <2>5, <2>6, <2>7, <2>8 DEF Quiet, Poll
<1>5. Acts(s)
  BY DEF Acts
<1>6. QED
  BY <1>k, <1>1, <1>3, <1>4, <1>5, AnswersKept

\* Accepting an event tells its caller nothing yet.
LEMMA AcceptingAnswers ==
    ASSUME TypeOK, Consumer, Closing, Numbering, Queue, Hand, Answers, NEW s \in Task, Accepting(s)
    PROVE  Answers'
<1> USE DEF Goto
<1>t. /\ pc \in [Task -> Labels] /\ completion \in [Task -> Completions]
      /\ ticket \in [Task -> Tickets] /\ job \in [Task -> Task \union {Nobody}]
  BY DEF TypeOK
<1>k. /\ UNCHANGED first /\ pc[s] \in {"start", "offer"}
      /\ \A t \in Task \ {s} : /\ job'[t] = job[t] /\ ticket'[t] = ticket[t]
                               /\ completion'[t] = completion[t]
  BY AcceptingKeeps
<1>1. ticket[s] = "none"
  BY <1>k, Fresh
<1>2. ticket'[s] \in {"none", "open"}
  BY <1>t, <1>1 DEF Accepting, OfferQueued, OfferBehind, OfferIdle
<1>3. \A t \in Task : ticket'[t] = ticket[t] \/ TrueOf(t, ticket[t])'
  BY <1>k, <1>2 DEF TrueOf
<1>4. /\ \E l : pc' = [pc EXCEPT ![s] = l]
      /\ Told(s)' /\ Own(s)'
  <2>1. CASE OfferQueued(s)
    <3>1. PICK l \in {"forget", "await"} : pc' = [pc EXCEPT ![s] = l]
      BY <2>1 DEF OfferQueued, Answer
    <3>2. completion'[s] = "queued" /\ pc'[s] = l
      BY <1>t, <2>1, <3>1 DEF OfferQueued, Answer
    <3>3. QED
      BY <3>1, <3>2 DEF Told, Own, TrueOf
  <2>2. CASE OfferBehind(s)
    <3>1. pc' = [pc EXCEPT ![s] = "turn"] /\ pc'[s] = "turn" /\ ticket'[s] = "open"
      BY <1>t, <2>2 DEF OfferBehind, StartDrain
    <3>2. QED
      BY <3>1 DEF Told, Own
  <2>3. CASE OfferIdle(s)
    <3>1. pc' = [pc EXCEPT ![s] = "turn"] /\ pc'[s] = "turn" /\ job'[s] = s
      BY <1>t, <2>3 DEF OfferIdle, StartDrain
    <3>2. QED
      BY <3>1 DEF Told, Own
  <2>4. QED
    BY <2>1, <2>2, <2>3 DEF Accepting
<1>5. Acts(s)
  BY DEF Acts
<1>6. \A t \in Task : ticket[t] # "none" => ticket'[t] # "none"
  BY <1>k, <1>1
<1>7. \A t \in Task \ {s} : /\ completion'[t] = completion[t] /\ first'[t] = first[t]
                            /\ job'[t] = job[t]
  BY <1>k
<1>8. QED
  BY <1>3, <1>4, <1>5, <1>6, <1>7, AnswersKept

\* The ticket is resolved with what became of the event in hand.
LEMMA ResolvingAnswers ==
    ASSUME TypeOK, Consumer, Closing, Hand, Strand, Answers, NEW s \in Task, Resolving(s)
    PROVE  Answers'
<1>t. /\ pc \in [Task -> Labels] /\ ticket \in [Task -> Tickets] /\ reply \in [Task -> BOOLEAN]
      /\ job \in [Task -> Task \union {Nobody}] /\ stranded \in [Task -> SUBSET Task]
      /\ first \in [Task -> BOOLEAN]
  BY DEF TypeOK
<1>k. UNCHANGED <<outcome, dead, terminated, job, completion>>
  BY ResolvingKeeps
<1>a. Acts(s)
  BY DEF Acts
<1>b. \A t \in Task : ticket[t] # "none" => ticket'[t] # "none"
  BY TicketStays
<1>1. CASE Skip(s)
  <2>1. /\ pc[s] = "turn" /\ job[s] # Nobody /\ seen[s] /\ ResolveTicket(job[s], FALSE)
        /\ UNCHANGED first /\ pc' = [pc EXCEPT ![s] = "next"] /\ pc'[s] = "next"
    BY <1>t, <1>1 DEF Skip, HasTurn, drainVars, Goto
  <2>2. job[s] \in Task /\ HandAt(s) /\ dead
    BY <1>t, <2>1 DEF Hand, HandLabels, Closing
  <2>3. ticket'[job[s]] = "false" /\ \A t \in Task \ {job[s]} : ticket'[t] = ticket[t]
    BY <2>1, <2>2, ResolvedTo
  <2>4. \A t \in Task : ticket'[t] = ticket[t] \/ TrueOf(t, ticket[t])'
    BY <1>k, <2>1, <2>2, <2>3 DEF HandAt, TrueOf, Unreachable
  <2>5. Own(s)'
    <3>1. ticket'[s] = "none" => ticket[s] = "none" /\ job[s] # s
      BY <2>3
    <3>2. ticket'[s] = "none" => OwnDone(s)
      BY <2>1, <3>1 DEF Answers
    <3>3. QED
      BY <1>k, <2>1, <3>2 DEF Own, OwnDone
  <2>6. Told(s)'
    BY <2>1 DEF Told
  <2>7. QED
    BY <1>k, <1>a, <1>b, <2>1, <2>4, <2>5, <2>6, AnswersKept
<1>2. CASE Resolve(s)
  <2>1. /\ pc[s] = "resolve" /\ pc' = [pc EXCEPT ![s] = "next"] /\ pc'[s] = "next"
        /\ \A t \in Task \ {s} : first'[t] = first[t]
    BY <1>t, <1>2 DEF Resolve, Goto
  <2>2. job[s] # Nobody
    BY <2>1 DEF Consumer, DrainLabels
  <2>3. job[s] \in Task /\ HandAt(s)
    BY <1>t, <2>1, <2>2 DEF Hand, HandLabels
  <2>4. outcome[job[s]] = IF reply[s] THEN "true" ELSE "false"
    BY <2>1, <2>3 DEF HandAt
  <2>5. Told(s)'
    BY <2>1 DEF Told
  <2>6. CASE ticket[job[s]] = "none"
    <3>1. UNCHANGED ticket /\ first' = [first EXCEPT ![s] = reply[s]]
      BY <1>2, <2>6 DEF Resolve, ticketVars
    <3>2. job[s] = s
      BY <2>3, <2>6 DEF HandAt
    <3>3. first'[s] = reply[s]
      BY <1>t, <3>1
    <3>4. OwnDone(s)'
      BY <1>t, <1>k, <2>4, <3>2, <3>3 DEF OwnDone
    <3>5. Own(s)'
      BY <3>4 DEF Own
    <3>6. QED
      BY <1>k, <1>a, <2>1, <2>5, <3>1, <3>5, AnswersKept
  <2>7. CASE ticket[job[s]] # "none"
    <3>1. ResolveTicket(job[s], reply[s]) /\ UNCHANGED first
      BY <1>2, <2>7 DEF Resolve
    <3>2. /\ ticket'[job[s]] = IF reply[s] THEN "true" ELSE "false"
          /\ \A t \in Task \ {job[s]} : ticket'[t] = ticket[t]
      BY <1>t, <2>3, <3>1, ResolvedTo
    <3>3. \A t \in Task : ticket'[t] = ticket[t] \/ TrueOf(t, ticket[t])'
      BY <1>k, <2>4, <3>2 DEF TrueOf
    <3>4. Own(s)'
      <4>1. ticket'[s] = "none" => ticket[s] = "none" /\ job[s] # s
        BY <2>7, <3>2
      <4>2. ticket'[s] = "none" => OwnDone(s)
        BY <2>1, <4>1 DEF Answers
      <4>3. QED
        BY <1>k, <3>1, <4>2 DEF Own, OwnDone
    <3>5. QED
      BY <1>k, <1>a, <1>b, <2>1, <2>5, <3>3, <3>4, AnswersKept
  <2>8. QED
    BY <2>6, <2>7
<1>3. CASE PendingDrop(s)
  <2>1. /\ pc[s] = "unwind" /\ pc' = [pc EXCEPT ![s] = "probe"] /\ pc'[s] = "probe"
        /\ UNCHANGED first
    BY <1>t, <1>3 DEF PendingDrop, drainVars, Goto
  <2>2. job[s] # Nobody
    BY <2>1 DEF Consumer, DrainLabels
  <2>3. job[s] \in Task /\ outcome[job[s]] = "panicked"
    BY <1>t, <2>1, <2>2 DEF Hand, HandAt, HandLabels
  <2>4. \A t \in Task : ticket'[t] = ticket[t] \/ TrueOf(t, ticket[t])'
    <3>1. CASE UNCHANGED ticket
      BY <3>1
    <3>2. CASE ResolveTicket(job[s], FALSE)
      <4>1. ticket'[job[s]] = "false" /\ \A t \in Task \ {job[s]} : ticket'[t] = ticket[t]
        BY <2>3, <3>2, ResolvedTo
      <4>2. QED
        BY <1>k, <2>3, <4>1 DEF TrueOf
    <3>3. QED
      BY <1>3, <3>1, <3>2 DEF PendingDrop, ticketVars
  <2>5. Told(s)' /\ Own(s)'
    BY <2>1 DEF Told, Own
  <2>6. QED
    BY <1>k, <1>a, <1>b, <2>1, <2>4, <2>5, AnswersKept
<1>4. CASE ResolveStranded(s)
  <2>1. /\ pc[s] = "strand" /\ UNCHANGED <<pc, first>> /\ pc' = [pc EXCEPT ![s] = "strand"]
    BY <1>t, <1>4 DEF ResolveStranded
  <2>2. PICK v \in stranded[s] : ResolveTicket(v, FALSE)
    BY <1>4 DEF ResolveStranded
  <2>3. v \in Task /\ outcome[v] = "unrun" /\ Closed
    BY <1>t, <2>1 DEF Strand
  <2>4. ticket'[v] = "false" /\ \A t \in Task \ {v} : ticket'[t] = ticket[t]
    BY <2>2, <2>3, ResolvedTo
  <2>5. \A t \in Task : ticket'[t] = ticket[t] \/ TrueOf(t, ticket[t])'
    BY <1>k, <2>3, <2>4 DEF TrueOf, Unreachable, Closed
  <2>6. Told(s)' /\ Own(s)'
    BY <2>1 DEF Told, Own
  <2>7. QED
    BY <1>k, <1>a, <1>b, <2>1, <2>5, <2>6, AnswersKept
<1>5. QED
  BY <1>1, <1>2, <1>3, <1>4 DEF Resolving

\* A step of the machine makes no answer already given false.
LEMMA RunningAnswers ==
    ASSUME TypeOK, Consumer, Closing, Hand, Answers, NEW s \in Task, Running(s)
    PROVE  Answers'
<1>t. pc \in [Task -> Labels]
  BY DEF TypeOK
<1>k. UNCHANGED <<job, first, ticket, completion>>
  BY RunningKeeps
<1>a. Acts(s)
  BY DEF Acts
<1>1. PICK l \in {"step", "resolve", "unwind"} : pc' = [pc EXCEPT ![s] = l]
  BY RunningJob
<1>2. pc[s] \in {"turn", "step"} /\ pc'[s] = l
  BY <1>t, <1>1, RunningJob
<1>3. ticket[s] = "none" => OwnDone(s)' \/ job[s] = s
  BY <1>a, <1>k, <1>2, OwnStays DEF Answers
<1>4. Told(s)' /\ Own(s)'
  BY <1>k, <1>2, <1>3 DEF Told, Own
<1>5. QED
  BY <1>k, <1>a, <1>1, <1>4, AnswersKept

\* Popping makes no answer already given false.
LEMMA PoppingAnswers ==
    ASSUME TypeOK, Consumer, Closing, Hand, Answers, NEW s \in Task, NextEvent(s) \/ Handover(s)
    PROVE  Answers'
<1>t. pc \in [Task -> Labels] /\ job \in [Task -> Task \union {Nobody}]
  BY DEF TypeOK
<1>k. /\ UNCHANGED <<first, ticket, completion>>
      /\ \A t \in Task \ {s} : job'[t] = job[t]
  BY <1>t DEF NextEvent, Handover, ticketVars
<1>a. Acts(s)
  BY DEF Acts
<1>1. \/ pc[s] = "next" /\ pc' = [pc EXCEPT ![s] = "turn"] /\ pc'[s] = "turn"
      \/ pc' = [pc EXCEPT ![s] = "strand"] /\ pc'[s] = "strand"
  BY <1>t DEF NextEvent, Handover, Goto
<1>2. pc[s] = "next" /\ ticket[s] = "none" => OwnDone(s)'
  BY <1>a, <1>k, OwnStays DEF Answers
<1>3. Told(s)' /\ Own(s)'
  BY <1>k, <1>1, <1>2 DEF Told, Own
<1>4. QED
  BY <1>k, <1>a, <1>1, <1>3, AnswersKept

-----------------------------------------------------------------------------
(* The inductive invariant.                                                *)

OrderInv ==
    TypeOK /\ Consumer /\ Closing /\ Numbering /\ Queue /\ Hand /\ Strand /\ Order /\ Answers

\* The invariant holds of a fresh cell.
LEMMA InitOrder == Init => OrderInv
<1> SUFFICES ASSUME Init PROVE OrderInv
  OBVIOUS
<1> USE DEF Init
<1>0. 0 <= 0 /\ ~(0 > 0)
  OBVIOUS
<1>1. TypeOK
  BY InitTyped
<1>2. Consumer
  BY DEF Consumer, SingleConsumer, Owns, DrainLabels
<1>3. Closing
  BY Zenon DEF Closing
<1>4. Numbering
  BY <1>0 DEF Numbering
<1>5. Queue
  BY DEF Queue, Ascending, Range
<1>6. Hand
  BY DEF Hand, HandLabels
<1>7. Strand
  BY DEF Strand
<1>8. Order
  BY <1>0 DEF Order
<1>9. Answers
  BY DEF Answers, TrueOf
<1>10. QED
  BY <1>1, <1>2, <1>3, <1>4, <1>5, <1>6, <1>7, <1>8, <1>9 DEF OrderInv

\* Every step is one of the five kinds, a query, or none.
LEMMA StepKinds ==
    ASSUME [Next]_vars
    PROVE  \/ \E s \in Task : Acts(s)
           \/ UNCHANGED <<events, draining, terminated, dead, pos, issued, outcome, ticket, job,
                          seen, reply, first, stranded, pc, completion>>
<1>1. CASE UNCHANGED vars
  BY <1>1 DEF vars, queueVars, machineVars, orderVars, ticketVars, drainVars
<1>2. CASE \E s \in Task : Step(s) \/ StepPanic(s) \/ Poll(s) \/ DropCompletion(s)
  BY <1>2 DEF Step, offer, drain, unwinding, Acts, Quiet, Accepting, Resolving, Running
<1>3. CASE \E r \in Reader : inspect(r)
  BY <1>3 DEF inspect, queueVars, orderVars, ticketVars, drainVars
<1>4. QED
  BY <1>1, <1>2, <1>3 DEF Next

\* Each kind of step preserves each part of the invariant.
LEMMA ActsInductive ==
    ASSUME Unwound = {}, OrderInv, [Next]_vars, NEW s \in Task, Acts(s)
    PROVE  OrderInv'
<1> USE DEF OrderInv
<1>1. TypeOK' /\ Consumer'
  BY TypeInductive, ConsumerInductive
<1>2. Strand'
  BY ActsStrand
<1>3. Closing'
  BY QuietClosing, AcceptingClosing, ResolvingClosing, RunningClosing, NextEventClosing,
     HandoverClosing DEF Acts
<1>4. Numbering'
  BY QuietNumbering, AcceptingNumbering, ResolvingNumbering, RunningNumbering, PoppingNumbering
     DEF Acts
<1>5. Queue'
  <2>1. CASE Quiet(s)
    BY <2>1, QuietKeeps, QueueKept
  <2>2. CASE Resolving(s)
    BY <2>2, ResolvingKeeps, TicketStays, QueueKept, QueuedTasks
  <2>3. QED
    BY <2>1, <2>2, AcceptingQueue, RunningQueue, PoppingQueue DEF Acts
<1>6. Hand'
  BY QuietHand, AcceptingHand, ResolvingHand, RunningHand, PoppingHand DEF Acts
<1>7. Order'
  BY QuietOrder, AcceptingOrder, ResolvingOrder, RunningOrder, PoppingOrder DEF Acts
<1>8. Answers'
  BY QuietAnswers, AcceptingAnswers, ResolvingAnswers, RunningAnswers, PoppingAnswers DEF Acts
<1>9. QED
  BY <1>1, <1>2, <1>3, <1>4, <1>5, <1>6, <1>7, <1>8

\* Every step preserves the invariant.
LEMMA OrderInductive ==
    ASSUME Unwound = {}, OrderInv, [Next]_vars
    PROVE  OrderInv'
<1>1. CASE \E s \in Task : Acts(s)
  BY <1>1, ActsInductive
<1>2. CASE UNCHANGED <<events, draining, terminated, dead, pos, issued, outcome, ticket, job,
                       seen, reply, first, stranded, pc, completion>>
  <2>1. TypeOK' /\ Consumer'
    BY TypeInductive, ConsumerInductive DEF OrderInv
  <2>2. Closing' /\ Numbering' /\ Queue'
    BY <1>2 DEF OrderInv, Closing, Numbering, Offering, Queue
  <2>3. Hand' /\ Strand' /\ Order'
    BY <1>2 DEF OrderInv, Hand, HandAt, Strand, Order, Closed
  <2>4. Answers'
    BY <1>2 DEF OrderInv, Answers, TrueOf, Unreachable, OwnDone
  <2>5. QED
    BY <2>1, <2>2, <2>3, <2>4 DEF OrderInv
<1>3. QED
  BY <1>1, <1>2, StepKinds

\* The invariant holds in every reachable state.
LEMMA AlwaysOrder ==
    ASSUME Unwound = {}
    PROVE  Spec => []OrderInv
<1>1. Init => OrderInv
  BY InitOrder
<1>2. OrderInv /\ [Next]_vars => OrderInv'
  BY OrderInductive
<1>3. QED
  BY <1>1, <1>2, PTL DEF Spec

\* StrictOrdering::GUARANTEES_FIFO and RUN_TO_COMPLETION for any number of
\* tasks: an event starts only when every event accepted before it has
\* finished, whichever tasks drain and whatever panics in between, unless a
\* task submits from a destructor of an unwinding thread.
THEOREM AlwaysInOrder ==
    ASSUME Unwound = {}
    PROVE  Spec => []RunsInOrder
<1>1. OrderInv => RunsInOrder
  <2> SUFFICES ASSUME OrderInv, NEW t \in Task, NEW u \in Task, 0 < pos[t], pos[t] < pos[u],
                      outcome[u] # "unrun"
               PROVE  outcome[t] \notin {"unrun", "running"}
    BY DEF RunsInOrder
  <2>1. pos[t] \in Nat /\ pos[u] \in Nat /\ pos[t] > 0
    BY DEF OrderInv, TypeOK
  <2>2. ~(pos[u] < pos[t]) /\ ~(pos[u] <= pos[t])
    BY <2>1
  <2>3. QED
    BY <2>1, <2>2 DEF OrderInv, Order
<1>2. QED
  BY <1>1, AlwaysOrder, PTL

\* A caller told `true` had its event accepted by the machine; one told `false`
\* had it rejected, saw it panic, or came too late for a machine in X.
THEOREM AlwaysTruthful ==
    ASSUME Unwound = {}
    PROVE  Spec => []ToldTheTruth
<1>1. OrderInv => ToldTheTruth
  BY DEF OrderInv, Answers, TrueOf, ToldTheTruth
<1>2. QED
  BY <1>1, AlwaysOrder, PTL

-----------------------------------------------------------------------------
(***************************************************************************)
(* The cell implements the contract of module StrictOrdering, for every    *)
(* set of tasks, every capacity and every machine, unless a task submits   *)
(* from a destructor of an unwinding thread.                               *)
(*                                                                         *)
(* The contract's line is the event a drainer holds, then the queue; most  *)
(* of the cell's steps (wakers, registrations, polls, resolving a caller,  *)
(* popping the next event) leave line, running, closed and verdict alone.  *)
(***************************************************************************)

\* The refinement mapping, as functions of the state it reads.
HandOf(p, j)    == {j[t] : t \in {u \in Task : p[u] = "turn" /\ j[u] # Nobody}}
StepOf(p, j)    == {j[t] : t \in {u \in Task : p[u] = "step"}}
LineOf(p, j, q) == Only(HandOf(p, j)) \o q
RunOf(p, j)     == IF StepOf(p, j) = {} THEN Nobody ELSE CHOOSE e \in StepOf(p, j) : TRUE
VerdictOf(o, n) ==
    [t \in Task |-> IF o[t] \in {"true", "false", "panicked"} THEN o[t]
                    ELSE IF n[t] > 0 THEN "accepted" ELSE "unknown"]

\* Every task but d neither holds an event nor runs one.
Apart(p, j, d) == \A u \in Task \ {d} : p[u] # "step" /\ (p[u] = "turn" => j[u] = Nobody)

\* One event in hand is a line of one.
LEMMA OnlyOne == ASSUME NEW e PROVE Only({e}) = <<e>>
BY DEF Only

\* The contract's line and running event, by where the drainer d is.
LEMMA TurnView ==
    ASSUME NEW p, NEW j, NEW q, NEW d \in Task, Apart(p, j, d), p[d] = "turn", j[d] # Nobody
    PROVE  LineOf(p, j, q) = <<j[d]>> \o q /\ RunOf(p, j) = Nobody
<1>1. HandOf(p, j) = {j[d]} /\ StepOf(p, j) = {}
  BY DEF HandOf, StepOf, Apart
<1>2. QED
  BY <1>1, OnlyOne DEF LineOf, RunOf

\* During a step the line is the queue and the event in hand runs.
LEMMA StepView ==
    ASSUME NEW p, NEW j, NEW q \in Seq(Task), NEW d \in Task, Apart(p, j, d), p[d] = "step"
    PROVE  LineOf(p, j, q) = q /\ RunOf(p, j) = j[d]
<1>1. HandOf(p, j) = {} /\ StepOf(p, j) = {j[d]}
  BY DEF HandOf, StepOf, Apart
<1>2. Only({}) = << >> /\ << >> \o q = q
  BY DEF Only
<1>3. StepOf(p, j) # {} /\ (CHOOSE e \in StepOf(p, j) : TRUE) \in StepOf(p, j)
  BY <1>1
<1>4. QED
  BY <1>1, <1>2, <1>3 DEF LineOf, RunOf

\* With nothing in hand the line is the queue and nothing runs.
LEMMA RestView ==
    ASSUME NEW p, NEW j, NEW q \in Seq(Task), NEW d \in Task, Apart(p, j, d), p[d] # "step",
           p[d] = "turn" => j[d] = Nobody
    PROVE  LineOf(p, j, q) = q /\ RunOf(p, j) = Nobody
<1>1. HandOf(p, j) = {} /\ StepOf(p, j) = {}
  BY DEF HandOf, StepOf, Apart
<1>2. Only({}) = << >> /\ << >> \o q = q
  BY DEF Only
<1>3. QED
  BY <1>1, <1>2 DEF LineOf, RunOf

\* The drainer is alone, and so is whoever starts a drain.
LEMMA DrainerApart ==
    ASSUME Consumer, NEW s \in Task, pc[s] \in DrainLabels, pc[s] = "turn" => job[s] # Nobody
    PROVE  Apart(pc, job, s)
BY Alone DEF Apart, DrainLabels, Consumer

\* While nobody drains nobody has an event in hand.
LEMMA IdleApart ==
    ASSUME Consumer, ~draining, NEW s \in Task
    PROVE  Apart(pc, job, s) /\ pc[s] # "step" /\ (pc[s] = "turn" => job[s] = Nobody)
BY Nobodys DEF Apart, DrainLabels

\* The others stay as they are.
LEMMA ApartKept ==
    ASSUME TypeOK, NEW s \in Task, Apart(pc, job, s), NEW l, pc' = [pc EXCEPT ![s] = l],
           \A d \in Task \ {s} : job'[d] = job[d]
    PROVE  Apart(pc', job', s) /\ pc'[s] = l
BY DEF Apart, TypeOK

\* A task with no event in hand comes and goes.
LEMMA ViewKept ==
    ASSUME TypeOK, NEW s \in Task, NEW l, pc' = [pc EXCEPT ![s] = l], UNCHANGED job,
           pc[s] # "step", l # "step", "turn" \in {pc[s], l} => job[s] = Nobody
    PROVE  HandOf(pc', job') = HandOf(pc, job) /\ StepOf(pc', job') = StepOf(pc, job)
<1>1. pc'[s] = l /\ \A d \in Task \ {s} : pc'[d] = pc[d]
  BY DEF TypeOK
<1>2. \A u \in Task : /\ (pc'[u] = "turn" /\ job[u] # Nobody) <=> (pc[u] = "turn" /\ job[u] # Nobody)
                      /\ pc'[u] = "step" <=> pc[u] = "step"
  BY <1>1
<1>3. QED
  BY <1>2 DEF HandOf, StepOf

-----------------------------------------------------------------------------
(* The contract's state, and its actions on that state.                    *)

Line    == LineOf(pc, job, events)
Runs    == RunOf(pc, job)
Verdict == VerdictOf(outcome, pos)

\* A step that leaves the contract's four variables alone is invisible.
LEMMA Stutters ==
    ASSUME UNCHANGED <<Line, Runs, Closed, Verdict>>
    PROVE  UNCHANGED Contract!vars
BY Zenon DEF Contract!vars, Line, LineOf, HandOf, InHand, Runs, RunOf, StepOf, InStep, Closed,
       Verdict, VerdictOf

\* The contract's Accept, in terms of the mapping.
LEMMA Accepts ==
    ASSUME NEW e \in Task, Verdict[e] = "unknown", Len(Line) <= N, Line' = Append(Line, e),
           Verdict' = [Verdict EXCEPT ![e] = "accepted"], UNCHANGED <<Runs, Closed>>
    PROVE  Contract!Next
BY Zenon DEF Contract!Next, Contract!Accept, Line, LineOf, HandOf, InHand, Runs, RunOf, StepOf,
       InStep, Closed, Verdict, VerdictOf

\* The contract's Begin, in terms of the mapping.
LEMMA Begins ==
    ASSUME ~Closed, Runs = Nobody, Line # << >>, Runs' = Head(Line), Line' = Tail(Line),
           UNCHANGED <<Closed, Verdict>>
    PROVE  Contract!Next
BY Zenon DEF Contract!Next, Contract!Begin, Line, LineOf, HandOf, InHand, Runs, RunOf, StepOf,
       InStep, Closed, Verdict, VerdictOf

\* The contract's End, in terms of the mapping.
LEMMA Ends ==
    ASSUME Runs # Nobody, Closed' \in BOOLEAN, Runs' = Nobody, UNCHANGED Line,
           NEW v \in {"true", "false"} \union
                (IF Runs \in {t \in Task : "panic" \in May[t]} THEN {"panicked"} ELSE {}),
           Verdict' = [Verdict EXCEPT ![Runs] = v]
    PROVE  Contract!Next
BY Zenon DEF Contract!Next, Contract!End, Line, LineOf, HandOf, InHand, Runs, RunOf, StepOf,
       InStep, Closed, Verdict, VerdictOf

\* The contract's Discard, in terms of the mapping.
LEMMA Discards ==
    ASSUME Closed, Line # << >>, Line' \in {Tail(Line), << >>}, UNCHANGED <<Runs, Closed, Verdict>>
    PROVE  Contract!Next
BY Zenon DEF Contract!Next, Contract!Discard, Line, LineOf, HandOf, InHand, Runs, RunOf, StepOf,
       InStep, Closed, Verdict, VerdictOf

-----------------------------------------------------------------------------
(* Each step of the cell.                                                  *)

\* The contract does not see quiet steps.
LEMMA QuietStutters ==
    ASSUME Unwound = {}, OrderInv, NEW s \in Task, Quiet(s)
    PROVE  UNCHANGED Contract!vars
<1> USE DEF OrderInv
<1>1. UNCHANGED <<events, dead, terminated, outcome, pos, job>>
  BY QuietKeeps
<1>2. PICK l : /\ pc' = [pc EXCEPT ![s] = l]
               /\ \/ l = pc[s]
                  \/ /\ l \notin {"turn", "step"}
                     /\ pc[s] \notin {"turn", "step"} \/ (pc[s] = "turn" /\ job[s] = Nobody)
  BY QuietMoves
<1>3. HandOf(pc', job') = HandOf(pc, job) /\ StepOf(pc', job') = StepOf(pc, job)
  <2>1. CASE l = pc[s]
    <3>1. pc' = pc
      BY <1>2, <2>1 DEF TypeOK
    <3>2. QED
      BY <1>1, <3>1
  <2>2. CASE l # pc[s]
    BY <1>1, <1>2, <2>2, ViewKept
  <2>3. QED
    BY <2>1, <2>2
<1>4. QED
  BY <1>1, <1>3, Stutters DEF Line, LineOf, Runs, RunOf, Closed, Verdict

\* The line never holds more than the queue and the event in hand.
LEMMA HandBound ==
    ASSUME TypeOK, Consumer
    PROVE  /\ Only(HandOf(pc, job)) \in Seq(Task)
           /\ Len(Only(HandOf(pc, job))) <= 1
<1>1. HandOf(pc, job) \subseteq Task
  BY DEF HandOf, TypeOK
<1>2. CASE HandOf(pc, job) = {}
  BY <1>2 DEF Only
<1>3. CASE HandOf(pc, job) # {}
  <2>1. (CHOOSE e \in HandOf(pc, job) : TRUE) \in Task
    BY <1>1, <1>3
  <2>2. Only(HandOf(pc, job)) = <<CHOOSE e \in HandOf(pc, job) : TRUE>>
    BY <1>3 DEF Only
  <2>3. QED
    BY <2>1, <2>2
<1>4. QED
  BY <1>2, <1>3

\* Accepting an event appends it to the line, whatever becomes of the queue.
LEMMA AcceptingVerdict ==
    ASSUME OrderInv, NEW s \in Task, Accepting(s)
    PROVE  /\ Verdict[s] = "unknown"
           /\ Verdict' = [Verdict EXCEPT ![s] = "accepted"]
           /\ UNCHANGED Closed
<1> USE DEF OrderInv
<1>k. /\ UNCHANGED <<dead, terminated, outcome>> /\ pc[s] \in {"start", "offer"}
      /\ issued' = issued + 1 /\ pos' = [pos EXCEPT ![s] = issued + 1]
  BY AcceptingKeeps
<1>1. pos[s] = 0 /\ outcome[s] = "unrun"
  BY <1>k, Fresh
<1>2. pos \in [Task -> Nat] /\ issued \in Nat
  BY DEF TypeOK
<1>3. ~(0 > 0) /\ issued + 1 > 0
  BY <1>2
<1>4. /\ pos'[s] > 0 /\ ~(pos[s] > 0) /\ outcome'[s] = "unrun"
      /\ \A t \in Task \ {s} : pos'[t] = pos[t] /\ outcome'[t] = outcome[t]
  BY <1>k, <1>1, <1>2, <1>3
<1>5. Verdict[s] = "unknown" /\ Verdict'[s] = "accepted"
  BY <1>1, <1>4 DEF Verdict, VerdictOf
<1>6. \A t \in Task \ {s} : Verdict'[t] = Verdict[t]
  BY <1>4 DEF Verdict, VerdictOf
<1>7. Verdict' = [Verdict EXCEPT ![s] = "accepted"]
  BY <1>5, <1>6 DEF Verdict, VerdictOf
<1>8. QED
  BY <1>k, <1>5, <1>7 DEF Closed

\* Queueing, queueing behind older events and starting a drain all append to
\* the line.
LEMMA AcceptingAccepts ==
    ASSUME OrderInv, NEW s \in Task, Accepting(s), Consumer'
    PROVE  Contract!Next
<1> USE DEF OrderInv
<1>t. events \in Seq(Task) /\ Len(events) <= N /\ N \in Nat
  BY FifoAssumption DEF TypeOK
<1>k. /\ pc[s] \in {"start", "offer"}
      /\ \A d \in Task \ {s} : job'[d] = job[d]
  BY AcceptingKeeps
<1>v. /\ Verdict[s] = "unknown" /\ Verdict' = [Verdict EXCEPT ![s] = "accepted"]
      /\ UNCHANGED Closed
  BY AcceptingVerdict
<1>1. CASE OfferQueued(s)
  <2>1. PICK l \in {"forget", "await"} : pc' = [pc EXCEPT ![s] = l]
    BY <1>1 DEF OfferQueued, Answer, Goto
  <2>2. UNCHANGED job /\ events' = Append(events, s) /\ Len(events) # N
    BY <1>1 DEF OfferQueued, IsFull
  <2>3. HandOf(pc', job') = HandOf(pc, job) /\ StepOf(pc', job') = StepOf(pc, job)
    BY <1>k, <2>1, <2>2, ViewKept
  <2>4. \A h \in Seq(Task) : /\ h \o Append(events, s) = Append(h \o events, s)
                             /\ Len(h \o events) = Len(h) + Len(events)
    BY <1>t
  <2>5. Line' = Append(Line, s) /\ Len(Line) <= N
    BY <1>t, <2>2, <2>3, <2>4, HandBound DEF Line, LineOf
  <2>6. UNCHANGED Runs
    BY <2>3 DEF Runs, RunOf
  <2>7. QED
    BY <1>v, <2>5, <2>6, Accepts
<1>2. CASE OfferBehind(s) \/ OfferIdle(s)
  <2>1. /\ ~draining /\ pc' = [pc EXCEPT ![s] = "turn"]
        /\ \/ events # << >> /\ job' = [job EXCEPT ![s] = Head(events)]
              /\ events' = Append(Tail(events), s)
           \/ events = << >> /\ job' = [job EXCEPT ![s] = s] /\ events' = events
    BY <1>2 DEF OfferBehind, OfferIdle, StartDrain, Goto, Popped
  <2>2. Apart(pc, job, s)
    BY <2>1, IdleApart
  <2>3. Line = events /\ Runs = Nobody
    BY <1>t, <1>k, <2>2, RestView DEF Line, Runs
  <2>4. Apart(pc', job', s) /\ pc'[s] = "turn"
    BY <1>k, <2>1, <2>2, ApartKept
  <2>5. job'[s] \in Task /\ job'[s] = IF events = << >> THEN s ELSE Head(events)
    BY <1>t, <2>1 DEF TypeOK
  <2>6. Line' = <<job'[s]>> \o events' /\ Runs' = Nobody
    BY <2>4, <2>5, TurnView, FifoAssumption DEF Line, Runs
  <2>7. <<job'[s]>> \o events' = Append(events, s)
    <3>1. CASE events = << >>
      BY <2>1, <2>5, <3>1
    <3>2. CASE events # << >>
      <4>1. events' = Append(Tail(events), s) /\ job'[s] = Head(events)
        BY <2>1, <2>5, <3>2
      <4>2. Tail(events) \in Seq(Task) /\ <<Head(events)>> \o Tail(events) = events
        BY <1>t, <3>2
      <4>3. <<Head(events)>> \o Append(Tail(events), s) = Append(<<Head(events)>> \o Tail(events), s)
        BY <1>t, <3>2, <4>2
      <4>4. QED
        BY <4>1, <4>2, <4>3
    <3>3. QED
      BY <3>1, <3>2
  <2>8. QED
    BY <1>t, <1>v, <2>3, <2>6, <2>7, Accepts
<1>3. QED
  BY <1>1, <1>2 DEF Accepting

\* A skipped event leaves the line of a closed cell; resolving changes nothing
\* the contract sees.
LEMMA ResolvingDiscards ==
    ASSUME OrderInv, NEW s \in Task, Resolving(s)
    PROVE  Contract!Next \/ UNCHANGED Contract!vars
<1> USE DEF OrderInv
<1>t. events \in Seq(Task)
  BY DEF TypeOK
<1>k. UNCHANGED <<events, terminated, dead, outcome, pos, job>>
  BY ResolvingKeeps
<1>1. CASE pc[s] = "turn"
  <2>1. pc' = [pc EXCEPT ![s] = "next"] /\ Skip(s)
    BY <1>1, ResolvingMoves DEF Resolving, Resolve, PendingDrop, ResolveStranded
  <2>2. job[s] # Nobody /\ seen[s]
    BY <2>1 DEF Skip, HasTurn
  <2>3. Closed
    BY <1>1, <2>2 DEF Closing, Closed
  <2>4. Apart(pc, job, s)
    BY <1>1, <2>2, DrainerApart DEF DrainLabels
  <2>5. Line = <<job[s]>> \o events /\ Runs = Nobody
    BY <1>1, <2>2, <2>4, TurnView DEF Line, Runs
  <2>6. Apart(pc', job', s) /\ pc'[s] = "next"
    BY <1>k, <2>1, <2>4, ApartKept
  <2>7. Line' = events /\ Runs' = Nobody
    BY <1>t, <1>k, <2>6, RestView DEF Line, Runs
  <2>8. job[s] \in Task
    BY <2>2 DEF TypeOK
  <2>9. <<job[s]>> \o events # << >> /\ Tail(<<job[s]>> \o events) = events
    BY <1>t, <2>8
  <2>10. UNCHANGED <<Closed, Verdict>>
    BY <1>k DEF Closed, Verdict
  <2>11. QED
    BY <2>3, <2>5, <2>7, <2>9, <2>10, Discards
<1>2. CASE pc[s] # "turn"
  <2>1. PICK l \in {"strand", "next", "probe"} : pc' = [pc EXCEPT ![s] = l]
    BY ResolvingMoves
  <2>2. pc[s] # "step"
    BY ResolvingMoves
  <2>3. HandOf(pc', job') = HandOf(pc, job) /\ StepOf(pc', job') = StepOf(pc, job)
    BY <1>k, <1>2, <2>1, <2>2, ViewKept
  <2>4. QED
    BY <1>k, <2>3, Stutters DEF Line, LineOf, Runs, RunOf, Closed, Verdict
<1>3. QED
  BY <1>1, <1>2

\* The event in hand starts.
LEMMA StepBegins ==
    ASSUME OrderInv, NEW s \in Task, StepBegin(s)
    PROVE  Contract!Next
<1> USE DEF OrderInv
<1>t. events \in Seq(Task)
  BY DEF TypeOK
<1>r. Running(s)
  BY DEF Running
<1>k. UNCHANGED <<events, terminated, dead, pos, job>>
  BY <1>r, RunningKeeps DEF StepBegin
<1>1. /\ pc[s] = "turn" /\ job[s] # Nobody /\ pc' = [pc EXCEPT ![s] = "step"]
      /\ outcome' = [outcome EXCEPT ![job[s]] = "running"]
  BY DEF StepBegin, HasTurn, Goto
<1>2. ~Closed
  BY <1>r, RunningOpen
<1>3. Apart(pc, job, s)
  BY <1>1, DrainerApart DEF DrainLabels
<1>4. Line = <<job[s]>> \o events /\ Runs = Nobody
  BY <1>1, <1>3, TurnView DEF Line, Runs
<1>5. Apart(pc', job', s) /\ pc'[s] = "step"
  BY <1>k, <1>1, <1>3, ApartKept
<1>6. Line' = events /\ Runs' = job[s]
  BY <1>t, <1>k, <1>5, StepView DEF Line, Runs
<1>7. job[s] \in Task
  BY <1>1 DEF TypeOK
<1>8. /\ <<job[s]>> \o events # << >> /\ Tail(<<job[s]>> \o events) = events
      /\ Head(<<job[s]>> \o events) = job[s]
  BY <1>t, <1>7
<1>9. UNCHANGED Verdict
  <2>1. outcome[job[s]] = "unrun"
    BY <1>1 DEF Hand, HandAt, HandLabels
  <2>2. \A t \in Task : IF t = job[s] THEN outcome'[t] = "running" ELSE outcome'[t] = outcome[t]
    BY <1>1, <1>7 DEF TypeOK
  <2>3. QED
    BY <1>k, <2>1, <2>2 DEF Verdict, VerdictOf
<1>10. UNCHANGED Closed
  BY <1>k DEF Closed
<1>11. QED
  BY <1>2, <1>4, <1>6, <1>8, <1>9, <1>10, Begins

\* The running event completes, is rejected or panics.
LEMMA StepEnds ==
    ASSUME OrderInv, NEW s \in Task, StepReturn(s) \/ StepPanic(s)
    PROVE  Contract!Next
<1> USE DEF OrderInv
<1>t. events \in Seq(Task)
  BY DEF TypeOK
<1>r. Running(s)
  BY DEF Running
<1>k. UNCHANGED <<events, terminated, pos, job>>
  BY <1>r, RunningKeeps
<1>1. pc[s] = "step" /\ \E l \in {"resolve", "unwind"} : pc' = [pc EXCEPT ![s] = l]
  BY DEF StepReturn, StepPanic, Goto
<1>2. job[s] \in Task /\ job[s] # Nobody
  BY <1>r, RunningJob, FifoAssumption
<1>3. PICK v \in {"true", "false"} \union
                 (IF job[s] \in {t \in Task : "panic" \in May[t]} THEN {"panicked"} ELSE {}) :
         outcome' = [outcome EXCEPT ![job[s]] = v]
  BY <1>2 DEF StepReturn, StepPanic
<1>4. Apart(pc, job, s)
  BY <1>1, DrainerApart, <1>2 DEF DrainLabels
<1>5. Line = events /\ Runs = job[s]
  <2>1. LineOf(pc, job, events) = events /\ RunOf(pc, job) = job[s]
    <3>1. pc[s] = "step"
      BY <1>1
    <3>2. QED
      BY ONLY <1>t, <1>4, <3>1, StepView
  <2>2. QED
    BY <2>1 DEF Line, Runs
<1>6. Apart(pc', job', s) /\ pc'[s] \notin {"turn", "step"}
  <2>1. PICK l \in {"resolve", "unwind"} : pc' = [pc EXCEPT ![s] = l]
    BY <1>1
  <2>2. QED
    BY <1>k, <1>4, <2>1, ApartKept
<1>7. Line' = events /\ Runs' = Nobody
  BY <1>t, <1>k, <1>6, RestView DEF Line, Runs
<1>8. Verdict' = [Verdict EXCEPT ![job[s]] = v]
  <2>1. v \in {"true", "false", "panicked"}
    BY <1>3
  <2>2. \A t \in Task : IF t = job[s] THEN outcome'[t] = v ELSE outcome'[t] = outcome[t]
    BY <1>2, <1>3 DEF TypeOK
  <2>3. \A t \in Task : Verdict'[t] = IF t = job[s] THEN v ELSE Verdict[t]
    BY <1>k, <2>1, <2>2 DEF Verdict, VerdictOf
  <2>4. QED
    BY <1>2, <2>3 DEF Verdict, VerdictOf
<1>9. Closed' \in BOOLEAN
  BY DEF Closed
<1>10. QED
  BY <1>2, <1>3, <1>5, <1>7, <1>8, <1>9, Ends

\* Popping moves the front of the line into the drainer's hand; an unwinding
\* drainer of a closed cell discards the whole line.
LEMMA PoppingDiscards ==
    ASSUME OrderInv, NEW s \in Task, NextEvent(s) \/ Handover(s)
    PROVE  Contract!Next \/ UNCHANGED Contract!vars
<1> USE DEF OrderInv
<1>t. events \in Seq(Task)
  BY DEF TypeOK
<1>k. UNCHANGED <<dead, outcome, pos>> /\ Closed' = Closed
  <2>1. UNCHANGED <<dead, outcome, pos>>
    BY DEF NextEvent, Handover, DrainKeeps, orderVars
  <2>2. Closed' <=> Closed
    BY PoppingClosed
  <2>3. QED
    BY <2>1, <2>2 DEF Closed
<1>v. UNCHANGED Verdict
  BY <1>k DEF Verdict
<1>1. pc[s] \in {"next", "handover"} /\ job[s] # Nobody
  BY PoppingClosed DEF NextEvent, Handover
<1>2. Apart(pc, job, s)
  BY <1>1, DrainerApart DEF DrainLabels
<1>3. Line = events /\ Runs = Nobody
  BY <1>t, <1>1, <1>2, RestView DEF Line, Runs
<1>4. CASE NextEvent(s)
  <2>1. /\ pc' = [pc EXCEPT ![s] = "turn"]
        /\ \/ events = << >> /\ job' = [job EXCEPT ![s] = Nobody] /\ events' = events
           \/ events # << >> /\ job' = [job EXCEPT ![s] = Head(events)] /\ events' = Tail(events)
    BY <1>4 DEF NextEvent, Goto, Popped
  <2>2. /\ \A d \in Task \ {s} : job'[d] = job[d]
        /\ job'[s] = IF events = << >> THEN Nobody ELSE Head(events)
    BY <2>1 DEF TypeOK
  <2>3. Apart(pc', job', s) /\ pc'[s] = "turn"
    BY <1>2, <2>1, <2>2, ApartKept
  <2>4. Line' = events /\ Runs' = Nobody
    <3>1. CASE events = << >>
      BY <1>t, <2>1, <2>2, <2>3, <3>1, RestView DEF Line, Runs
    <3>2. CASE events # << >>
      <4>1. Head(events) \in Task /\ <<Head(events)>> \o Tail(events) = events
        BY <1>t, <3>2
      <4>2. job'[s] = Head(events) /\ job'[s] # Nobody /\ events' = Tail(events)
        BY <2>1, <2>2, <3>2, <4>1, FifoAssumption
      <4>3. /\ LineOf(pc', job', events') = <<job'[s]>> \o events'
            /\ RunOf(pc', job') = Nobody
        BY <2>3, <4>2, TurnView
      <4>4. QED
        BY <4>1, <4>2, <4>3 DEF Line, Runs
    <3>3. QED
      BY <3>1, <3>2
  <2>5. QED
    BY <1>k, <1>v, <1>3, <2>4, Stutters
<1>5. CASE Handover(s)
  <2>1. /\ pc' = [pc EXCEPT ![s] = "strand"] /\ UNCHANGED job
        /\ terminated' = (terminated \/ seen[s])
        /\ events' = IF terminated' THEN << >> ELSE events
    BY <1>5 DEF Handover, Goto
  <2>2. Apart(pc', job', s) /\ pc'[s] = "strand"
    BY <1>2, <2>1, ApartKept
  <2>3. Line' = events' /\ Runs' = Nobody
    <3>1. events' \in Seq(Task)
      BY <1>t, <2>1
    <3>2. LineOf(pc', job', events') = events' /\ RunOf(pc', job') = Nobody
      BY <2>2, <3>1, RestView
    <3>3. QED
      BY <3>2 DEF Line, Runs
  <2>4. CASE events' = events
    BY <1>k, <1>v, <1>3, <2>3, <2>4, Stutters
  <2>5. CASE events' # events
    <3>1. Closed /\ events # << >> /\ events' = << >>
      BY <1>k, <2>1, <2>5 DEF Closed
    <3>2. QED
      BY <1>k, <1>v, <1>3, <2>3, <3>1, Discards
  <2>6. QED
    BY <2>4, <2>5
<1>6. QED
  BY <1>4, <1>5

-----------------------------------------------------------------------------
(* The refinement.                                                         *)

\* A fresh cell is a fresh contract, closed if the machine failed to start or
\* starts in X.
LEMMA InitImplements == Init => Contract!Init
<1> SUFFICES ASSUME Init PROVE Contract!Init
  OBVIOUS
<1>1. InHand = {} /\ InStep = {}
  BY DEF Init, InHand, InStep
<1>2. Only(InHand) \o events = << >>
  BY <1>1 DEF Init, Only
<1>3. ~(0 > 0)
  OBVIOUS
<1>4. [t \in Task |-> IF outcome[t] \in {"true", "false", "panicked"} THEN outcome[t]
                      ELSE IF pos[t] > 0 THEN "accepted" ELSE "unknown"]
        = [t \in Task |-> "unknown"]
  BY <1>3 DEF Init
<1>5. (dead \/ terminated) \in BOOLEAN
  OBVIOUS
<1>6. QED
  BY <1>1, <1>2, <1>4, <1>5, Zenon DEF Contract!Init

\* Every step of the cell is a step of the contract or invisible to it.
LEMMA StepImplements ==
    ASSUME Unwound = {}, OrderInv, [Next]_vars
    PROVE  [Contract!Next]_(Contract!vars)
<1>1. CASE \E s \in Task : Acts(s)
  <2>1. PICK s \in Task : Acts(s)
    BY <1>1
  <2>2. Consumer'
    BY ConsumerInductive DEF OrderInv
  <2>3. QED
    BY <2>1, <2>2, QuietStutters, AcceptingAccepts, ResolvingDiscards, StepBegins, StepEnds,
       PoppingDiscards DEF Acts, Running
<1>2. CASE UNCHANGED <<events, draining, terminated, dead, pos, issued, outcome, ticket, job,
                       seen, reply, first, stranded, pc, completion>>
  BY <1>2, Stutters DEF Line, Runs, Closed, Verdict
<1>3. QED
  BY <1>1, <1>2, StepKinds

\* The traits Queued and StrictOrdering: under every interleaving of callers,
\* wakers, panics and dropped completions the cell behaves like a line whose
\* events run one at a time, from the front, each to completion.
THEOREM CellImplementsContract ==
    ASSUME Unwound = {}
    PROVE  Spec => ImplementsContract
<1>1. Init => Contract!Init
  BY InitImplements
<1>2. OrderInv /\ [Next]_vars => [Contract!Next]_(Contract!vars)
  BY StepImplements
<1>3. QED
  BY <1>1, <1>2, AlwaysOrder, PTL DEF Spec, ImplementsContract, Contract!Spec
=============================================================================
