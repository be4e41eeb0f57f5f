-------------------------- MODULE FlatMachineProofs --------------------------
(***************************************************************************)
(* The flat engine for every table, queue capacity and policy.             *)
(*   - As long as no on_exit action fails, it exits every state exactly    *)
(*     once per entry (EachEntryExitsOnce).                                *)
(*   - Its state is well typed (EngineTyped).  The inductive invariant is  *)
(*     StackInv: every frame of the call stack is one its function can be  *)
(*     in (Frames), every callee one its caller can have called (Links),   *)
(*     the lowest one the owner called (Bottom), and a failure on its way  *)
(*     up is known to the call (Faulty).                                   *)
(*   - No fault is swallowed (FaultReachesCaller).                         *)
(*   - A finished call keeps what it promises about rejections, deferred   *)
(*     events and completions (RejectionsAreOwn, DeferredAreRetried,       *)
(*     EndsStable).                                                        *)
(***************************************************************************)
EXTENDS FlatMachine, TLAPS

\* The machine runs one of the tables considered.
Tabled == rows \in Tables \union AsyncTables

\* The inductive invariant: the token tells the exits of the current state,
\* and the state left last was exited once.
Paired == ExitToken /\ left = 1

\* A fresh machine is in its initial state, which was not exited.
LEMMA PairedInit == Init => Paired
BY DEF Init, Paired, ExitToken

\* Past the exit of the current state, exactly one exit has run.
LEMMA OneExit == ASSUME Paired PROVE ExitsNow = 1
BY DEF Paired, ExitToken, ExitsNow, Once

\* Steps that leave the state, its token and its history alone.
LEMMA PairedKept == Paired /\ UNCHANGED machineVars => Paired'
BY DEF Paired, ExitToken, machineVars

\* Taking a row preserves the pairing; only a failing on_exit action could
\* lose an exit, and none fails here.
LEMMA PairedTaken ==
    ASSUME "exit" \notin Faults, Paired, NEW i \in Index,
           TakeInternal(i) \/ ExitFails(i) \/ ActionFails(i) \/ Move(i)
    PROVE  Paired'
<1>1. CASE TakeInternal(i)
  BY <1>1, PairedKept DEF TakeInternal
<1>2. CASE ExitFails(i)
  BY <1>2 DEF ExitFails
<1>3. CASE ActionFails(i)
  <2>1. exits' = 1 /\ exitSkip' = TRUE /\ left' = left
    BY <1>3, OneExit DEF ActionFails
  <2>2. QED
    BY <2>1 DEF Paired, ExitToken
<1>4. CASE Move(i)
  <2>1. exits' = 0 /\ exitSkip' = FALSE /\ left' = 1
    BY <1>4, OneExit DEF Move
  <2>2. QED
    BY <2>1 DEF Paired, ExitToken
<1>5. QED
  BY <1>1, <1>2, <1>3, <1>4

\* Every step of the engine and of its owner preserves the pairing.
LEMMA PairedNext ==
    ASSUME "exit" \notin Faults, Paired, [Next]_vars
    PROVE  Paired'
<1>1. CASE UNCHANGED vars
  BY <1>1, PairedKept DEF vars
<1>2. CASE \E e \in Event : process_event(e)
  BY <1>2, PairedKept DEF process_event
<1>3. CASE initialize
  BY <1>3, PairedKept DEF initialize
<1>4. CASE \E s \in State : set_current_states(s)
  <2>1. exits' = 0 /\ exitSkip' = FALSE /\ left' = left
    BY <1>4 DEF set_current_states
  <2>2. QED
    BY <2>1 DEF Paired, ExitToken
<1>5. CASE Refuse \/ Miss \/ GuardFails
  BY <1>5, PairedKept DEF Refuse, Miss, GuardFails
<1>6. CASE \E i \in Index : TakeInternal(i) \/ ExitFails(i) \/ ActionFails(i) \/ Move(i)
  BY <1>6, PairedTaken
<1>7. CASE \/ ProcessNext \/ ProcessDone \/ ProcessEnd
            \/ DrainNext \/ DrainDone \/ DrainEnd \/ SettleNext \/ SettleDone
  BY <1>7, PairedKept
     DEF ProcessNext, ProcessDone, ProcessEnd, DrainNext, DrainDone, DrainEnd,
         SettleNext, SettleDone, StateKeeps
<1>8. CASE QueueNext \/ QueueDone
  BY <1>8, PairedKept DEF QueueNext, QueueDone
<1>9. QED
  <2>1. CASE Step
    BY <2>1, <1>5, <1>6, <1>7, <1>8 DEF Step
  <2>2. QED
    BY <2>1, <1>1, <1>2, <1>3, <1>4 DEF Next

\* The comment on exit_skip in the generated core, for every table: "each
\* entry gets exactly one exit", whatever guards, actions and entry actions
\* fail, unless an on_exit action itself fails.
THEOREM EachEntryExitsOnce ==
    ASSUME "exit" \notin Faults
    PROVE  Spec => []ExitsPaired
<1>1. Init => Paired
  BY PairedInit
<1>2. Paired /\ [Next]_vars => Paired'
  BY PairedNext
<1>3. Paired => ExitsPaired
  BY DEF Paired, ExitToken, ExitsPaired
<1>4. QED
  BY <1>1, <1>2, <1>3, PTL DEF Spec

-----------------------------------------------------------------------------
(* The call stack.                                                         *)

\* A row of the machine's table.
LEMMA RowTyped ==
    ASSUME TypeOK, Tabled, NEW i \in Index
    PROVE  /\ i \in Nat /\ rows[i].process \in Seq(Event) /\ rows[i].to \in State
           /\ rows[i].event \in Event \union {Wild}
           /\ rows[i].defer => rows[i].event \in Event
<1>1. rows[i] \in Row /\ i \in Nat
  BY DEF TypeOK, Index
<1>2. rows[i].defer => rows[i].event # Wild
  BY FlatAssumption DEF Tabled, Index
<1>3. QED
  BY <1>1, <1>2 DEF Row

\* The running function and those under it.
LEMMA StackTyped ==
    ASSUME TypeOK, Running
    PROVE  /\ Top \in Frame /\ Top = stack[1] /\ Under \in Seq(Frame)
           /\ Len(stack) \in Nat /\ Len(stack) >= 1 /\ Len(Under) = Len(stack) - 1
           /\ \A i \in 1..Len(Under) : Under[i] = stack[i + 1]
<1>1. stack \in Seq(Frame) /\ stack # << >>
  BY DEF TypeOK, Running
<1>2. ASSUME NEW S, NEW s \in Seq(S), s # << >>
      PROVE  /\ Head(s) \in S /\ Head(s) = s[1] /\ Tail(s) \in Seq(S)
             /\ Len(s) \in Nat /\ Len(s) >= 1 /\ Len(Tail(s)) = Len(s) - 1
             /\ \A i \in 1..Len(Tail(s)) : Tail(s)[i] = s[i + 1]
  BY <1>2
<1>3. QED
  BY <1>1, <1>2 DEF Top, Under

\* What the three moves of the call stack do.
LEMMA GoesTo ==
    ASSUME TypeOK, Running, NEW g \in Frame, GoTo(g)
    PROVE  /\ stack' \in Seq(Frame) /\ Len(stack') = Len(stack)
           /\ stack'[1] = g /\ \A i \in 2..Len(stack) : stack'[i] = stack[i]
           /\ Running' /\ Top' = g /\ ret' = "none"
<1>1. stack' = <<g>> \o Under /\ ret' = "none"
  BY DEF GoTo
<1>2. /\ stack' \in Seq(Frame) /\ Len(stack') = 1 + Len(Under)
      /\ stack'[1] = g /\ \A i \in 2..(1 + Len(Under)) : stack'[i] = Under[i - 1]
  BY <1>1, StackTyped
<1>3. ASSUME NEW i \in 2..Len(stack) PROVE stack'[i] = stack[i]
  <2>1. i - 1 \in 1..Len(Under) /\ (i - 1) + 1 = i /\ i \in 2..(1 + Len(Under))
    BY StackTyped
  <2>2. stack'[i] = Under[i - 1] /\ Under[i - 1] = stack[(i - 1) + 1]
    BY <1>2, <2>1, StackTyped
  <2>3. QED
    BY <2>1, <2>2
<1>4. Running' /\ Top' = g
  BY <1>2, StackTyped DEF Running, Top
<1>5. QED
  BY <1>1, <1>2, <1>3, <1>4, StackTyped

\* A call puts the callee on top of its caller.
LEMMA Enters ==
    ASSUME TypeOK, Running, NEW g \in Frame, NEW c \in Frame, Enter(g, c)
    PROVE  /\ stack' \in Seq(Frame) /\ Len(stack') = Len(stack) + 1
           /\ stack'[1] = c /\ stack'[2] = g
           /\ \A i \in 3..Len(stack') : stack'[i] = stack[i - 1]
           /\ Running' /\ Top' = c /\ ret' = "none"
<1>1. stack' = <<c, g>> \o Under /\ ret' = "none"
  BY DEF Enter
<1>2. /\ stack' \in Seq(Frame) /\ Len(stack') = 2 + Len(Under)
      /\ stack'[1] = c /\ stack'[2] = g
      /\ \A i \in 3..(2 + Len(Under)) : stack'[i] = Under[i - 2]
  BY <1>1, StackTyped
<1>3. ASSUME NEW i \in 3..Len(stack') PROVE stack'[i] = stack[i - 1]
  <2>1. i - 2 \in 1..Len(Under) /\ (i - 2) + 1 = i - 1 /\ i \in 3..(2 + Len(Under))
    BY <1>2, StackTyped
  <2>2. stack'[i] = Under[i - 2] /\ Under[i - 2] = stack[(i - 2) + 1]
    BY <1>2, <2>1, StackTyped
  <2>3. QED
    BY <2>1, <2>2
<1>4. Running' /\ Top' = c
  BY <1>2, StackTyped DEF Running, Top
<1>5. QED
  BY <1>1, <1>2, <1>3, <1>4, StackTyped

\* A return uncovers the caller and hands it the result.
LEMMA Returns ==
    ASSUME TypeOK, Running, NEW v, Return(v)
    PROVE  /\ stack' \in Seq(Frame) /\ Len(stack') = Len(stack) - 1
           /\ \A i \in 1..Len(stack') : stack'[i] = stack[i + 1]
           /\ ret' = v
           /\ Running' => Len(stack) >= 2 /\ Top' = stack[2]
           /\ Len(stack) >= 2 => Running'
<1>1. stack' = Under /\ ret' = v
  BY DEF Return
<1>2. QED
  BY <1>1, StackTyped DEF Running, Top

\* A fault ends in an exception handler, or leaves the function.
LEMMA Throws ==
    ASSUME NEW v, Throw(v)
    PROVE  \/ /\ Top.fn = "event" /\ v \in Failures
              /\ GoTo([Top EXCEPT !.fn = "exception", !.at = "dispatch", !.error = v])
           \/ /\ Top.fn = "event" => v \notin Failures \/ Handlers = {}
              /\ Return(v)
BY DEF Throw

-----------------------------------------------------------------------------
(* Types.                                                                  *)

Calls == [event : Event \union {Wild}, did : SUBSET {"took", "changed", "fault", "caught"},
          blame : {"none", "call", "process", "retry", "queue"}]

\* What the stack and the result must be after a step.
StackOK == stack \in Seq(Frame) /\ ret \in Results \union {"none"}

\* A fresh frame, and a frame that moved on.
LEMMA FrameMade ==
    ASSUME NEW fn \in {"event", "completion", "exception", "start", "queue"},
           NEW e \in Event \union {Wild}, NEW via \in {"call", "process", "retry", "queue"}
    PROVE  /\ NewFrame(fn, e, via) \in Frame
           /\ NewFrame(fn, e, via).fn = fn /\ NewFrame(fn, e, via).event = e
           /\ NewFrame(fn, e, via).via = via /\ NewFrame(fn, e, via).at = "dispatch"
BY DEF NewFrame, Frame

\* A frame that moved on is still one.
LEMMA FrameMoved ==
    ASSUME NEW g \in Frame
    PROVE  /\ \A a \in {"dispatch", "process", "drain", "settle"} : [g EXCEPT !.at = a] \in Frame
           /\ [g EXCEPT !.via = "queue"] \in Frame
           /\ g.todo # << >> => /\ [g EXCEPT !.todo = Tail(@)] \in Frame
                                /\ Head(g.todo) \in Event
           /\ \A v \in Failures : [g EXCEPT !.fn = "exception", !.at = "dispatch", !.error = v]
                                      \in Frame
           /\ \A n \in Nat, q \in Seq(Event) :
                  [g EXCEPT !.row = n, !.at = "process", !.todo = q] \in Frame
<1>1. /\ \A a \in {"dispatch", "process", "drain", "settle"} : [g EXCEPT !.at = a] \in Frame
      /\ [g EXCEPT !.via = "queue"] \in Frame
  BY DEF Frame
<1>2. ASSUME g.todo # << >>
      PROVE  [g EXCEPT !.todo = Tail(@)] \in Frame /\ Head(g.todo) \in Event
  <2>1. g.todo \in Seq(Event)
    BY DEF Frame
  <2>2. Tail(g.todo) \in Seq(Event) /\ Head(g.todo) \in Event
    BY <1>2, <2>1
  <2>3. QED
    BY <2>2 DEF Frame
<1>3. \A v \in Failures : [g EXCEPT !.fn = "exception", !.at = "dispatch", !.error = v] \in Frame
  BY DEF Frame
<1>4. \A n \in Nat, q \in Seq(Event) :
          [g EXCEPT !.row = n, !.at = "process", !.todo = q] \in Frame
  BY DEF Frame
<1>5. QED
  BY <1>1, <1>2, <1>3, <1>4

\* Throwing an error keeps the stack typed.
LEMMA ThrowTyped ==
    ASSUME TypeOK, Running, NEW v \in Results, Throw(v)
    PROVE  StackOK'
<1>1. CASE /\ v \in Failures
           /\ GoTo([Top EXCEPT !.fn = "exception", !.at = "dispatch", !.error = v])
  <2>1. [Top EXCEPT !.fn = "exception", !.at = "dispatch", !.error = v] \in Frame
    BY <1>1, StackTyped, FrameMoved
  <2>2. QED
    BY <1>1, <2>1, GoesTo DEF StackOK
<1>2. CASE Return(v)
  BY <1>2, Returns DEF StackOK
<1>3. QED
  BY <1>1, <1>2, Throws

\* What a call did, in its history.
LEMMA MarkTyped ==
    ASSUME TypeOK, NEW what \in SUBSET {"took", "changed", "fault"}, Mark(what)
    PROVE  /\ call' \in Calls /\ call'.event = call.event /\ call'.blame = call.blame
           /\ call'.did = call.did \union what
                 \union (IF Top.fn = "exception" /\ "took" \in what THEN {"caught"} ELSE {})
<1>1. call \in Calls
  BY DEF TypeOK, Calls
<1>2. QED
  BY <1>1 DEF Mark, Calls

\* So does a callback that fails or is dropped.
LEMMA BreaksTyped ==
    ASSUME TypeOK, Running, NEW v \in Results, NEW what \in SUBSET {"took", "changed"},
           Breaks(v, what)
    PROVE  StackOK' /\ call' \in Calls
<1>1. CASE Throw(v) /\ Mark(what \union {"fault"})
  BY <1>1, ThrowTyped, MarkTyped
<1>2. CASE Abandon
  BY <1>2 DEF Abandon, StackOK, TypeOK, Calls
<1>3. QED
  BY <1>1, <1>2 DEF Breaks

\* The type invariant, part by part.
LEMMA TypeParts ==
    ASSUME TypeOK, UNCHANGED fixed, StackOK', call' \in Calls,
           state' \in State, exitSkip' \in BOOLEAN, begun' \in BOOLEAN,
           exits' \in 0..2, left' \in 0..2,
           deferred' \in Seq(Event), Len(deferred') <= Capacity,
           pending' \in Seq(Event), Len(pending') <= Capacity,
           stale' \in 0..Len(deferred')
    PROVE  TypeOK'
BY DEF TypeOK, fixed, StackOK, Calls

\* A step that touches the stack, its result and the call only.
LEMMA TypeKept ==
    ASSUME TypeOK, UNCHANGED <<fixed, machineVars, deferred, pending, begun, stale>>,
           StackOK', call' \in Calls
    PROVE  TypeOK'
BY TypeParts DEF TypeOK, machineVars

\* The queues.
LEMMA QueueOps ==
    ASSUME NEW q \in Seq(Event), Len(q) <= Capacity
    PROVE  /\ \A e \in Event : HasRoom(q) => /\ Append(q, e) \in Seq(Event)
                                             /\ Len(Append(q, e)) = Len(q) + 1
                                             /\ Len(Append(q, e)) <= Capacity
                                             /\ <<e>> \o q \in Seq(Event)
                                             /\ Len(<<e>> \o q) <= Capacity
                                             /\ <<e>> \o q # << >>
           /\ q # << >> => /\ Head(q) \in Event /\ Tail(q) \in Seq(Event)
                           /\ Len(Tail(q)) = Len(q) - 1 /\ Len(Tail(q)) <= Capacity
                           /\ Len(q) >= 1
           /\ Len(q) \in Nat
<1>1. Capacity \in Nat /\ Len(q) \in Nat
  BY FlatAssumption
<1>2. ASSUME NEW e \in Event, HasRoom(q)
      PROVE  /\ Append(q, e) \in Seq(Event) /\ Len(Append(q, e)) = Len(q) + 1
             /\ Len(Append(q, e)) <= Capacity
             /\ <<e>> \o q \in Seq(Event) /\ Len(<<e>> \o q) <= Capacity /\ <<e>> \o q # << >>
  BY <1>1, <1>2 DEF HasRoom
<1>3. ASSUME q # << >>
      PROVE  /\ Head(q) \in Event /\ Tail(q) \in Seq(Event)
             /\ Len(Tail(q)) = Len(q) - 1 /\ Len(Tail(q)) <= Capacity /\ Len(q) >= 1
  BY <1>1, <1>3
<1>4. QED
  BY <1>1, <1>2, <1>3

\* What a frame may be, by its function: in table T of a machine with async
\* callbacks or not, in a call that did what is in `did`.
Shaped(g, T, a, did) ==
    /\ g.fn = "queue" => a /\ g.at = "dispatch" /\ g.via \in {"call", "queue"}
    /\ g.fn = "start" => g.at = "settle" /\ g.event = Wild
    /\ g.fn = "exception" => g.error \in Failures /\ "fault" \in did
    /\ g.fn = "event" => g.via \in (IF a THEN {"call", "queue"} ELSE {"call", "process", "retry"})
    /\ g.at \in {"process", "drain"} => g.row \in DOMAIN T
    /\ g.at = "drain" => ~T[g.row].internal
    /\ g.at = "settle" => g.fn \in {"event", "start"}
Frames == \A i \in DOMAIN stack : Shaped(stack[i], rows, async, call.did)

\* The running function is well formed.
LEMMA TopShaped == ASSUME TypeOK, Running, Frames PROVE Shaped(Top, rows, async, call.did)
<1>1. stack \in Seq(Frame) /\ 1 \in 1..Len(stack) /\ Top = stack[1]
  BY StackTyped DEF TypeOK
<1>2. QED
  BY <1>1 DEF Frames

\* The owner's calls keep the types.
LEMMA OwnerTyped ==
    ASSUME TypeOK,
           \/ \E e \in Event : process_event(e)
           \/ initialize \/ \E s \in State : set_current_states(s)
    PROVE  TypeOK'
<1>c. call \in Calls /\ pending \in Seq(Event) /\ Len(pending) <= Capacity /\ state \in State
  BY DEF TypeOK, Calls
<1>1. CASE \E e \in Event : process_event(e)
  <2>1. PICK e \in Event : process_event(e)
    BY <1>1
  <2>2. call' \in Calls
    BY <2>1 DEF process_event, Calls
  <2>3. StackOK'
    <3>1. NewFrame("event", e, "call") \in Frame /\ NewFrame("queue", e, "call") \in Frame
      BY FrameMade
    <3>2. \A g \in Frame : <<g>> \in Seq(Frame)
      OBVIOUS
    <3>3. << >> \in Seq(Frame) /\ ret' \in {"none", "QueueFull"}
      BY <2>1 DEF process_event
    <3>4. stack' \in Seq(Frame)
      BY <2>1, <3>1, <3>2, <3>3 DEF process_event
    <3>5. QED
      BY <3>3, <3>4 DEF StackOK, Results
  <2>4. pending' \in Seq(Event) /\ Len(pending') <= Capacity
    BY <1>c, <2>1, QueueOps DEF process_event
  <2>5. UNCHANGED <<fixed, machineVars, deferred, begun, stale>>
    BY <2>1 DEF process_event
  <2>6. QED
    BY <2>2, <2>3, <2>4, <2>5, TypeParts DEF TypeOK, machineVars
<1>2. CASE initialize
  <2>1. /\ UNCHANGED <<fixed, pending, machineVars, deferred, stale>>
        /\ begun' \in BOOLEAN
    BY <1>2 DEF initialize
  <2>2. call' \in Calls
    <3>1. call' = call \/ call' = [call EXCEPT !.did = {"fault"}]
      BY <1>2 DEF initialize, Abandon
    <3>2. QED
      BY <1>c, <3>1 DEF Calls
  <2>3. StackOK'
    <3>1. [NewFrame("start", Wild, "call") EXCEPT !.at = "settle"] \in Frame
      BY FrameMade, FrameMoved
    <3>2. \A g \in Frame : <<g>> \in Seq(Frame)
      OBVIOUS
    <3>3. << >> \in Seq(Frame) /\ ret' \in {"none", "ActionFailed"}
      BY <1>2 DEF initialize, Abandon
    <3>4. stack' \in Seq(Frame)
      BY <1>2, <3>1, <3>2, <3>3 DEF initialize, Abandon
    <3>5. QED
      BY <3>3, <3>4 DEF StackOK, Results, Failures
  <2>4. QED
    BY <2>1, <2>2, <2>3, TypeParts DEF TypeOK, machineVars
<1>3. CASE \E s \in State : set_current_states(s)
  <2>1. /\ UNCHANGED <<fixed, pending, left, deferred, stack, begun, stale, call>>
        /\ state' \in State /\ exitSkip' = FALSE /\ exits' = 0 /\ ret' = "none"
    BY <1>3 DEF set_current_states
  <2>2. StackOK' /\ exits' \in 0..2
    BY <2>1 DEF TypeOK, StackOK
  <2>3. QED
    BY <1>c, <2>1, <2>2, TypeParts DEF TypeOK
<1>4. QED
  BY <1>1, <1>2, <1>3

\* Refusing an event, missing every candidate, and a guard that fails.
LEMMA MissTyped ==
    ASSUME TypeOK, Frames, Refuse \/ Miss \/ GuardFails
    PROVE  TypeOK'
<1>r. Running /\ call \in Calls /\ Top \in Frame
  BY StackTyped DEF Refuse, Miss, GuardFails, Dispatching, TypeOK, Calls
<1>k. UNCHANGED <<fixed, pending, machineVars, deferred, begun, stale>>
  BY DEF Refuse, Miss, GuardFails
<1>v. Top.via \in {"call", "process", "retry", "queue"}
  BY <1>r DEF Frame
<1>1. CASE Refuse
  <2>1. Return("InvalidEvent") /\ call' \in Calls
    BY <1>1, <1>r, <1>v DEF Refuse, Calls
  <2>2. StackOK'
    BY <1>r, <2>1, Returns DEF StackOK, Results, Rejections
  <2>3. QED
    BY <1>k, <2>1, <2>2, TypeKept
<1>2. CASE Miss
  <2>1. call' \in Calls
    BY <1>2, <1>r, <1>v DEF Miss, Calls
  <2>2. \E v \in Results : Return(v)
    <3>1. Top.fn \in {"event", "completion", "exception"}
      BY <1>2, <1>r, TopShaped DEF Miss, Dispatching, Shaped, Frame
    <3>2. Top.fn = "exception" => Top.error \in Failures
      BY <1>r, TopShaped DEF Shaped
    <3>3. {"InvalidEvent", "TransitionsFailed", "false"} \union Failures \subseteq Results
      BY DEF Results, Rejections
    <3>4. CASE Top.fn = "event"
      BY <1>2, <3>3, <3>4 DEF Miss
    <3>5. CASE Top.fn = "completion"
      BY <1>2, <3>3, <3>5 DEF Miss
    <3>6. CASE Top.fn = "exception"
      BY <1>2, <3>2, <3>3, <3>6 DEF Miss
    <3>7. QED
      BY <3>1, <3>4, <3>5, <3>6
  <2>3. StackOK'
    BY <1>r, <2>2, Returns DEF StackOK
  <2>4. QED
    BY <1>k, <2>1, <2>3, TypeKept
<1>3. CASE GuardFails
  <2>1. Breaks("GuardFailed", {}) /\ "GuardFailed" \in Results
    BY <1>3 DEF GuardFails, Results, Failures
  <2>2. StackOK' /\ call' \in Calls
    BY <1>r, <2>1, BreaksTyped
  <2>3. QED
    BY <1>k, <2>2, TypeKept
<1>4. QED
  BY <1>1, <1>2, <1>3

\* Taking a row, deferring its event or not.
LEMMA DefersTyped ==
    ASSUME TypeOK, Tabled, Running, NEW i \in Index, NEW what \in SUBSET {"took", "changed"},
           Defers(i, what)
    PROVE  /\ StackOK' /\ call' \in Calls
           /\ deferred' \in Seq(Event) /\ Len(deferred') <= Capacity
           /\ Len(deferred') >= Len(deferred)
<1>d. deferred \in Seq(Event) /\ Len(deferred) <= Capacity /\ Len(deferred) \in Nat
  BY DEF TypeOK
<1>1. CASE Throw("QueueFull") /\ Mark(what \union {"fault"}) /\ UNCHANGED deferred
  BY <1>1, <1>d, ThrowTyped, MarkTyped DEF Results
<1>2. CASE /\ rows[i].defer => HasRoom(deferred)
           /\ deferred' = IF rows[i].defer THEN Append(deferred, rows[i].event) ELSE deferred
           /\ Proceed(i) /\ Mark(what)
  <2>1. [Top EXCEPT !.row = i, !.at = "process", !.todo = rows[i].process] \in Frame
    BY StackTyped, FrameMoved, RowTyped
  <2>2. StackOK'
    BY <1>2, <2>1, GoesTo DEF Proceed, StackOK
  <2>3. call' \in Calls
    BY <1>2, MarkTyped
  <2>4. /\ deferred' \in Seq(Event) /\ Len(deferred') <= Capacity
        /\ Len(deferred') >= Len(deferred)
    <3>1. CASE rows[i].defer
      <4>1. rows[i].event \in Event /\ HasRoom(deferred)
        BY <1>2, <3>1, RowTyped
      <4>2. deferred' = Append(deferred, rows[i].event)
        BY <1>2, <3>1
      <4>3. QED
        BY <1>d, <4>1, <4>2, QueueOps
    <3>2. CASE ~rows[i].defer
      BY <1>2, <1>d, <3>2
    <3>3. QED
      BY <3>1, <3>2
  <2>5. QED
    BY <2>2, <2>3, <2>4
<1>3. QED
  BY <1>1, <1>2 DEF Defers

\* A callback of the row fails: the queues are left alone.
LEMMA FailsTyped ==
    ASSUME TypeOK, Running, NEW i \in Index,
           Fails("ActionFailed") \/ ActionsFail(i)
    PROVE  StackOK' /\ call' \in Calls /\ UNCHANGED <<deferred, stale>>
<1>1. PICK v \in Failures : Breaks(v, {}) /\ UNCHANGED <<deferred, stale>>
  BY DEF ActionsFail, Fails, Failures
<1>2. QED
  BY <1>1, BreaksTyped DEF Results

\* Taking a row keeps the types.
LEMMA TakeTyped ==
    ASSUME TypeOK, Tabled, NEW i \in Index,
           TakeInternal(i) \/ ExitFails(i) \/ ActionFails(i) \/ Move(i)
    PROVE  TypeOK'
<1>r. Running
  BY DEF TakeInternal, ExitFails, ActionFails, Move, Dispatching
<1>t. /\ exits \in 0..2 /\ ExitsNow \in 0..2 /\ Once(exits) \in 0..2
      /\ deferred \in Seq(Event) /\ Len(deferred) \in Nat /\ Len(deferred) <= Capacity
      /\ stale \in 0..Len(deferred)
  BY DEF TypeOK, ExitsNow, Once
<1>1. CASE TakeInternal(i)
  <2>1. CASE ActionsFail(i)
    BY <1>1, <1>r, <2>1, FailsTyped, TypeKept DEF TakeInternal
  <2>2. CASE Defers(i, {"took"}) /\ UNCHANGED stale
    <3>1. /\ StackOK' /\ call' \in Calls /\ deferred' \in Seq(Event)
          /\ Len(deferred') <= Capacity /\ Len(deferred') >= Len(deferred)
      BY <1>r, <2>2, DefersTyped
    <3>2. stale' \in 0..Len(deferred')
      BY <1>t, <2>2, <3>1
    <3>3. UNCHANGED <<fixed, pending, machineVars, begun>>
      BY <1>1 DEF TakeInternal
    <3>4. QED
      BY <3>1, <3>2, <3>3, TypeParts DEF TypeOK, machineVars
  <2>3. QED
    BY <1>1, <2>1, <2>2 DEF TakeInternal
<1>2. CASE ExitFails(i) \/ ActionFails(i)
  <2>1. StackOK' /\ call' \in Calls /\ UNCHANGED <<deferred, stale>>
    BY <1>2, <1>r, FailsTyped DEF ExitFails, ActionFails
  <2>2. /\ exits' \in 0..2 /\ exitSkip' \in BOOLEAN
        /\ UNCHANGED <<fixed, pending, state, left, begun>>
    BY <1>2, <1>t DEF ExitFails, ActionFails, TypeOK
  <2>3. QED
    BY <2>1, <2>2, TypeParts DEF TypeOK
<1>3. CASE Move(i)
  <2>1. /\ state' \in State /\ exitSkip' = FALSE /\ exits' = 0 /\ left' \in 0..2
        /\ stale' = Len(deferred) /\ UNCHANGED <<fixed, pending, begun>>
    BY <1>3, <1>t, RowTyped DEF Move
  <2>2. /\ StackOK' /\ call' \in Calls /\ deferred' \in Seq(Event)
        /\ Len(deferred') <= Capacity /\ Len(deferred') >= Len(deferred)
    <3>1. CASE Breaks("ActionFailed", {"took", "changed"}) /\ UNCHANGED deferred
      BY <1>r, <1>t, <3>1, BreaksTyped DEF Results, Failures
    <3>2. CASE Defers(i, {"took", "changed"})
      BY <1>r, <3>2, DefersTyped
    <3>3. QED
      BY <1>3, <3>1, <3>2 DEF Move
  <2>3. stale' \in 0..Len(deferred') /\ exits' \in 0..2
    BY <1>t, <2>1, <2>2
  <2>4. QED
    BY <2>1, <2>2, <2>3, TypeParts DEF TypeOK
<1>4. QED
  BY <1>1, <1>2, <1>3

\* The end of a row, and an event put in front of the pending ones.
LEMMA FinishTyped ==
    ASSUME TypeOK, Running, NEW g \in Frame, Finish(g)
    PROVE  StackOK'
<1>1. CASE \E v \in {"true", "ok"} : Return(v)
  BY <1>1, Returns DEF StackOK, Results
<1>2. CASE GoTo([g EXCEPT !.at = "settle"])
  BY <1>2, FrameMoved, GoesTo DEF StackOK
<1>3. QED
  BY <1>1, <1>2 DEF Finish

\* An event put in front of the pending ones, or QueueFull.
LEMMA QueueTyped ==
    ASSUME TypeOK, Running, NEW e \in Event, NEW g \in Frame, Queue(e, g)
    PROVE  StackOK' /\ call' \in Calls /\ pending' \in Seq(Event) /\ Len(pending') <= Capacity
<1>p. pending \in Seq(Event) /\ Len(pending) <= Capacity /\ call \in Calls
  BY DEF TypeOK, Calls
<1>1. CASE HasRoom(pending) /\ pending' = <<e>> \o pending /\ GoTo(g) /\ UNCHANGED call
  BY <1>1, <1>p, GoesTo, QueueOps DEF StackOK
<1>2. CASE Throw("QueueFull") /\ Mark({"fault"}) /\ UNCHANGED pending
  BY <1>2, <1>p, ThrowTyped, MarkTyped DEF Results
<1>3. QED
  BY <1>1, <1>2 DEF Queue

\* An async machine's loop.
LEMMA LoopTyped ==
    ASSUME TypeOK, QueueNext \/ QueueDone
    PROVE  TypeOK'
<1>r. Running /\ Top \in Frame /\ call \in Calls
  BY StackTyped DEF QueueNext, QueueDone, TypeOK, Calls
<1>k. UNCHANGED <<fixed, machineVars, deferred, begun, stale>>
  BY DEF QueueNext, QueueDone
<1>p. pending \in Seq(Event) /\ Len(pending) <= Capacity
  BY DEF TypeOK
<1>1. CASE /\ pending # << >> /\ pending' = Tail(pending)
           /\ Enter([Top EXCEPT !.via = "queue"], NewFrame("event", Head(pending), Top.via))
           /\ call' = [call EXCEPT !.event = Head(pending)]
  <2>1. Head(pending) \in Event /\ pending' \in Seq(Event) /\ Len(pending') <= Capacity
    BY <1>1, <1>p, QueueOps
  <2>2. Top.via \in {"call", "process", "retry", "queue"}
    BY <1>r DEF Frame
  <2>3. NewFrame("event", Head(pending), Top.via) \in Frame /\ [Top EXCEPT !.via = "queue"] \in Frame
    <3>1. NewFrame("event", Head(pending), Top.via) \in Frame
      BY <2>1, <2>2, FrameMade
    <3>2. QED
      BY <1>r, <3>1, FrameMoved
  <2>4. StackOK'
    BY <1>1, <1>r, <2>3, Enters DEF StackOK
  <2>5. call' \in Calls
    BY <1>1, <1>r, <2>1 DEF Calls
  <2>6. QED
    BY <1>k, <2>1, <2>4, <2>5, TypeParts DEF TypeOK, machineVars
<1>2. CASE Return("ok") /\ UNCHANGED <<pending, call>>
  BY <1>2, <1>k, <1>r, Returns, TypeKept DEF StackOK, Results
<1>3. CASE QueueDone
  <2>1. \/ ret = "ok" /\ GoTo(Top)
        \/ Return(ret) /\ ret \in Results
    BY <1>3 DEF QueueDone, TypeOK
  <2>2. StackOK'
    BY <1>r, <2>1, GoesTo, Returns DEF StackOK
  <2>3. QED
    BY <1>3, <1>k, <1>r, <2>2, TypeKept DEF QueueDone
<1>4. QED
  BY <1>1, <1>2, <1>3 DEF QueueNext

\* Steps that touch the stack and its result only.
LEMMA MovesTyped ==
    ASSUME TypeOK, Frames,
           \/ ProcessEnd \/ ProcessDone \/ DrainEnd \/ DrainDone \/ SettleNext \/ SettleDone
    PROVE  TypeOK'
<1>r. Running /\ Top \in Frame /\ call \in Calls
  BY StackTyped DEF ProcessEnd, ProcessDone, DrainEnd, DrainDone, SettleNext, SettleDone, Idle,
         Resumed, TypeOK, Calls
<1>k. UNCHANGED <<fixed, machineVars, deferred, pending, begun, stale, call>>
  BY DEF ProcessEnd, ProcessDone, DrainEnd, DrainDone, SettleNext, SettleDone, StateKeeps
<1>1. CASE ProcessEnd \/ DrainEnd
  <2>1. GoTo([Top EXCEPT !.at = "drain"]) \/ Finish(Top)
    BY <1>1 DEF ProcessEnd, DrainEnd
  <2>2. StackOK'
    BY <1>r, <2>1, FrameMoved, GoesTo, FinishTyped DEF StackOK
  <2>3. QED
    BY <1>k, <1>r, <2>2, TypeKept
<1>2. CASE ProcessDone \/ DrainDone \/ SettleDone
  <2>1. ret \in Results
    BY <1>2 DEF ProcessDone, DrainDone, SettleDone, Resumed, TypeOK
  <2>2. GoTo(Top) \/ Return("ok") \/ Throw(ret)
    BY <1>2 DEF ProcessDone, DrainDone, SettleDone
  <2>3. StackOK'
    BY <1>r, <2>1, <2>2, GoesTo, Returns, ThrowTyped DEF StackOK, Results
  <2>4. QED
    BY <1>k, <1>r, <2>3, TypeKept
<1>3. CASE SettleNext
  <2>1. Origin(Top.event) \in Event \union {Wild}
    BY <1>r DEF Origin, Frame
  <2>2. NewFrame("completion", Origin(Top.event), Top.via) \in Frame
    BY <1>r, <2>1, FrameMade DEF Frame
  <2>3. StackOK'
    BY <1>3, <1>r, <2>2, Enters DEF SettleNext, StackOK
  <2>4. QED
    BY <1>k, <1>r, <2>3, TypeKept
<1>4. QED
  BY <1>1, <1>2, <1>3

\* Dispatching or queueing the next process(...) or deferred event.
LEMMA NextTyped ==
    ASSUME TypeOK, ProcessNext \/ DrainNext
    PROVE  TypeOK'
<1>r. Running /\ Top \in Frame /\ call \in Calls
  BY StackTyped DEF ProcessNext, DrainNext, Idle, TypeOK, Calls
<1>k. UNCHANGED <<fixed, machineVars, begun>>
  BY DEF ProcessNext, DrainNext, StateKeeps
<1>d. /\ deferred \in Seq(Event) /\ Len(deferred) <= Capacity /\ Len(deferred) \in Nat
      /\ stale \in 0..Len(deferred) /\ pending \in Seq(Event) /\ Len(pending) <= Capacity
  BY DEF TypeOK
<1>1. CASE ProcessNext
  <2>1. [Top EXCEPT !.todo = Tail(@)] \in Frame /\ Head(Top.todo) \in Event
    BY <1>1, <1>r, FrameMoved DEF ProcessNext
  <2>2. NewFrame("event", Head(Top.todo), "process") \in Frame
    BY <2>1, FrameMade
  <2>3. StackOK' /\ call' \in Calls /\ pending' \in Seq(Event) /\ Len(pending') <= Capacity
    <3>1. CASE /\ Enter([Top EXCEPT !.todo = Tail(@)], NewFrame("event", Head(Top.todo), "process"))
               /\ UNCHANGED <<pending, call>>
      BY <1>r, <1>d, <2>1, <2>2, <3>1, Enters DEF StackOK
    <3>2. CASE Queue(Head(Top.todo), [Top EXCEPT !.todo = Tail(@)])
      BY <1>r, <2>1, <3>2, QueueTyped
    <3>3. QED
      BY <1>1, <3>1, <3>2 DEF ProcessNext
  <2>4. UNCHANGED <<deferred, stale>>
    BY <1>1 DEF ProcessNext
  <2>5. QED
    BY <1>k, <2>3, <2>4, TypeParts DEF TypeOK, machineVars
<1>2. CASE DrainNext
  <2>1. /\ Head(deferred) \in Event /\ Tail(deferred) \in Seq(Event)
        /\ Len(Tail(deferred)) = Len(deferred) - 1 /\ Len(Tail(deferred)) <= Capacity
        /\ Len(deferred) >= 1
    BY <1>2, <1>d, QueueOps DEF DrainNext
  <2>2. NewFrame("event", Head(deferred), "retry") \in Frame
    BY <2>1, FrameMade
  <2>3. StackOK' /\ call' \in Calls /\ pending' \in Seq(Event) /\ Len(pending') <= Capacity
    <3>1. CASE /\ Enter(Top, NewFrame("event", Head(deferred), "retry"))
               /\ UNCHANGED <<pending, call>>
      BY <1>r, <1>d, <2>2, <3>1, Enters DEF StackOK
    <3>2. CASE Queue(Head(deferred), Top)
      BY <1>r, <2>1, <3>2, QueueTyped
    <3>3. QED
      BY <1>2, <3>1, <3>2 DEF DrainNext
  <2>4. deferred' = Tail(deferred) /\ stale' = IF stale = 0 THEN 0 ELSE stale - 1
    BY <1>2 DEF DrainNext
  <2>5. stale' \in 0..Len(deferred')
    BY <1>d, <2>1, <2>4
  <2>6. QED
    BY <1>k, <2>1, <2>3, <2>4, <2>5, TypeParts DEF TypeOK, machineVars
<1>3. QED
  BY <1>1, <1>2

\* Every step of the engine and of its owner keeps the types.
LEMMA StepTyped ==
    ASSUME TypeOK, Tabled, Frames, [Next]_vars
    PROVE  TypeOK'
<1>1. CASE UNCHANGED vars
  BY <1>1 DEF vars, TypeOK, fixed, machineVars
<1>2. CASE Step
  BY <1>2, MissTyped, TakeTyped, LoopTyped, MovesTyped, NextTyped DEF Step
<1>3. QED
  BY <1>1, <1>2, OwnerTyped DEF Next

-----------------------------------------------------------------------------
(* Callers and callees.                                                    *)

\* completion_origin, of table T.
OriginIn(T, e) ==
    IF \E i \in DOMAIN T : T[i].kind = "completion" /\ T[i].event = e THEN e ELSE Wild

\* What the function that called `callee` is doing, in a call for event e.
Linked(callee, caller, T, e) ==
    /\ callee.fn \notin {"queue", "start"}
    /\ callee.fn = "completion" =>
           caller.at = "settle" /\ callee.event = OriginIn(T, caller.event)
    /\ callee.fn = "event" /\ callee.via = "retry" => caller.at = "drain"
    /\ callee.fn \in {"event", "exception"} => caller.at # "settle"
    /\ caller.fn = "queue" => caller.via = "queue" /\ callee.event = e
Links == \A i \in 2..Len(stack) : Linked(stack[i - 1], stack[i], rows, call.event)

\* The function the owner called.
Based(g, a, e) ==
    /\ g.fn # "completion"
    /\ g.fn = "start" => e = Wild
    /\ g.fn = "event" => g.event = e /\ g.via = "call" /\ ~a
    /\ g.fn = "exception" => ~a
    /\ g.fn = "queue" => e # Wild
Bottom == Running => Based(stack[Len(stack)], async, call.event)

Stacked == Frames /\ Links /\ Bottom

\* A frame stays well formed while the call goes on.
LEMMA ShapedStays ==
    ASSUME NEW g, NEW T, NEW a, NEW d, NEW e, d \subseteq e, Shaped(g, T, a, d)
    PROVE  Shaped(g, T, a, e)
BY DEF Shaped

\* The running function goes on.
LEMMA GoesOn ==
    ASSUME TypeOK, Stacked, Running, UNCHANGED fixed,
           call.did \subseteq call'.did, call'.event = call.event,
           NEW g \in Frame, GoTo(g), Shaped(g, rows, async, call'.did),
           g.event = Top.event, g.via = Top.via,
           g.fn = Top.fn \/ (Top.fn = "event" /\ g.fn = "exception")
    PROVE  Stacked'
<1>1. /\ stack' \in Seq(Frame) /\ Len(stack') = Len(stack) /\ stack'[1] = g
      /\ \A i \in 2..Len(stack) : stack'[i] = stack[i]
      /\ Running'
  BY GoesTo
<1>2. /\ stack \in Seq(Frame) /\ Len(stack) \in Nat /\ Len(stack) >= 1 /\ Top = stack[1]
      /\ DOMAIN stack = 1..Len(stack) /\ DOMAIN stack' = 1..Len(stack)
  BY <1>1, StackTyped DEF TypeOK
<1>f. rows' = rows /\ async' = async
  BY DEF fixed
<1>3. Frames'
  <2>1. ASSUME NEW i \in 1..Len(stack) PROVE Shaped(stack'[i], rows, async, call'.did)
    <3>1. CASE i = 1
      BY <1>1, <3>1
    <3>2. CASE i # 1
      <4>1. Shaped(stack[i], rows, async, call.did)
        BY <1>2 DEF Stacked, Frames
      <4>2. i \in 2..Len(stack)
        BY <1>2, <3>2
      <4>3. QED
        BY <1>1, <4>1, <4>2, ShapedStays
    <3>3. QED
      BY <3>1, <3>2
  <2>2. QED
    BY <1>2, <1>f, <2>1 DEF Frames
<1>4. Links'
  <2>1. ASSUME NEW i \in 2..Len(stack) PROVE Linked(stack'[i - 1], stack'[i], rows, call.event)
    <3>1. Linked(stack[i - 1], stack[i], rows, call.event) /\ stack'[i] = stack[i]
      BY <1>1 DEF Stacked, Links
    <3>2. CASE i = 2
      <4>1. Linked(Top, stack[i], rows, call.event) /\ stack'[i - 1] = g
        BY <1>1, <1>2, <3>1, <3>2
      <4>2. Linked(g, stack[i], rows, call.event)
        BY <4>1 DEF Linked
      <4>3. QED
        BY <3>1, <4>1, <4>2
    <3>3. CASE i # 2
      <4>1. i - 1 \in 2..Len(stack)
        BY <1>2, <3>3
      <4>2. stack'[i - 1] = stack[i - 1]
        BY <1>1, <4>1
      <4>3. QED
        BY <3>1, <4>2
    <3>4. QED
      BY <3>2, <3>3
  <2>2. QED
    BY <1>1, <1>f, <2>1 DEF Links
<1>5. Bottom'
  <2>1. Based(stack[Len(stack)], async, call.event)
    BY DEF Stacked, Bottom
  <2>2. Based(stack'[Len(stack)], async, call.event)
    <3>1. CASE Len(stack) = 1
      BY <1>1, <1>2, <2>1, <3>1 DEF Based
    <3>2. CASE Len(stack) # 1
      <4>1. Len(stack) \in 2..Len(stack)
        BY <1>2, <3>2
      <4>2. QED
        BY <1>1, <2>1, <4>1
    <3>3. QED
      BY <3>1, <3>2
  <2>3. QED
    BY <1>1, <1>f, <2>2 DEF Bottom
<1>6. QED
  BY <1>3, <1>4, <1>5 DEF Stacked

\* The running function calls another one.
LEMMA CallsOut ==
    ASSUME TypeOK, Stacked, Running, UNCHANGED fixed, call.did = call'.did,
           Len(stack) >= 2 => call'.event = call.event,
           NEW g \in Frame, NEW c \in Frame, Enter(g, c),
           Shaped(g, rows, async, call.did), Shaped(c, rows, async, call.did),
           Linked(c, g, rows, call'.event), Based(g, async, call'.event) \/ Len(stack) >= 2,
           g.fn = Top.fn, g.event = Top.event, g.via = Top.via \/ g.fn = "queue"
    PROVE  Stacked'
<1>1. /\ stack' \in Seq(Frame) /\ Len(stack') = Len(stack) + 1
      /\ stack'[1] = c /\ stack'[2] = g
      /\ \A i \in 3..Len(stack') : stack'[i] = stack[i - 1]
      /\ Running'
  BY Enters
<1>2. /\ stack \in Seq(Frame) /\ Len(stack) \in Nat /\ Len(stack) >= 1 /\ Top = stack[1]
      /\ DOMAIN stack = 1..Len(stack) /\ DOMAIN stack' = 1..(Len(stack) + 1)
  BY <1>1, StackTyped DEF TypeOK
<1>f. rows' = rows /\ async' = async
  BY DEF fixed
<1>3. Frames'
  <2>1. ASSUME NEW i \in 1..(Len(stack) + 1) PROVE Shaped(stack'[i], rows, async, call.did)
    <3>1. CASE i \in {1, 2}
      BY <1>1, <3>1
    <3>2. CASE i \notin {1, 2}
      <4>1. i - 1 \in 1..Len(stack) /\ i \in 3..Len(stack')
        BY <1>1, <1>2, <3>2
      <4>2. Shaped(stack[i - 1], rows, async, call.did) /\ stack'[i] = stack[i - 1]
        BY <1>1, <1>2, <4>1 DEF Stacked, Frames
      <4>3. QED
        BY <4>2
    <3>3. QED
      BY <3>1, <3>2
  <2>2. QED
    BY <1>2, <1>f, <2>1 DEF Frames
<1>4. Links'
  <2>1. ASSUME NEW i \in 2..(Len(stack) + 1) PROVE Linked(stack'[i - 1], stack'[i], rows, call'.event)
    <3>1. CASE i = 2
      BY <1>1, <3>1
    <3>2. CASE i # 2
      <4>1. /\ i - 1 \in 2..Len(stack) /\ i \in 3..Len(stack')
            /\ call'.event = call.event
        BY <1>1, <1>2, <3>2
      <4>2. Linked(stack[(i - 1) - 1], stack[i - 1], rows, call.event) /\ stack'[i] = stack[i - 1]
        BY <1>1, <4>1 DEF Stacked, Links
      <4>3. CASE i = 3
        <5>1. stack[(i - 1) - 1] = Top /\ stack'[i - 1] = g
          BY <1>1, <1>2, <4>3
        <5>2. Linked(Top, stack[i - 1], rows, call.event)
          BY <4>2, <5>1
        <5>3. Linked(g, stack[i - 1], rows, call.event)
          BY <5>2 DEF Linked
        <5>4. QED
          BY <4>1, <4>2, <5>1, <5>3
      <4>4. CASE i # 3
        <5>1. i - 1 \in 3..Len(stack')
          BY <1>1, <1>2, <3>2, <4>4
        <5>2. stack'[i - 1] = stack[(i - 1) - 1]
          BY <1>1, <5>1
        <5>3. QED
          BY <4>1, <4>2, <5>2
      <4>5. QED
        BY <4>3, <4>4
    <3>3. QED
      BY <3>1, <3>2
  <2>2. QED
    BY <1>1, <1>f, <2>1 DEF Links
<1>5. Bottom'
  <2>1. CASE Len(stack) = 1
    <3>1. stack'[Len(stack')] = g /\ Based(g, async, call'.event)
      BY <1>1, <1>2, <2>1
    <3>2. QED
      BY <1>f, <3>1 DEF Bottom
  <2>2. CASE Len(stack) # 1
    <3>1. Len(stack') \in 3..Len(stack') /\ Len(stack') - 1 = Len(stack) /\ Len(stack) >= 2
      BY <1>1, <1>2, <2>2
    <3>2. stack'[Len(stack')] = stack[Len(stack)]
      BY <1>1, <3>1
    <3>3. Based(stack[Len(stack)], async, call.event)
      BY DEF Stacked, Bottom
    <3>4. QED
      BY <1>f, <3>1, <3>2, <3>3 DEF Bottom
  <2>3. QED
    BY <2>1, <2>2
<1>6. QED
  BY <1>3, <1>4, <1>5 DEF Stacked

\* The running function returns.
LEMMA Leaves ==
    ASSUME TypeOK, Stacked, Running, UNCHANGED fixed,
           call.did \subseteq call'.did, call'.event = call.event, NEW v, Return(v)
    PROVE  Stacked'
<1>1. /\ stack' \in Seq(Frame) /\ Len(stack') = Len(stack) - 1
      /\ \A i \in 1..Len(stack') : stack'[i] = stack[i + 1]
      /\ Running' => Len(stack) >= 2
  BY Returns
<1>2. /\ stack \in Seq(Frame) /\ Len(stack) \in Nat /\ Len(stack) >= 1
      /\ DOMAIN stack = 1..Len(stack) /\ DOMAIN stack' = 1..(Len(stack) - 1)
  BY <1>1, StackTyped DEF TypeOK
<1>f. rows' = rows /\ async' = async
  BY DEF fixed
<1>3. Frames'
  <2>1. ASSUME NEW i \in 1..(Len(stack) - 1) PROVE Shaped(stack'[i], rows, async, call'.did)
    <3>1. i + 1 \in 1..Len(stack) /\ i \in 1..Len(stack')
      BY <1>1, <1>2
    <3>2. Shaped(stack[i + 1], rows, async, call.did) /\ stack'[i] = stack[i + 1]
      BY <1>1, <1>2, <3>1 DEF Stacked, Frames
    <3>3. QED
      BY <3>2, ShapedStays
  <2>2. QED
    BY <1>2, <1>f, <2>1 DEF Frames
<1>4. Links'
  <2>1. ASSUME NEW i \in 2..(Len(stack) - 1) PROVE Linked(stack'[i - 1], stack'[i], rows, call.event)
    <3>1. /\ i + 1 \in 2..Len(stack) /\ i \in 1..Len(stack') /\ i - 1 \in 1..Len(stack')
          /\ (i + 1) - 1 = (i - 1) + 1
      BY <1>1, <1>2
    <3>2. Linked(stack[(i + 1) - 1], stack[i + 1], rows, call.event)
      BY <3>1 DEF Stacked, Links
    <3>3. stack'[i] = stack[i + 1] /\ stack'[i - 1] = stack[(i - 1) + 1]
      BY <1>1, <3>1
    <3>4. QED
      BY <3>1, <3>2, <3>3
  <2>2. QED
    BY <1>1, <1>f, <2>1 DEF Links
<1>5. Bottom'
  <2>1. SUFFICES ASSUME Running' PROVE Based(stack'[Len(stack')], async, call.event)
    BY <1>f DEF Bottom
  <2>2. Len(stack') \in 1..Len(stack') /\ Len(stack') + 1 = Len(stack)
    BY <1>1, <1>2, <2>1
  <2>3. stack'[Len(stack')] = stack[Len(stack)]
    BY <1>1, <2>2
  <2>4. QED
    BY <2>3 DEF Stacked, Bottom
<1>6. QED
  BY <1>3, <1>4, <1>5 DEF Stacked

\* The owner's call returned, or just began.
LEMMA NobodyIn == ASSUME stack' = << >> PROVE Stacked'
<1>1. DOMAIN stack' = {} /\ Len(stack') = 0 /\ 2..0 = {}
  OBVIOUS
<1>2. QED
  BY <1>1 DEF Stacked, Frames, Links, Bottom, Running

\* The owner's call begins.
LEMMA ComesIn ==
    ASSUME NEW g \in Frame, stack' = <<g>>, Shaped(g, rows', async', call'.did),
           Based(g, async', call'.event)
    PROVE  Stacked'
<1>1. DOMAIN stack' = {1} /\ Len(stack') = 1 /\ 2..1 = {} /\ stack'[1] = g
  OBVIOUS
<1>2. QED
  BY <1>1 DEF Stacked, Frames, Links, Bottom

\* A failed callback is known to have failed while it travels up the stack.
Faulty == Running /\ ret \in Failures => "fault" \in call.did

StackInv == TypeOK /\ Tabled /\ Stacked /\ Faulty

\* An exception row's failure, or any other error, leaves the function.
LEMMA ThrowsOut ==
    ASSUME TypeOK, Stacked, Running, UNCHANGED fixed,
           call.did \subseteq call'.did, call'.event = call.event,
           NEW v \in Results, Throw(v), v \in Failures => "fault" \in call'.did
    PROVE  Stacked' /\ Faulty'
<1>t. Top \in Frame
  BY StackTyped
<1>1. CASE /\ Top.fn = "event" /\ v \in Failures
           /\ GoTo([Top EXCEPT !.fn = "exception", !.at = "dispatch", !.error = v])
  <2>1. PICK g : g = [Top EXCEPT !.fn = "exception", !.at = "dispatch", !.error = v]
    OBVIOUS
  <2>2. /\ g \in Frame /\ g.fn = "exception" /\ g.at = "dispatch" /\ g.error = v
        /\ g.event = Top.event /\ g.via = Top.via
    BY <1>t, <1>1, <2>1 DEF Frame
  <2>3. Shaped(g, rows, async, call'.did)
    BY <1>1, <2>2 DEF Shaped
  <2>4. Stacked'
    BY <1>1, <2>1, <2>2, <2>3, GoesOn
  <2>5. ret' = "none"
    BY <1>1 DEF GoTo
  <2>6. QED
    BY <2>4, <2>5 DEF Faulty, Failures
<1>2. CASE Return(v)
  <2>1. Stacked'
    BY <1>2, Leaves
  <2>2. ret' = v
    BY <1>2 DEF Return
  <2>3. QED
    BY <2>1, <2>2 DEF Faulty
<1>3. QED
  BY <1>1, <1>2, Throws

\* A failed callback, and a dropped call.
LEMMA BreaksOut ==
    ASSUME TypeOK, Stacked, Running, UNCHANGED fixed, NEW v \in Results,
           NEW what \in SUBSET {"took", "changed"}, Breaks(v, what)
    PROVE  Stacked' /\ Faulty'
<1>1. CASE Throw(v) /\ Mark(what \union {"fault"})
  <2>1. call.did \subseteq call'.did /\ call'.event = call.event /\ "fault" \in call'.did
    BY <1>1, MarkTyped
  <2>2. QED
    BY <1>1, <2>1, ThrowsOut
<1>2. CASE Abandon
  <2>1. stack' = << >> /\ ret' = "none"
    BY <1>2 DEF Abandon
  <2>2. QED
    BY <2>1, NobodyIn DEF Faulty, Failures
<1>3. QED
  BY <1>1, <1>2 DEF Breaks

\* The owner's calls.
LEMMA OwnerStacked ==
    ASSUME StackInv,
           \/ \E e \in Event : process_event(e)
           \/ initialize \/ \E s \in State : set_current_states(s)
    PROVE  Stacked' /\ Faulty'
<1> USE DEF StackInv
<1>1. CASE \E e \in Event : process_event(e)
  <2>1. PICK e \in Event : process_event(e)
    BY <1>1
  <2>2. /\ e # Wild /\ call'.event = e /\ call'.did = {} /\ UNCHANGED fixed
        /\ ret' \in {"none", "QueueFull"}
    BY <2>1, FlatAssumption DEF process_event
  <2>3. PICK g, h : g = NewFrame("event", e, "call") /\ h = NewFrame("queue", e, "call")
    OBVIOUS
  <2>4. /\ g \in Frame /\ g.fn = "event" /\ g.event = e /\ g.via = "call" /\ g.at = "dispatch"
        /\ h \in Frame /\ h.fn = "queue" /\ h.event = e /\ h.via = "call" /\ h.at = "dispatch"
    BY <2>3, FrameMade
  <2>5. /\ ~async => Shaped(g, rows', async', call'.did) /\ Based(g, async', call'.event)
        /\ async => Shaped(h, rows', async', call'.did) /\ Based(h, async', call'.event)
    BY <2>2, <2>4 DEF Shaped, Based, fixed
  <2>6. \/ stack' = << >>
        \/ ~async /\ stack' = <<g>>
        \/ async /\ stack' = <<h>>
    BY <2>1, <2>3 DEF process_event
  <2>7. Stacked'
    BY <2>4, <2>5, <2>6, NobodyIn, ComesIn
  <2>8. QED
    BY <2>2, <2>7 DEF Faulty, Failures
<1>2. CASE initialize
  <2>1. call.event = Wild /\ UNCHANGED fixed
    BY <1>2 DEF initialize
  <2>2. PICK g : g = [NewFrame("start", Wild, "call") EXCEPT !.at = "settle"]
    OBVIOUS
  <2>3. g \in Frame /\ g.fn = "start" /\ g.event = Wild /\ g.at = "settle"
    <3>1. PICK h : h = NewFrame("start", Wild, "call")
      OBVIOUS
    <3>2. h \in Frame /\ h.fn = "start" /\ h.event = Wild
      BY <3>1, FrameMade
    <3>3. g = [h EXCEPT !.at = "settle"]
      BY <2>2, <3>1
    <3>4. QED
      BY <3>2, <3>3 DEF Frame
  <2>4. \/ stack' = << >>
        \/ stack' = <<g>> /\ call' = call /\ ret' = "none"
    BY <1>2, <2>2 DEF initialize, Abandon
  <2>5. CASE stack' = << >>
    BY <2>5, NobodyIn DEF Faulty, Running
  <2>6. CASE stack' = <<g>> /\ call' = call /\ ret' = "none"
    <3>1. Shaped(g, rows', async', call'.did) /\ Based(g, async', call'.event)
      BY <2>1, <2>3, <2>6 DEF Shaped, Based
    <3>2. Stacked'
      BY <2>3, <2>6, <3>1, ComesIn
    <3>3. QED
      BY <2>6, <3>2 DEF Faulty, Failures
  <2>7. QED
    BY <2>4, <2>5, <2>6
<1>3. CASE \E s \in State : set_current_states(s)
  <2>1. stack' = << >>
    BY <1>3 DEF set_current_states, Running
  <2>2. QED
    BY <2>1, NobodyIn DEF Faulty, Running
<1>4. QED
  BY <1>1, <1>2, <1>3

\* Refusing an event, missing every candidate, and a guard that fails.
LEMMA MissStacked ==
    ASSUME StackInv, Refuse \/ Miss \/ GuardFails
    PROVE  Stacked' /\ Faulty'
<1> USE DEF StackInv
<1>r. Running /\ Top \in Frame /\ UNCHANGED fixed /\ call \in Calls
  BY StackTyped DEF Refuse, Miss, GuardFails, Dispatching, TypeOK, Calls
<1>s. Shaped(Top, rows, async, call.did)
  BY <1>r, TopShaped DEF Stacked
<1>1. CASE Refuse
  <2>1. Return("InvalidEvent") /\ call'.did = call.did /\ call'.event = call.event
    BY <1>1, <1>r DEF Refuse, Calls
  <2>2. Stacked' /\ ret' = "InvalidEvent"
    BY <1>r, <2>1, Leaves DEF Return
  <2>3. QED
    BY <2>2 DEF Faulty, Failures
<1>2. CASE Miss
  <2>1. call'.did = call.did /\ call'.event = call.event
    BY <1>2, <1>r DEF Miss, Calls
  <2>2. \E v : Return(v) /\ (v \in Failures => "fault" \in call.did)
    <3>1. Top.fn \in {"event", "completion", "exception"}
      BY <1>2, <1>r, <1>s DEF Miss, Dispatching, Shaped, Frame
    <3>2. \A v \in {"InvalidEvent", "TransitionsFailed", "false"} : v \notin Failures
      BY DEF Failures
    <3>3. CASE Top.fn = "event"
      BY <1>2, <3>2, <3>3 DEF Miss
    <3>4. CASE Top.fn = "completion"
      BY <1>2, <3>2, <3>4 DEF Miss
    <3>5. CASE Top.fn = "exception"
      <4>1. Return(Top.error)
        BY <1>2, <3>5 DEF Miss
      <4>2. QED
        BY <1>s, <3>5, <4>1 DEF Shaped
    <3>6. QED
      BY <3>1, <3>3, <3>4, <3>5
  <2>3. PICK v : Return(v) /\ (v \in Failures => "fault" \in call.did)
    BY <2>2
  <2>4. Stacked' /\ ret' = v
    BY <1>r, <2>1, <2>3, Leaves DEF Return
  <2>5. QED
    BY <2>1, <2>3, <2>4 DEF Faulty
<1>3. CASE GuardFails
  <2>1. Breaks("GuardFailed", {}) /\ "GuardFailed" \in Results
    BY <1>3 DEF GuardFails, Results, Failures
  <2>2. QED
    BY <1>r, <2>1, BreaksOut
<1>4. QED
  BY <1>1, <1>2, <1>3

\* A row is taken up to its process(...) events.
LEMMA Proceeds ==
    ASSUME StackInv, Dispatching, UNCHANGED fixed, NEW i \in Index, Proceed(i),
           NEW what \in SUBSET {"took", "changed"}, Mark(what)
    PROVE  Stacked' /\ Faulty' /\ Running' /\ Top'.fn = Top.fn /\ Top'.event = Top.event
           /\ Top'.via = Top.via /\ Top'.at = "process" /\ Top'.row = i /\ ret' = "none"
<1> USE DEF StackInv
<1>r. Running /\ Top \in Frame /\ Top.fn # "queue" /\ Top.at = "dispatch"
  BY StackTyped DEF Dispatching
<1>1. call.did \subseteq call'.did /\ call'.event = call.event
  BY MarkTyped
<1>2. PICK g : g = [Top EXCEPT !.row = i, !.at = "process", !.todo = rows[i].process]
  OBVIOUS
<1>3. g \in Frame
  BY <1>2, <1>r, FrameMoved, RowTyped
<1>4. g.fn = Top.fn /\ g.event = Top.event /\ g.via = Top.via /\ g.at = "process" /\ g.row = i
      /\ g.error = Top.error
  BY <1>2, <1>r DEF Frame
<1>5. Shaped(Top, rows, async, call'.did)
  BY <1>1, <1>r, TopShaped, ShapedStays DEF Stacked
<1>6. Shaped(g, rows, async, call'.did)
  BY <1>4, <1>5, <1>r DEF Shaped, Index
<1>7. GoTo(g)
  BY <1>2 DEF Proceed
<1>8. Stacked'
  BY <1>1, <1>3, <1>4, <1>6, <1>7, <1>r, GoesOn
<1>9. Running' /\ Top' = g /\ ret' = "none"
  BY <1>3, <1>7, <1>r, GoesTo
<1>10. QED
  BY <1>4, <1>8, <1>9 DEF Faulty, Failures

\* Taking a row.
LEMMA TakeStacked ==
    ASSUME StackInv, NEW i \in Index,
           TakeInternal(i) \/ ExitFails(i) \/ ActionFails(i) \/ Move(i)
    PROVE  Stacked' /\ Faulty'
<1> USE DEF StackInv
<1>r. Dispatching /\ Running /\ UNCHANGED fixed
  BY DEF TakeInternal, ExitFails, ActionFails, Move, Dispatching
<1>1. \/ \E v \in Failures \union {"QueueFull"}, what \in SUBSET {"took", "changed"} :
             Breaks(v, what)
      \/ \E what \in SUBSET {"took", "changed"} : Proceed(i) /\ Mark(what)
  <2>1. CASE TakeInternal(i) \/ Move(i)
    <3>1. \/ ActionsFail(i) \/ Breaks("ActionFailed", {"took", "changed"})
          \/ \E what \in SUBSET {"took", "changed"} : Defers(i, what)
      BY <2>1 DEF TakeInternal, Move
    <3>2. ASSUME ActionsFail(i) PROVE \E v \in Failures : Breaks(v, {})
      BY <3>2 DEF ActionsFail, Fails
    <3>3. ASSUME NEW what \in SUBSET {"took", "changed"}, Defers(i, what)
          PROVE  Breaks("QueueFull", what) \/ (Proceed(i) /\ Mark(what))
      BY <3>3 DEF Defers, Breaks
    <3>4. QED
      BY <3>1, <3>2, <3>3 DEF Failures
  <2>2. CASE ExitFails(i) \/ ActionFails(i)
    BY <2>2 DEF ExitFails, ActionFails, ActionsFail, Fails, Failures
  <2>3. QED
    BY <2>1, <2>2
<1>2. Failures \union {"QueueFull"} \subseteq Results
  BY DEF Results
<1>3. QED
  BY <1>1, <1>2, <1>r, BreaksOut, Proceeds

\* Only the function the owner called has nothing under it.
LEMMA TopBased ==
    ASSUME TypeOK, Stacked, Running
    PROVE  /\ Based(Top, async, call.event) \/ Len(stack) >= 2
           /\ Top.fn = "queue" => Len(stack) = 1 /\ Based(Top, async, call.event)
           /\ Shaped(Top, rows, async, call.did)
<1>1. Len(stack) \in Nat /\ Len(stack) >= 1 /\ Top = stack[1]
  BY StackTyped
<1>s. Shaped(Top, rows, async, call.did)
  BY TopShaped DEF Stacked
<1>2. CASE Len(stack) = 1
  <2>1. Based(stack[1], async, call.event)
    BY <1>2 DEF Stacked, Bottom
  <2>2. QED
    BY <1>1, <1>2, <1>s, <2>1
<1>3. CASE Len(stack) # 1
  <2>1. 2 \in 2..Len(stack) /\ Len(stack) >= 2 /\ 2 - 1 = 1
    <3>1. ASSUME NEW n \in Nat, n >= 1, n # 1 PROVE 2 \in 2..n /\ n >= 2 /\ 2 - 1 = 1
      BY ONLY <3>1
    <3>2. QED
      BY <1>1, <1>3, <3>1
  <2>2. Linked(stack[2 - 1], stack[2], rows, call.event)
    BY <2>1 DEF Stacked, Links
  <2>3. Top.fn # "queue"
    BY <1>1, <2>1, <2>2 DEF Linked
  <2>4. QED
    BY <1>s, <2>1, <2>3
<1>4. QED
  BY <1>2, <1>3

\* The running function calls another one in the same call of the owner.
LEMMA CallsOn ==
    ASSUME TypeOK, Stacked, Running, UNCHANGED fixed, UNCHANGED call,
           NEW g \in Frame, NEW c \in Frame, Enter(g, c),
           g.fn = Top.fn, g.event = Top.event, g.via = Top.via,
           Shaped(g, rows, async, call.did), Shaped(c, rows, async, call.did),
           Linked(c, g, rows, call.event)
    PROVE  Stacked' /\ Faulty'
<1>1. Based(g, async, call'.event) \/ Len(stack) >= 2
  BY TopBased DEF Based
<1>2. Stacked'
  BY <1>1, CallsOut
<1>3. ret' = "none"
  BY DEF Enter
<1>4. QED
  BY <1>2, <1>3 DEF Faulty, Failures

\* The running function goes on where it was.
LEMMA GoesBack ==
    ASSUME TypeOK, Stacked, Running, UNCHANGED fixed, UNCHANGED call, GoTo(Top)
    PROVE  Stacked' /\ Faulty'
<1>1. Top \in Frame /\ Shaped(Top, rows, async, call.did)
  BY StackTyped, TopBased
<1>2. Stacked'
  BY <1>1, GoesOn
<1>3. ret' = "none"
  BY DEF GoTo
<1>4. QED
  BY <1>2, <1>3 DEF Faulty, Failures

\* An async machine's loop.
LEMMA LoopStacked ==
    ASSUME StackInv, QueueNext \/ QueueDone
    PROVE  Stacked' /\ Faulty'
<1> USE DEF StackInv
<1>r. Running /\ Top \in Frame /\ call \in Calls /\ UNCHANGED fixed /\ Top.fn = "queue"
  BY StackTyped DEF QueueNext, QueueDone, TypeOK, Calls
<1>s. Shaped(Top, rows, async, call.did) /\ Len(stack) = 1
  BY <1>r, TopBased
<1>1. CASE /\ pending # << >>
           /\ Enter([Top EXCEPT !.via = "queue"], NewFrame("event", Head(pending), Top.via))
           /\ call' = [call EXCEPT !.event = Head(pending)]
  <2>1. Head(pending) \in Event /\ Head(pending) # Wild
    BY <1>1, QueueOps, FlatAssumption DEF TypeOK
  <2>2. Top.via \in {"call", "queue"} /\ async
    BY <1>r, <1>s DEF Shaped
  <2>3. PICK g, c : g = [Top EXCEPT !.via = "queue"] /\ c = NewFrame("event", Head(pending), Top.via)
    OBVIOUS
  <2>4. /\ g \in Frame /\ g.fn = "queue" /\ g.via = "queue" /\ g.event = Top.event
        /\ g.at = "dispatch" /\ g.at = Top.at
    BY <1>r, <1>s, <2>3 DEF Frame, Shaped
  <2>5. /\ c \in Frame /\ c.fn = "event" /\ c.event = Head(pending)
        /\ c.via \in {"call", "queue"} /\ c.at = "dispatch"
    BY <2>1, <2>2, <2>3, FrameMade
  <2>6. call'.event = Head(pending) /\ call'.did = call.did
    BY <1>1, <1>r DEF Calls
  <2>7. Shaped(g, rows, async, call.did) /\ Shaped(c, rows, async, call.did)
    BY <1>r, <1>s, <2>2, <2>4, <2>5 DEF Shaped
  <2>8. Linked(c, g, rows, call'.event) /\ Based(g, async, call'.event)
    BY <2>1, <2>4, <2>5, <2>6 DEF Linked, Based
  <2>9. Enter(g, c)
    BY <1>1, <2>3
  <2>10. ~(Len(stack) >= 2)
    BY <1>s
  <2>11. Stacked'
    BY <1>r, <2>4, <2>5, <2>6, <2>7, <2>8, <2>9, <2>10, CallsOut
  <2>12. ret' = "none"
    BY <2>9 DEF Enter
  <2>13. QED
    BY <2>11, <2>12 DEF Faulty, Failures
<1>2. CASE Return("ok") /\ UNCHANGED call
  <2>1. Stacked' /\ ret' = "ok"
    BY <1>2, <1>r, Leaves DEF Return
  <2>2. QED
    BY <2>1 DEF Faulty, Failures
<1>3. CASE QueueDone
  <2>1. UNCHANGED call /\ (GoTo(Top) \/ Return(ret))
    BY <1>3 DEF QueueDone
  <2>2. CASE GoTo(Top)
    BY <1>r, <2>1, <2>2, GoesBack
  <2>3. CASE Return(ret)
    <3>1. Stacked' /\ ret' = ret
      BY <1>r, <2>1, <2>3, Leaves DEF Return
    <3>2. QED
      BY <1>r, <2>1, <3>1 DEF Faulty
  <2>4. QED
    BY <2>1, <2>2, <2>3
<1>4. QED
  BY <1>1, <1>2, <1>3 DEF QueueNext

\* The end of a row.
LEMMA FinishStacked ==
    ASSUME StackInv, Running, UNCHANGED fixed, UNCHANGED call, Finish(Top)
    PROVE  Stacked' /\ Faulty'
<1> USE DEF StackInv
<1>1. CASE \E v \in {"true", "ok"} : Return(v)
  <2>1. PICK v \in {"true", "ok"} : Return(v)
    BY <1>1
  <2>2. Stacked' /\ ret' = v
    BY <2>1, Leaves DEF Return
  <2>3. QED
    BY <2>2 DEF Faulty, Failures
<1>2. CASE Top.fn = "event" /\ GoTo([Top EXCEPT !.at = "settle"])
  <2>1. Top \in Frame /\ Shaped(Top, rows, async, call.did)
    BY StackTyped, TopBased
  <2>2. PICK g : g = [Top EXCEPT !.at = "settle"]
    OBVIOUS
  <2>3. g \in Frame /\ g.fn = "event" /\ g.at = "settle" /\ g.event = Top.event /\ g.via = Top.via
    BY <1>2, <2>1, <2>2 DEF Frame
  <2>4. Shaped(g, rows, async, call.did)
    BY <1>2, <2>1, <2>3 DEF Shaped
  <2>5. GoTo(g)
    BY <1>2, <2>2
  <2>6. Stacked'
    BY <1>2, <2>3, <2>4, <2>5, GoesOn
  <2>7. ret' = "none"
    BY <2>5 DEF GoTo
  <2>8. QED
    BY <2>6, <2>7 DEF Faulty, Failures
<1>3. QED
  BY <1>1, <1>2 DEF Finish

\* The moves between the loops of a row.
LEMMA MovesStacked ==
    ASSUME StackInv,
           \/ ProcessEnd \/ ProcessDone \/ DrainEnd \/ DrainDone \/ SettleNext \/ SettleDone
    PROVE  Stacked' /\ Faulty'
<1> USE DEF StackInv
<1>r. Running /\ Top \in Frame /\ UNCHANGED fixed /\ UNCHANGED call
  BY StackTyped DEF ProcessEnd, ProcessDone, DrainEnd, DrainDone, SettleNext, SettleDone, Idle,
         Resumed, StateKeeps
<1>s. Shaped(Top, rows, async, call.did)
  BY <1>r, TopBased
<1>1. CASE ProcessEnd \/ DrainEnd
  <2>1. CASE Retries(Top) /\ Top.at = "process" /\ GoTo([Top EXCEPT !.at = "drain"])
    <3>1. PICK g : g = [Top EXCEPT !.at = "drain"]
      OBVIOUS
    <3>2. /\ g \in Frame /\ g.fn = Top.fn /\ g.at = "drain" /\ g.event = Top.event
          /\ g.via = Top.via /\ g.row = Top.row /\ g.error = Top.error
      BY <1>r, <3>1 DEF Frame
    <3>3. Shaped(g, rows, async, call.did)
      BY <1>s, <2>1, <3>2 DEF Shaped, Retries
    <3>4. GoTo(g)
      BY <2>1, <3>1
    <3>5. Stacked'
      BY <1>r, <3>2, <3>3, <3>4, GoesOn
    <3>6. ret' = "none"
      BY <3>4 DEF GoTo
    <3>7. QED
      BY <3>5, <3>6 DEF Faulty, Failures
  <2>2. CASE Finish(Top)
    BY <1>r, <2>2, FinishStacked
  <2>3. QED
    BY <1>1, <2>1, <2>2 DEF ProcessEnd, DrainEnd, Idle
<1>2. CASE ProcessDone \/ DrainDone \/ SettleDone
  <2>1. ret \in Results
    BY <1>2 DEF ProcessDone, DrainDone, SettleDone, Resumed, TypeOK
  <2>2. GoTo(Top) \/ Return("ok") \/ Throw(ret)
    BY <1>2 DEF ProcessDone, DrainDone, SettleDone
  <2>3. CASE GoTo(Top)
    BY <1>r, <2>3, GoesBack
  <2>4. CASE Return("ok")
    <3>1. Stacked' /\ ret' = "ok"
      BY <1>r, <2>4, Leaves DEF Return
    <3>2. QED
      BY <3>1 DEF Faulty, Failures
  <2>5. CASE Throw(ret)
    <3>1. ret \in Failures => "fault" \in call'.did
      BY <1>r DEF Faulty
    <3>2. QED
      BY <1>r, <2>1, <2>5, <3>1, ThrowsOut
  <2>6. QED
    BY <2>2, <2>3, <2>4, <2>5
<1>3. CASE SettleNext
  <2>1. Origin(Top.event) \in Event \union {Wild} /\ Top.via \in {"call", "process", "retry", "queue"}
    BY <1>r DEF Origin, Frame
  <2>2. PICK c : c = NewFrame("completion", Origin(Top.event), Top.via)
    OBVIOUS
  <2>3. /\ c \in Frame /\ c.fn = "completion" /\ c.event = Origin(Top.event) /\ c.at = "dispatch"
    BY <2>1, <2>2, FrameMade
  <2>4. Shaped(c, rows, async, call.did)
    BY <2>3 DEF Shaped
  <2>5. Top.at = "settle" /\ Top.fn # "queue"
    BY <1>3, <1>s DEF SettleNext, Idle, Shaped
  <2>6. Linked(c, Top, rows, call.event)
    BY <2>3, <2>5 DEF Linked, Origin, OriginIn, Index
  <2>7. Enter(Top, c)
    BY <1>3, <2>2 DEF SettleNext
  <2>8. QED
    BY <1>r, <1>s, <2>3, <2>4, <2>6, <2>7, CallsOn
<1>4. QED
  BY <1>1, <1>2, <1>3

\* An event that an async machine queues.
LEMMA QueueStacked ==
    ASSUME StackInv, Running, UNCHANGED fixed, NEW e \in Event, NEW g \in Frame, Queue(e, g),
           Shaped(g, rows, async, call.did), g.fn = Top.fn, g.event = Top.event, g.via = Top.via
    PROVE  Stacked' /\ Faulty'
<1> USE DEF StackInv
<1>1. CASE GoTo(g) /\ UNCHANGED call
  <2>1. Stacked'
    BY <1>1, GoesOn
  <2>2. ret' = "none"
    BY <1>1 DEF GoTo
  <2>3. QED
    BY <2>1, <2>2 DEF Faulty, Failures
<1>2. CASE Throw("QueueFull") /\ Mark({"fault"})
  <2>1. call.did \subseteq call'.did /\ call'.event = call.event /\ "fault" \in call'.did
    BY <1>2, MarkTyped
  <2>2. "QueueFull" \in Results
    BY DEF Results
  <2>3. QED
    BY <1>2, <2>1, <2>2, ThrowsOut
<1>3. QED
  BY <1>1, <1>2 DEF Queue

\* The events of process(...) actions and the deferred ones.
LEMMA NextStacked ==
    ASSUME StackInv, ProcessNext \/ DrainNext
    PROVE  Stacked' /\ Faulty'
<1> USE DEF StackInv
<1>r. Running /\ Top \in Frame /\ UNCHANGED fixed
  BY StackTyped DEF ProcessNext, DrainNext, Idle, StateKeeps
<1>s. Shaped(Top, rows, async, call.did)
  BY <1>r, TopBased
<1>a. Top.at \in {"process", "drain"} /\ Top.fn # "queue"
  BY <1>s DEF ProcessNext, DrainNext, Idle, Shaped
<1>1. CASE ProcessNext
  <2>1. PICK g : g = [Top EXCEPT !.todo = Tail(@)]
    OBVIOUS
  <2>2. g \in Frame /\ Head(Top.todo) \in Event
    BY <1>1, <1>r, <2>1, FrameMoved DEF ProcessNext
  <2>3. /\ g.fn = Top.fn /\ g.at = Top.at /\ g.event = Top.event
        /\ g.via = Top.via /\ g.row = Top.row /\ g.error = Top.error
    BY <1>r, <2>1 DEF Frame
  <2>4. Shaped(g, rows, async, call.did)
    BY <1>s, <2>3 DEF Shaped
  <2>5. CASE ~async /\ Enter(g, NewFrame("event", Head(Top.todo), "process")) /\ UNCHANGED call
    <3>1. PICK c : c = NewFrame("event", Head(Top.todo), "process")
      OBVIOUS
    <3>2. c \in Frame /\ c.fn = "event" /\ c.via = "process" /\ c.at = "dispatch"
      BY <2>2, <3>1, FrameMade
    <3>3. Shaped(c, rows, async, call.did) /\ Linked(c, g, rows, call.event)
      BY <1>a, <2>3, <2>5, <3>2 DEF Shaped, Linked
    <3>4. Enter(g, c)
      BY <2>5, <3>1
    <3>5. QED
      BY <1>r, <2>2, <2>3, <2>4, <2>5, <3>2, <3>3, <3>4, CallsOn
  <2>6. CASE Queue(Head(Top.todo), g)
    BY <1>r, <2>2, <2>3, <2>4, <2>6, QueueStacked
  <2>7. QED
    BY <1>1, <2>1, <2>5, <2>6 DEF ProcessNext
<1>2. CASE DrainNext
  <2>1. Head(deferred) \in Event
    BY <1>2, QueueOps DEF DrainNext, TypeOK
  <2>2. CASE ~async /\ Enter(Top, NewFrame("event", Head(deferred), "retry")) /\ UNCHANGED call
    <3>1. PICK c : c = NewFrame("event", Head(deferred), "retry")
      OBVIOUS
    <3>2. c \in Frame /\ c.fn = "event" /\ c.via = "retry" /\ c.at = "dispatch"
      BY <2>1, <3>1, FrameMade
    <3>3. Top.at = "drain"
      BY <1>2 DEF DrainNext, Idle
    <3>4. Shaped(c, rows, async, call.did) /\ Linked(c, Top, rows, call.event)
      BY <1>a, <2>2, <3>2, <3>3 DEF Shaped, Linked
    <3>5. Enter(Top, c)
      BY <2>2, <3>1
    <3>6. QED
      BY <1>r, <1>s, <2>2, <3>2, <3>4, <3>5, CallsOn
  <2>3. CASE Queue(Head(deferred), Top)
    BY <1>r, <1>s, <2>1, <2>3, QueueStacked
  <2>4. QED
    BY <1>2, <2>2, <2>3 DEF DrainNext
<1>3. QED
  BY <1>1, <1>2

\* Every step keeps the stack well formed.
LEMMA StepStacked == ASSUME StackInv, [Next]_vars PROVE StackInv'
<1>1. TypeOK'
  BY StepTyped DEF StackInv, Stacked
<1>2. Tabled' /\ UNCHANGED fixed
  <2>1. UNCHANGED fixed
    <3>1. CASE Step
      BY <3>1 DEF Step, Refuse, Miss, GuardFails, TakeInternal, ExitFails, ActionFails, Move,
           QueueNext, QueueDone, ProcessNext, ProcessDone, ProcessEnd, DrainNext, DrainDone,
           DrainEnd, SettleNext, SettleDone, StateKeeps
    <3>2. QED
      BY <3>1 DEF Next, vars, process_event, initialize, set_current_states
  <2>2. QED
    BY <2>1 DEF StackInv, Tabled, fixed
<1>3. Stacked' /\ Faulty'
  <2>1. CASE UNCHANGED vars
    BY <2>1 DEF StackInv, Stacked, Frames, Links, Bottom, Faulty, Running, vars, fixed, Top
  <2>2. CASE Step
    BY <2>2, MissStacked, TakeStacked, LoopStacked, MovesStacked, NextStacked DEF Step
  <2>3. QED
    BY <2>1, <2>2, OwnerStacked DEF Next
<1>4. QED
  BY <1>1, <1>2, <1>3 DEF StackInv

\* A fresh machine.
LEMMA FreshStack == Init => StackInv
<1> SUFFICES ASSUME Init PROVE StackInv
  OBVIOUS
<1>1. Tabled
  BY DEF Init, Tabled
<1>2. DOMAIN stack = {} /\ Len(stack) = 0 /\ 2..0 = {} /\ stack = << >>
  BY DEF Init
<1>3. Stacked /\ Faulty
  BY <1>2 DEF Stacked, Frames, Links, Bottom, Faulty, Running
<1>4. TypeOK
  <2>1. rows \in Seq(Row)
    BY <1>1, FlatAssumption DEF Tabled
  <2>2. Capacity \in Nat /\ Start \in State /\ Len(<< >>) = 0 /\ << >> \in Seq(Event)
        /\ << >> \in Seq(Frame) /\ 0 \in 0..0 /\ 0 \in 0..2 /\ 1 \in 0..2 /\ 0 <= Capacity
    BY FlatAssumption
  <2>3. async \in BOOLEAN
    BY DEF Init
  <2>4. call \in [event : Event \union {Wild},
                 did : SUBSET {"took", "changed", "fault", "caught"},
                 blame : {"none", "call", "process", "retry", "queue"}]
    BY DEF Init
  <2>5. QED
    BY <2>1, <2>2, <2>3, <2>4 DEF Init, TypeOK
<1>5. QED
  BY <1>1, <1>3, <1>4 DEF StackInv

\* The inductive invariant of the call stack.
LEMMA AlwaysStacked == Spec => []StackInv
<1>1. Init => StackInv
  BY FreshStack
<1>2. StackInv /\ [Next]_vars => StackInv'
  BY StepStacked
<1>3. QED
  BY <1>1, <1>2, PTL DEF Spec

\* For every table, queue capacity and policy the engine's state stays well
\* typed: no call stack, queue or history leaves its range.
THEOREM EngineTyped == Spec => []TypeOK
<1>1. StackInv => TypeOK
  BY DEF StackInv
<1>2. QED
  BY <1>1, AlwaysStacked, PTL

-----------------------------------------------------------------------------
(* What the steps of the engine have in common.                            *)

\* The errors no exception row was taken for.
Broken == Failures \union {"QueueFull"}

\* Taking a row breaks off, or goes on to its process(...) events.
LEMMA Taken ==
    ASSUME NEW i \in Index, TakeInternal(i) \/ ExitFails(i) \/ ActionFails(i) \/ Move(i)
    PROVE  /\ Dispatching /\ UNCHANGED fixed
           /\ \/ \E v \in Broken, what \in {{}, {"took"}, {"took", "changed"}} : Breaks(v, what)
              \/ \E what \in {{"took"}, {"took", "changed"}} : Proceed(i) /\ Mark(what)
<1>1. CASE TakeInternal(i) \/ Move(i)
  <2>1. \/ ActionsFail(i) \/ Breaks("ActionFailed", {"took", "changed"})
        \/ Defers(i, {"took"}) \/ Defers(i, {"took", "changed"})
    BY <1>1 DEF TakeInternal, Move
  <2>2. ASSUME ActionsFail(i) PROVE \E v \in Failures : Breaks(v, {})
    BY <2>2 DEF ActionsFail, Fails
  <2>3. ASSUME NEW what \in {{"took"}, {"took", "changed"}}, Defers(i, what)
        PROVE  Breaks("QueueFull", what) \/ (Proceed(i) /\ Mark(what))
    BY <2>3 DEF Defers, Breaks
  <2>4. QED
    BY <1>1, <2>1, <2>2, <2>3 DEF Broken, Failures, TakeInternal, Move
<1>2. CASE ExitFails(i) \/ ActionFails(i)
  BY <1>2 DEF ExitFails, ActionFails, ActionsFail, Fails, Broken, Failures
<1>3. QED
  BY <1>1, <1>2

\* What every step inside the engine leaves alone.
LEMMA StepFoot ==
    ASSUME TypeOK, Step
    PROVE  /\ Running /\ UNCHANGED <<fixed, begun>>
           /\ call'.event \in {call.event} \union Event
           /\ ~QueueNext => call'.event = call.event
<1>c. call \in Calls /\ pending \in Seq(Event) /\ Len(pending) <= Capacity
  BY DEF TypeOK, Calls
<1>m. ASSUME NEW what \in SUBSET {"took", "changed", "fault"}, Mark(what)
      PROVE  call'.event = call.event
  BY <1>m, MarkTyped
<1>b. ASSUME NEW v, NEW what \in SUBSET {"took", "changed"}, Breaks(v, what)
      PROVE  call'.event = call.event
  <2>1. what \union {"fault"} \in SUBSET {"took", "changed", "fault"}
    OBVIOUS
  <2>2. QED
    BY <1>b, <1>m, <2>1 DEF Breaks, Abandon
<1>1. CASE Refuse \/ Miss \/ GuardFails
  BY <1>1, <1>b, <1>c DEF Refuse, Miss, GuardFails, Dispatching, Calls
<1>2. ASSUME NEW i \in Index, TakeInternal(i) \/ ExitFails(i) \/ ActionFails(i) \/ Move(i)
      PROVE  Running /\ UNCHANGED <<fixed, begun>> /\ call'.event = call.event
  <2>1. call'.event = call.event
    BY <1>2, <1>b, <1>m, Taken
  <2>2. QED
    BY <1>2, <2>1 DEF TakeInternal, ExitFails, ActionFails, Move, Dispatching
<1>3. CASE QueueNext \/ QueueDone
  <2>1. pending # << >> => Head(pending) \in Event
    BY <1>c, QueueOps
  <2>2. QED
    BY <1>3, <1>c, <2>1 DEF QueueNext, QueueDone, Calls
<1>4. CASE ProcessNext \/ DrainNext
  <2>1. call'.event = call.event
    BY <1>4, <1>m DEF ProcessNext, DrainNext, Queue
  <2>2. QED
    BY <1>4, <2>1 DEF ProcessNext, DrainNext, Idle, StateKeeps
<1>5. CASE \/ ProcessEnd \/ ProcessDone \/ DrainEnd \/ DrainDone \/ SettleNext \/ SettleDone
  BY <1>5 DEF ProcessEnd, ProcessDone, DrainEnd, DrainDone, SettleNext, SettleDone, Idle,
       Resumed, StateKeeps
<1>6. QED
  BY <1>1, <1>2, <1>3, <1>4, <1>5 DEF Step

\* Before initialize the machine did nothing.
Unbegun == ~begun /\ call.event = Wild => call.did = {} /\ ~Running

\* A machine that was never called did nothing.
LEMMA AlwaysUnbegun == Spec => []Unbegun
<1>1. Init => Unbegun
  BY DEF Init, Unbegun, Running
<1>2. StackInv /\ Unbegun /\ [Next]_vars => Unbegun'
  <2> SUFFICES ASSUME StackInv, Unbegun, [Next]_vars PROVE Unbegun'
    OBVIOUS
  <2>1. CASE UNCHANGED vars
    BY <2>1 DEF vars, Unbegun, Running
  <2>2. ASSUME NEW e \in Event, process_event(e) PROVE Unbegun'
    <3>1. call'.event # Wild
      BY <2>2, FlatAssumption DEF process_event
    <3>2. QED
      BY <3>1 DEF Unbegun
  <2>3. CASE initialize
    BY <2>3 DEF initialize, Unbegun
  <2>4. ASSUME NEW s \in State, set_current_states(s) PROVE Unbegun'
    BY <2>4 DEF set_current_states, Unbegun, Running
  <2>5. CASE Step
    <3>1. Running /\ begun' = begun /\ call'.event \in {call.event} \union Event
      BY <2>5, StepFoot DEF StackInv
    <3>2. QED
      BY <3>1, FlatAssumption DEF Unbegun
  <2>6. QED
    BY <2>1, <2>2, <2>3, <2>4, <2>5 DEF Next
<1>3. QED
  BY <1>1, <1>2, AlwaysStacked, PTL DEF Spec

-----------------------------------------------------------------------------
(* A fault reaches the caller.                                             *)

\* A callback failed or a queue was full, and no exception row was taken.
Hidden(did) == "fault" \in did /\ "caught" \notin did

\* It is on its way up, in the result or in the hands of an exception
\* handler that has not chosen yet; or the call was dropped.
Surfacing ==
    Hidden(call.did) =>
        \/ ret \in Broken
        \/ ret = "none" /\ (Running => Top.fn = "exception" /\ Top.at = "dispatch")

\* An error that is thrown is on its way up.
LEMMA Raised ==
    ASSUME TypeOK, Running, NEW v \in Broken, Throw(v)
    PROVE  Surfacing'
<1>1. CASE /\ v \in Failures
           /\ GoTo([Top EXCEPT !.fn = "exception", !.at = "dispatch", !.error = v])
  <2>1. PICK g : g = [Top EXCEPT !.fn = "exception", !.at = "dispatch", !.error = v]
    OBVIOUS
  <2>2. g \in Frame /\ g.fn = "exception" /\ g.at = "dispatch"
    <3>1. g \in Frame
      BY <1>1, <2>1, StackTyped, FrameMoved
    <3>2. QED
      BY <2>1, <3>1, StackTyped DEF Frame
  <2>3. Top' = g /\ ret' = "none"
    BY <1>1, <2>1, <2>2, GoesTo
  <2>4. QED
    BY <2>2, <2>3 DEF Surfacing
<1>2. CASE Return(v)
  BY <1>2 DEF Return, Surfacing
<1>3. QED
  BY <1>1, <1>2, Throws

\* So is one that ends the step of a callback.
LEMMA BreakRaised ==
    ASSUME TypeOK, Running, NEW v \in Broken, NEW what, Breaks(v, what)
    PROVE  Surfacing'
<1>1. CASE Abandon
  BY <1>1 DEF Abandon, Surfacing, Running
<1>2. QED
  BY <1>1, Raised DEF Breaks

\* A call without a hidden fault.
LEMMA Clear == ASSUME ~Hidden(call.did), call'.did = call.did PROVE Surfacing'
BY DEF Surfacing, Hidden

\* An event that finds no room in the pending queue is a fault of its own.
LEMMA QueueRaised ==
    ASSUME TypeOK, Running, ~Hidden(call.did), NEW e, NEW g, Queue(e, g)
    PROVE  Surfacing'
BY Clear, Raised DEF Queue, Broken

\* The owner's calls.
LEMMA OwnerSurfaces ==
    ASSUME TypeOK, Surfacing, Unbegun,
           \/ \E e \in Event : process_event(e)
           \/ initialize \/ \E s \in State : set_current_states(s)
    PROVE  Surfacing'
<1>1. CASE \E e \in Event : process_event(e)
  <2>1. call'.did = {}
    BY <1>1 DEF process_event
  <2>2. QED
    BY <2>1 DEF Surfacing, Hidden
<1>2. CASE initialize
  <2>1. call.did = {}
    BY <1>2 DEF initialize, Unbegun
  <2>2. ret' = "ActionFailed" \/ call' = call
    BY <1>2 DEF initialize, Abandon
  <2>3. QED
    BY <2>1, <2>2 DEF Surfacing, Hidden, Broken, Failures
<1>3. CASE \E s \in State : set_current_states(s)
  BY <1>3 DEF set_current_states, Surfacing, Running
<1>4. QED
  BY <1>1, <1>2, <1>3

\* The engine's own steps.
LEMMA StepSurfaces ==
    ASSUME TypeOK, Frames, Surfacing, Step
    PROVE  Surfacing'
<1>r. Running /\ call \in Calls /\ Top \in Frame
  BY StepFoot, StackTyped DEF TypeOK, Calls
<1>s. Shaped(Top, rows, async, call.did)
  BY <1>r, TopShaped
<1>n. ret = "none" /\ ~(Top.fn = "exception" /\ Top.at = "dispatch") => ~Hidden(call.did)
  BY <1>r DEF Surfacing, Broken, Failures
<1>d. ret \notin Broken \union {"none"} => ~Hidden(call.did)
  BY DEF Surfacing
<1>1. CASE Refuse
  BY <1>1, <1>n, <1>r, Clear DEF Refuse, Dispatching, Calls
<1>2. CASE Miss
  <2>1. CASE Top.fn = "exception"
    <3>1. ret' = Top.error
      BY <1>2, <2>1 DEF Miss, Return
    <3>2. QED
      BY <1>s, <2>1, <3>1 DEF Shaped, Surfacing, Broken
  <2>2. CASE Top.fn # "exception"
    BY <1>2, <1>n, <1>r, <2>2, Clear DEF Miss, Dispatching, Calls
  <2>3. QED
    BY <2>1, <2>2
<1>3. CASE GuardFails
  BY <1>3, <1>r, BreakRaised DEF GuardFails, Broken, Failures
<1>4. ASSUME NEW i \in Index, TakeInternal(i) \/ ExitFails(i) \/ ActionFails(i) \/ Move(i)
      PROVE  Surfacing'
  <2>1. CASE \E v \in Broken, what \in {{}, {"took"}, {"took", "changed"}} : Breaks(v, what)
    BY <1>r, <2>1, BreakRaised
  <2>2. CASE \E what \in {{"took"}, {"took", "changed"}} : Proceed(i) /\ Mark(what)
    <3>1. PICK what \in {{"took"}, {"took", "changed"}} : Mark(what)
      BY <2>2
    <3>2. call'.did = call.did \union what
                        \union (IF Top.fn = "exception" /\ "took" \in what THEN {"caught"} ELSE {})
      BY <3>1, MarkTyped
    <3>3. ret = "none"
      BY <1>4, Taken DEF Dispatching
    <3>4. ~Hidden(call'.did)
      BY <1>n, <3>2, <3>3 DEF Hidden
    <3>5. QED
      BY <3>4 DEF Surfacing
  <2>3. QED
    BY <1>4, <2>1, <2>2, Taken
<1>5. CASE QueueNext \/ QueueDone
  <2>1. call'.did = call.did
    BY <1>5, <1>r DEF QueueNext, QueueDone, Calls
  <2>2. CASE ret = "none"
    <3>1. Top.fn = "queue"
      BY <1>5 DEF QueueNext, QueueDone
    <3>2. QED
      BY <1>n, <2>1, <2>2, <3>1, Clear
  <2>3. CASE ret # "none"
    <3>1. ret = "ok" \/ ret' = ret
      BY <1>5, <2>3 DEF QueueNext, QueueDone, Return
    <3>2. "ok" \notin Broken
      BY DEF Broken, Failures
    <3>3. QED
      BY <1>d, <2>1, <2>3, <3>1, <3>2, Clear DEF Surfacing
  <2>4. QED
    BY <2>2, <2>3
<1>6. CASE ProcessNext \/ DrainNext \/ ProcessEnd \/ DrainEnd \/ SettleNext
  <2>1. ~Hidden(call.did)
    BY <1>6, <1>n DEF ProcessNext, DrainNext, ProcessEnd, DrainEnd, SettleNext, Idle
  <2>2. UNCHANGED call \/ \E e, g : Queue(e, g)
    BY <1>6 DEF ProcessNext, DrainNext, ProcessEnd, DrainEnd, SettleNext
  <2>3. QED
    BY <1>r, <2>1, <2>2, Clear, QueueRaised
<1>7. CASE ProcessDone \/ DrainDone \/ SettleDone
  <2>1. UNCHANGED call /\ ret # "none"
    BY <1>7 DEF ProcessDone, DrainDone, SettleDone, Resumed
  <2>2. CASE ret \in Broken
    <3>1. Throw(ret)
      BY <1>7, <2>2
         DEF ProcessDone, DrainDone, SettleDone, Broken, Failures, Tolerated, Rejections
    <3>2. QED
      BY <1>r, <2>2, <3>1, Raised
  <2>3. CASE ret \notin Broken
    BY <1>d, <2>1, <2>3, Clear
  <2>4. QED
    BY <2>2, <2>3
<1>8. QED
  BY <1>1, <1>2, <1>3, <1>4, <1>5, <1>6, <1>7 DEF Step

\* An error of a callback, or a full queue, reaches the owner of the machine
\* unless a row of an exception handler was taken, for every table: no loop of
\* retries, of completions or of pending events swallows it.
THEOREM FaultReachesCaller == Spec => []FaultsSurface
<1>1. Init => Surfacing
  BY DEF Init, Surfacing, Hidden
<1>2. StackInv /\ Unbegun /\ Surfacing /\ [Next]_vars => Surfacing'
  <2> SUFFICES ASSUME StackInv, Unbegun, Surfacing, [Next]_vars PROVE Surfacing'
    OBVIOUS
  <2>1. TypeOK /\ Frames
    BY DEF StackInv, Stacked
  <2>2. CASE UNCHANGED vars
    BY <2>2 DEF vars, Surfacing, Running, Top
  <2>3. QED
    BY <2>1, <2>2, OwnerSurfaces, StepSurfaces DEF Next
<1>3. Surfacing => FaultsSurface
  BY DEF Surfacing, Hidden, FaultsSurface, AtRest, Broken
<1>4. QED
  BY <1>1, <1>2, <1>3, AlwaysStacked, AlwaysUnbegun, PTL DEF Spec

-----------------------------------------------------------------------------
(***************************************************************************)
(* What one call of the flat engine promises its caller, for every table,  *)
(* queue capacity and policy.  Each promise has an inductive invariant     *)
(* that says where in the call stack it stands while the call is running:  *)
(*   - Turns: who may have been rejected by the event a result belongs to  *)
(*     (RejectionsAreOwn);                                                 *)
(*   - Owed: some function on the stack still retries the deferred events  *)
(*     (DeferredAreRetried);                                               *)
(*   - Settled and Declined: the state is stable when an event is done     *)
(*     (EndsStable).                                                       *)
(***************************************************************************)

\* Whoever gets a result back is known.
LEMMA ReturnsTo ==
    ASSUME TypeOK, Stacked, Running, NEW v, Return(v)
    PROVE  /\ ret' = v
           /\ Running' => /\ Linked(Top, Top', rows, call.event)
                          /\ Shaped(Top', rows, async, call.did)
           /\ ~Running' => Len(stack) = 1 /\ Based(Top, async, call.event)
<1>1. ret' = v /\ (Running' => Len(stack) >= 2 /\ Top' = stack[2]) /\ (Len(stack) >= 2 => Running')
  BY Returns
<1>2. Len(stack) \in Nat /\ Len(stack) >= 1 /\ Top = stack[1] /\ DOMAIN stack = 1..Len(stack)
  BY StackTyped DEF TypeOK
<1>3. ASSUME Len(stack) >= 2
      PROVE  /\ Linked(stack[1], stack[2], rows, call.event)
             /\ Shaped(stack[2], rows, async, call.did)
  <2>1. 2 \in 2..Len(stack) /\ 2 \in 1..Len(stack) /\ 2 - 1 = 1
    BY <1>2, <1>3
  <2>2. Linked(stack[2 - 1], stack[2], rows, call.event)
    BY <2>1 DEF Stacked, Links
  <2>3. Shaped(stack[2], rows, async, call.did)
    BY <1>2, <2>1 DEF Stacked, Frames
  <2>4. QED
    BY <2>1, <2>2, <2>3
<1>4. Based(Top, async, call.event) \/ Len(stack) >= 2
  BY TopBased
<1>5. ~(Len(stack) >= 2) => Len(stack) = 1
  BY <1>2
<1>6. QED
  BY <1>1, <1>2, <1>3, <1>4, <1>5

-----------------------------------------------------------------------------
(* Whose rejection it is.                                                  *)

\* The loop of an async machine gets results only from events it queued, and
\* it starts with an event to run.
Queued ==
    Running /\ Top.fn = "queue" =>
        /\ ret # "none" => Top.via = "queue"
        /\ Top.via = "call" => pending # << >>

\* Only completions answer true or false, and only they are called to settle.
Verdict ==
    Running => /\ ret \in {"true", "false"} => Top.at = "settle"
               /\ ret = "ok" => Top.at # "settle"

\* The events whose rejection a call that took a row may report.
Own(a) == IF a THEN {"queue"} ELSE {"process"}

\* A function that has yet to choose the call's first row.
Begins(g) == g.fn = "queue" \/ (g.fn = "event" /\ g.at = "dispatch")

Blamed ==
    /\ ret \in Rejections /\ "took" \in call.did =>
           call.blame \in Own(async) \/ (Running /\ Top.at = "drain")
    /\ Running /\ ret = "none" /\ Top.via = "call" /\ Begins(Top) => "took" \notin call.did

Turns == Queued /\ Verdict /\ Blamed

\* A function goes on or is called.
LEMMA TurnsOn ==
    ASSUME Running', ret' = "none", NEW g, Top' = g,
           g.fn = "queue" => g.via = "queue",
           g.via = "call" /\ Begins(g) => "took" \notin call'.did
    PROVE  Turns'
BY DEF Turns, Queued, Verdict, Blamed, Rejections

\* A function returns.
LEMMA TurnsBack ==
    ASSUME TypeOK, Stacked, Running, UNCHANGED fixed, NEW v \in Results, Return(v),
           v \in {"true", "false"} => Top.fn = "completion",
           v = "ok" => Top.fn # "completion",
           v \in Rejections /\ "took" \in call'.did =>
               call'.blame \in Own(async) \/ (Running' /\ Top'.at = "drain")
    PROVE  Turns'
<1>1. PICK g : g = Top'
  OBVIOUS
<1>2. /\ ret' = v
      /\ Running' => Linked(Top, g, rows, call.event) /\ Shaped(g, rows, async, call.did)
  BY <1>1, ReturnsTo
<1>3. async' = async /\ v # "none"
  BY DEF fixed, Results, Failures, Rejections
<1>4. Top.fn \in {"event", "completion", "exception", "start", "queue"}
  BY StackTyped DEF Frame
<1>5. Queued'
  BY <1>1, <1>2 DEF Queued, Linked
<1>6. Verdict'
  BY <1>1, <1>2, <1>4 DEF Verdict, Linked
<1>7. Blamed'
  BY <1>1, <1>2, <1>3 DEF Blamed
<1>8. QED
  BY <1>5, <1>6, <1>7 DEF Turns

\* A function throws.
LEMMA TurnsThrow ==
    ASSUME TypeOK, Stacked, Running, UNCHANGED fixed, NEW v \in Results, Throw(v),
           v \notin {"true", "false", "ok"},
           v \in Rejections /\ "took" \in call'.did => call'.blame \in Own(async)
    PROVE  Turns'
<1>1. CASE /\ v \in Failures
           /\ GoTo([Top EXCEPT !.fn = "exception", !.at = "dispatch", !.error = v])
  <2>1. PICK g : g = [Top EXCEPT !.fn = "exception", !.at = "dispatch", !.error = v]
    OBVIOUS
  <2>2. g \in Frame
    BY <1>1, <2>1, StackTyped, FrameMoved
  <2>3. g.fn = "exception"
    BY <2>1, StackTyped DEF Frame
  <2>4. Running' /\ Top' = g /\ ret' = "none"
    BY <1>1, <2>1, <2>2, GoesTo
  <2>5. QED
    BY <2>3, <2>4, TurnsOn DEF Begins
<1>2. CASE Return(v)
  BY <1>2, TurnsBack
<1>3. QED
  BY <1>1, <1>2, Throws

\* A callback fails or the owner drops the call.
LEMMA TurnsBreak ==
    ASSUME TypeOK, Stacked, Running, UNCHANGED fixed, NEW v \in Broken, NEW what, Breaks(v, what)
    PROVE  Turns'
<1>1. /\ v \in Results /\ v \notin {"true", "false", "ok"} /\ v \notin Rejections
  BY DEF Broken, Results, Failures, Rejections
<1>2. CASE Abandon
  <2>1. ret' = "none" /\ ~Running'
    BY <1>2 DEF Abandon, Running
  <2>2. QED
    BY <2>1 DEF Turns, Queued, Verdict, Blamed, Rejections
<1>3. QED
  BY <1>1, <1>2, TurnsThrow DEF Breaks

\* Whose rejection a refused event is.
LEMMA TurnsReject ==
    ASSUME StackInv, Turns, Dispatching, Top.fn = "event", UNCHANGED fixed,
           NEW v \in Rejections, Return(v), call' = [call EXCEPT !.blame = Top.via]
    PROVE  Turns'
<1> USE DEF StackInv
<1>r. Running /\ Top \in Frame /\ call \in Calls /\ Top.at = "dispatch" /\ ret = "none"
  BY StackTyped DEF TypeOK, Calls, Dispatching
<1>s. Shaped(Top, rows, async, call.did)
  BY <1>r, TopBased
<1>1. call'.did = call.did /\ call'.blame = Top.via
  BY <1>r DEF Calls
<1>2. ASSUME "took" \in call'.did
      PROVE  call'.blame \in Own(async) \/ (Running' /\ Top'.at = "drain")
  <2>1. Top.via # "call"
    BY <1>1, <1>2, <1>r DEF Turns, Blamed, Begins
  <2>2. Top.via \in (IF async THEN {"queue"} ELSE {"process", "retry"})
    BY <1>s, <2>1 DEF Shaped
  <2>3. CASE Top.via = "retry"
    <3>1. Running'
      BY <1>r, <2>3, ReturnsTo DEF Based
    <3>2. Linked(Top, Top', rows, call.event)
      BY <1>r, <3>1, ReturnsTo
    <3>3. QED
      BY <2>3, <3>1, <3>2 DEF Linked
  <2>4. CASE Top.via # "retry"
    BY <1>1, <2>2, <2>4 DEF Own
  <2>5. QED
    BY <2>3, <2>4
<1>3. v \in Results /\ v \notin {"true", "false", "ok"}
  BY DEF Results, Rejections
<1>4. QED
  BY <1>2, <1>3, <1>r, TurnsBack

\* The owner's calls.
LEMMA OwnerTurns ==
    ASSUME TypeOK, Turns,
           \/ \E e \in Event : process_event(e)
           \/ initialize \/ \E s \in State : set_current_states(s)
    PROVE  Turns'
<1>1. CASE \E e \in Event : process_event(e)
  <2>1. PICK e \in Event : process_event(e)
    BY <1>1
  <2>2. PICK g, h : g = NewFrame("event", e, "call") /\ h = NewFrame("queue", e, "call")
    OBVIOUS
  <2>3. g.fn = "event" /\ h.fn = "queue" /\ h.via = "call"
    BY <2>2 DEF NewFrame
  <2>4. call'.did = {} /\ ret' \in {"none", "QueueFull"}
    BY <2>1 DEF process_event
  <2>5. \/ ~Running'
        \/ ret' = "none" /\ Top' = g
        \/ ret' = "none" /\ Top' = h /\ pending' # << >>
    <3>1. pending \in Seq(Event) /\ Len(pending) <= Capacity
      BY DEF TypeOK
    <3>2. ASSUME HasRoom(pending) PROVE <<e>> \o pending # << >>
      BY <3>1, <3>2, QueueOps
    <3>3. \A f : Head(<<f>>) = f
      OBVIOUS
    <3>4. QED
      BY <2>1, <2>2, <3>2, <3>3 DEF process_event, Running, Top
  <2>6. QED
    BY <2>3, <2>4, <2>5 DEF Turns, Queued, Verdict, Blamed, Rejections
<1>2. CASE initialize
  <2>1. ret' \in {"none", "ActionFailed"}
    BY <1>2 DEF initialize, Abandon
  <2>2. ~Running' \/ (Running' /\ Top'.fn = "start" /\ ret' = "none")
    <3>1. PICK g : g = [NewFrame("start", Wild, "call") EXCEPT !.at = "settle"]
      OBVIOUS
    <3>2. g.fn = "start"
      BY <3>1 DEF NewFrame
    <3>3. Head(<<g>>) = g /\ <<g>> # << >>
      OBVIOUS
    <3>4. QED
      BY <1>2, <3>1, <3>2, <3>3 DEF initialize, Abandon, Running, Top
  <2>3. QED
    BY <2>1, <2>2 DEF Turns, Queued, Verdict, Blamed, Rejections, Begins
<1>3. CASE \E s \in State : set_current_states(s)
  <2>1. ~Running' /\ ret' = "none"
    BY <1>3 DEF set_current_states, Running
  <2>2. QED
    BY <2>1 DEF Turns, Queued, Verdict, Blamed, Rejections
<1>4. QED
  BY <1>1, <1>2, <1>3

\* Choosing a row, or none.
LEMMA MissTurns ==
    ASSUME StackInv, Turns, Refuse \/ Miss \/ GuardFails
    PROVE  Turns'
<1> USE DEF StackInv
<1>r. Running /\ Top \in Frame /\ UNCHANGED fixed /\ Dispatching
  BY StackTyped DEF Refuse, Miss, GuardFails, Dispatching
<1>s. Shaped(Top, rows, async, call.did)
  BY <1>r, TopBased
<1>1. CASE Refuse
  BY <1>1, <1>r, TurnsReject DEF Refuse, Rejections
<1>2. CASE Miss
  <2>1. CASE Top.fn = "event"
    <3>1. \E v \in Rejections : Return(v)
      BY <1>2, <2>1 DEF Miss, Rejections
    <3>2. call' = [call EXCEPT !.blame = Top.via]
      BY <1>2, <2>1 DEF Miss
    <3>3. QED
      BY <1>r, <2>1, <3>1, <3>2, TurnsReject
  <2>2. CASE Top.fn = "completion"
    <3>1. Return("false")
      BY <1>2, <2>2 DEF Miss
    <3>2. "false" \in Results /\ "false" \notin Rejections
      BY DEF Results, Rejections
    <3>3. QED
      BY <1>r, <2>2, <3>1, <3>2, TurnsBack
  <2>3. CASE Top.fn = "exception"
    <3>1. Return(Top.error)
      BY <1>2, <2>3 DEF Miss
    <3>2. Top.error \in Failures
      BY <1>s, <2>3 DEF Shaped
    <3>3. /\ Top.error \in Results /\ Top.error \notin {"true", "false", "ok"}
          /\ Top.error \notin Rejections
      BY <3>2 DEF Results, Failures, Rejections
    <3>4. QED
      BY <1>r, <3>1, <3>3, TurnsBack
  <2>4. Top.fn \in {"event", "completion", "exception"}
    BY <1>r, <1>s DEF Dispatching, Shaped, Frame
  <2>5. QED
    BY <2>1, <2>2, <2>3, <2>4
<1>3. CASE GuardFails
  BY <1>3, <1>r, TurnsBreak DEF GuardFails, Broken, Failures
<1>4. QED
  BY <1>1, <1>2, <1>3

\* Taking a row.
LEMMA TakeTurns ==
    ASSUME StackInv, Turns, NEW i \in Index,
           TakeInternal(i) \/ ExitFails(i) \/ ActionFails(i) \/ Move(i)
    PROVE  Turns'
<1> USE DEF StackInv
<1>r. Dispatching /\ Running /\ UNCHANGED fixed
  BY Taken DEF Dispatching
<1>1. CASE \E v \in Broken, what \in {{}, {"took"}, {"took", "changed"}} : Breaks(v, what)
  BY <1>1, <1>r, TurnsBreak
<1>2. CASE \E what \in {{"took"}, {"took", "changed"}} : Proceed(i) /\ Mark(what)
  <2>1. PICK what \in {{"took"}, {"took", "changed"}} : Proceed(i) /\ Mark(what)
    BY <1>2
  <2>2. Running' /\ Top'.fn = Top.fn /\ Top'.at = "process" /\ ret' = "none"
    BY <1>r, <2>1, Proceeds
  <2>3. QED
    BY <1>r, <2>2, TurnsOn DEF Begins, Dispatching
<1>3. QED
  BY <1>1, <1>2, Taken

\* An async machine's loop.
LEMMA LoopTurns ==
    ASSUME StackInv, Turns, QueueNext \/ QueueDone
    PROVE  Turns'
<1> USE DEF StackInv
<1>r. Running /\ Top \in Frame /\ call \in Calls /\ UNCHANGED fixed /\ Top.fn = "queue"
  BY StackTyped DEF QueueNext, QueueDone, TypeOK, Calls
<1>s. Shaped(Top, rows, async, call.did)
  BY <1>r, TopBased
<1>1. CASE /\ QueueNext /\ pending # << >>
           /\ Enter([Top EXCEPT !.via = "queue"], NewFrame("event", Head(pending), Top.via))
           /\ call' = [call EXCEPT !.event = Head(pending)]
  <2>1. Head(pending) \in Event
    BY <1>1, QueueOps DEF TypeOK
  <2>2. Top.via \in {"call", "process", "retry", "queue"}
    BY <1>r DEF Frame
  <2>3. PICK g, c : g = [Top EXCEPT !.via = "queue"] /\ c = NewFrame("event", Head(pending), Top.via)
    OBVIOUS
  <2>4. c \in Frame /\ c.fn = "event" /\ c.via = Top.via
    BY <2>1, <2>2, <2>3, FrameMade
  <2>5. g \in Frame
    BY <1>r, <2>3, FrameMoved
  <2>6. Running' /\ Top' = c /\ ret' = "none"
    BY <1>1, <1>r, <2>3, <2>4, <2>5, Enters
  <2>7. call'.did = call.did
    BY <1>1, <1>r DEF Calls
  <2>8. Top.via = "call" => "took" \notin call.did
    BY <1>1, <1>r DEF QueueNext, Turns, Blamed, Begins
  <2>9. QED
    BY <2>4, <2>6, <2>7, <2>8, TurnsOn
<1>2. CASE Return("ok") /\ UNCHANGED call
  BY <1>2, <1>r, TurnsBack DEF Results, Rejections
<1>3. CASE QueueDone /\ GoTo(Top)
  <2>1. Running' /\ Top' = Top /\ ret' = "none"
    BY <1>3, <1>r, GoesTo
  <2>2. Top.via = "queue"
    BY <1>3, <1>r DEF QueueDone, Turns, Queued
  <2>3. QED
    BY <2>1, <2>2, TurnsOn
<1>4. CASE QueueDone /\ ret # "ok" /\ Return(ret)
  <2>1. ret \in Results
    BY <1>4 DEF QueueDone, TypeOK
  <2>2. Top.at = "dispatch"
    BY <1>r, <1>s DEF Shaped
  <2>3. ret \notin {"true", "false", "ok"}
    BY <1>4, <1>r, <2>2 DEF Turns, Verdict
  <2>4. ret \in Rejections /\ "took" \in call'.did => call'.blame \in Own(async)
    BY <1>4, <1>r, <2>2 DEF QueueDone, Turns, Blamed
  <2>5. QED
    BY <1>4, <1>r, <2>1, <2>3, <2>4, TurnsBack
<1>5. QED
  BY <1>1, <1>2, <1>3, <1>4 DEF QueueNext, QueueDone

\* The events of process(...) actions and the deferred ones.
LEMMA NextTurns ==
    ASSUME StackInv, Turns, ProcessNext \/ DrainNext
    PROVE  Turns'
<1> USE DEF StackInv
<1>r. Running /\ Top \in Frame /\ UNCHANGED fixed
  BY StackTyped DEF ProcessNext, DrainNext, Idle, StateKeeps
<1>s. Shaped(Top, rows, async, call.did)
  BY <1>r, TopBased
<1>a. Top.at \in {"process", "drain"} /\ Top.fn # "queue"
  BY <1>s DEF ProcessNext, DrainNext, Idle, Shaped
<1>1. ASSUME NEW e \in Event, NEW g \in Frame, NEW via \in {"process", "retry"},
             Enter(g, NewFrame("event", e, via))
      PROVE  Turns'
  <2>1. PICK c : c = NewFrame("event", e, via)
    OBVIOUS
  <2>2. c \in Frame /\ c.fn = "event" /\ c.via = via
    BY <2>1, FrameMade
  <2>3. Running' /\ Top' = c /\ ret' = "none"
    BY <1>1, <1>r, <2>1, <2>2, Enters
  <2>4. QED
    BY <2>2, <2>3, TurnsOn
<1>2. ASSUME NEW e \in Event, NEW g \in Frame, g.fn = Top.fn, g.at = Top.at, Queue(e, g)
      PROVE  Turns'
  <2>1. CASE GoTo(g)
    <3>1. Running' /\ Top' = g /\ ret' = "none"
      BY <1>r, <2>1, GoesTo
    <3>2. QED
      BY <1>2, <1>a, <3>1, TurnsOn DEF Begins
  <2>2. CASE Throw("QueueFull")
    BY <1>r, <2>2, TurnsThrow DEF Results, Rejections
  <2>3. QED
    BY <1>2, <2>1, <2>2 DEF Queue
<1>3. CASE ProcessNext
  <2>1. PICK g : g = [Top EXCEPT !.todo = Tail(@)]
    OBVIOUS
  <2>2. g \in Frame /\ Head(Top.todo) \in Event
    BY <1>3, <1>r, <2>1, FrameMoved DEF ProcessNext
  <2>3. g.fn = Top.fn /\ g.at = Top.at
    BY <1>r, <2>1 DEF Frame
  <2>4. Enter(g, NewFrame("event", Head(Top.todo), "process")) \/ Queue(Head(Top.todo), g)
    BY <1>3, <2>1 DEF ProcessNext
  <2>5. QED
    BY <1>1, <1>2, <2>2, <2>3, <2>4
<1>4. CASE DrainNext
  <2>1. Head(deferred) \in Event
    BY <1>4, QueueOps DEF DrainNext, TypeOK
  <2>2. Enter(Top, NewFrame("event", Head(deferred), "retry")) \/ Queue(Head(deferred), Top)
    BY <1>4 DEF DrainNext
  <2>3. QED
    BY <1>1, <1>2, <1>r, <2>1, <2>2
<1>5. QED
  BY <1>3, <1>4

\* The moves between the loops of a row.
LEMMA MovesTurns ==
    ASSUME StackInv, Turns,
           \/ ProcessEnd \/ ProcessDone \/ DrainEnd \/ DrainDone \/ SettleNext \/ SettleDone
    PROVE  Turns'
<1> USE DEF StackInv
<1>r. Running /\ Top \in Frame /\ UNCHANGED fixed /\ UNCHANGED call
  BY StackTyped DEF ProcessEnd, ProcessDone, DrainEnd, DrainDone, SettleNext, SettleDone, Idle,
         Resumed, StateKeeps
<1>s. Shaped(Top, rows, async, call.did)
  BY <1>r, TopBased
<1>a. Top.at \in {"process", "drain", "settle"} /\ Top.fn # "queue"
  BY <1>s DEF ProcessEnd, ProcessDone, DrainEnd, DrainDone, SettleNext, SettleDone, Idle,
         Resumed, Shaped
<1>g. ASSUME NEW at \in {"process", "drain", "settle"}, GoTo([Top EXCEPT !.at = at])
      PROVE  Turns'
  <2>1. PICK g : g = [Top EXCEPT !.at = at]
    OBVIOUS
  <2>2. g \in Frame
    BY <1>r, <2>1, FrameMoved
  <2>3. g.fn = Top.fn /\ g.at = at
    BY <1>r, <2>1 DEF Frame
  <2>4. Running' /\ Top' = g /\ ret' = "none"
    BY <1>g, <1>r, <2>1, <2>2, GoesTo
  <2>5. QED
    BY <1>a, <2>3, <2>4, TurnsOn DEF Begins
<1>b. ASSUME NEW v \in {"ok", "true"}, Return(v),
             v = "true" => Top.fn = "completion", v = "ok" => Top.fn # "completion"
      PROVE  Turns'
  <2>1. v \in Results /\ v \notin Rejections
    BY DEF Results, Rejections
  <2>2. QED
    BY <1>b, <1>r, <2>1, TurnsBack
<1>1. CASE ProcessEnd \/ DrainEnd
  <2>1. GoTo([Top EXCEPT !.at = "drain"]) \/ Finish(Top)
    BY <1>1 DEF ProcessEnd, DrainEnd
  <2>2. CASE Finish(Top)
    BY <1>b, <1>g, <2>2 DEF Finish
  <2>3. QED
    BY <1>g, <2>1, <2>2
<1>2. CASE ProcessDone \/ DrainDone \/ SettleDone
  <2>1. ret \in Results
    BY <1>2 DEF ProcessDone, DrainDone, SettleDone, Resumed, TypeOK
  <2>2. CASE GoTo(Top)
    <3>1. Running' /\ Top' = Top /\ ret' = "none"
      BY <1>r, <2>2, GoesTo
    <3>2. QED
      BY <1>a, <3>1, TurnsOn DEF Begins
  <2>3. CASE SettleDone /\ Return("ok")
    <3>1. Top.fn # "completion"
      BY <1>s, <2>3 DEF SettleDone, Resumed, Shaped
    <3>2. QED
      BY <1>b, <2>3, <3>1
  <2>4. CASE /\ Throw(ret)
             /\ \/ ProcessDone /\ ret # "ok"
                \/ DrainDone /\ ret \notin Tolerated
                \/ SettleDone /\ ret \notin {"true", "false"}
    <3>1. ret \notin {"true", "false", "ok"}
      BY <1>r, <2>4 DEF ProcessDone, DrainDone, SettleDone, Resumed, Turns, Verdict, Tolerated
    <3>2. ret \in Rejections /\ "took" \in call'.did => call'.blame \in Own(async)
      BY <1>r, <2>4 DEF ProcessDone, DrainDone, SettleDone, Resumed, Turns, Blamed, Tolerated
    <3>3. QED
      BY <1>r, <2>1, <2>4, <3>1, <3>2, TurnsThrow
  <2>5. QED
    BY <1>2, <2>2, <2>3, <2>4 DEF ProcessDone, DrainDone, SettleDone
<1>3. CASE SettleNext
  <2>1. Origin(Top.event) \in Event \union {Wild} /\ Top.via \in {"call", "process", "retry", "queue"}
    BY <1>r DEF Origin, Frame
  <2>2. PICK c : c = NewFrame("completion", Origin(Top.event), Top.via)
    OBVIOUS
  <2>3. c \in Frame /\ c.fn = "completion"
    BY <2>1, <2>2, FrameMade
  <2>4. Enter(Top, c)
    BY <1>3, <2>2 DEF SettleNext
  <2>5. Running' /\ Top' = c /\ ret' = "none"
    BY <1>r, <2>3, <2>4, Enters
  <2>6. QED
    BY <2>3, <2>5, TurnsOn DEF Begins
<1>4. QED
  BY <1>1, <1>2, <1>3

\* The inductive invariant behind RejectionIsOwn.
LEMMA AlwaysTurns == Spec => [](StackInv /\ Turns)
<1>1. Init => Turns
  BY DEF Init, Turns, Queued, Verdict, Blamed, Running, Rejections
<1>2. StackInv /\ Turns /\ [Next]_vars => Turns'
  <2> SUFFICES ASSUME StackInv, Turns, [Next]_vars PROVE Turns'
    OBVIOUS
  <2>1. CASE UNCHANGED vars
    BY <2>1 DEF vars, fixed, Turns, Queued, Verdict, Blamed, Running, Top
  <2>2. CASE Step
    BY <2>2, MissTurns, TakeTurns, LoopTurns, NextTurns, MovesTurns DEF Step
  <2>3. QED
    BY <2>1, <2>2, OwnerTurns DEF Next, StackInv
<1>3. QED
  BY <1>1, <1>2, AlwaysStacked, PTL DEF Spec

\* A call that took a row reports no rejection but that of an event its row
\* dispatched with process(...), or of a pending event of an async machine:
\* for every table, the rejection of a retried event is never taken for the
\* rejection of the event that caused the retry.
THEOREM RejectionsAreOwn == Spec => []RejectionIsOwn
<1>1. Turns => RejectionIsOwn
  BY DEF Turns, Blamed, RejectionIsOwn, AtRest, Own
<1>2. QED
  BY <1>1, AlwaysTurns, PTL

-----------------------------------------------------------------------------
(* Deferred events are retried.                                            *)

\* A row that replaced the state retries the deferred events when its
\* process(...) events are dispatched.
Owes(g, T) == g.at \in {"process", "drain"} /\ ~T[g.row].internal
Owing == \E i \in DOMAIN stack : Owes(stack[i], rows)

\* The call changed the state, nothing failed, and an event deferred before
\* the change still waits.
Due == "changed" \in call.did /\ "fault" \notin call.did /\ stale > 0

Owed ==
    Due /\ ret \in {"none", "ok", "true", "false"} /\ (Running \/ ret # "none") => Owing

\* Only an async machine has pending events, and it works them off.
Emptied ==
    /\ ~async => pending = << >>
    /\ ~Running /\ ret = "ok" /\ call.event # Wild => pending = << >>

\* Who owes a retry after the moves of the call stack.
LEMMA OwingOn ==
    ASSUME TypeOK, Running, UNCHANGED fixed, NEW g \in Frame, GoTo(g),
           Owes(g, rows) \/ (Owing /\ ~Owes(Top, rows))
    PROVE  Owing'
<1>1. /\ stack' \in Seq(Frame) /\ Len(stack') = Len(stack) /\ stack'[1] = g
      /\ \A i \in 2..Len(stack) : stack'[i] = stack[i]
  BY GoesTo
<1>2. /\ Len(stack) \in Nat /\ Len(stack) >= 1 /\ Top = stack[1]
      /\ DOMAIN stack = 1..Len(stack) /\ DOMAIN stack' = 1..Len(stack)
  BY <1>1, StackTyped DEF TypeOK
<1>3. rows' = rows
  BY DEF fixed
<1>4. CASE Owes(g, rows)
  <2>1. 1 \in DOMAIN stack'
    BY <1>2
  <2>2. QED
    BY <1>1, <1>3, <1>4, <2>1 DEF Owing
<1>5. CASE Owing /\ ~Owes(Top, rows)
  <2>1. PICK i \in DOMAIN stack : Owes(stack[i], rows)
    BY <1>5 DEF Owing
  <2>2. i \in 2..Len(stack)
    BY <1>2, <1>5, <2>1
  <2>3. i \in DOMAIN stack' /\ stack'[i] = stack[i]
    BY <1>1, <1>2, <2>2
  <2>4. QED
    BY <1>3, <2>1, <2>3 DEF Owing
<1>6. QED
  BY <1>4, <1>5

\* A caller goes on owing under its callee.
LEMMA OwingCall ==
    ASSUME TypeOK, Running, UNCHANGED fixed, NEW g \in Frame, NEW c \in Frame, Enter(g, c),
           Owes(g, rows) \/ (Owing /\ ~Owes(Top, rows))
    PROVE  Owing'
<1>1. /\ stack' \in Seq(Frame) /\ Len(stack') = Len(stack) + 1 /\ stack'[2] = g
      /\ \A i \in 3..Len(stack') : stack'[i] = stack[i - 1]
  BY Enters
<1>2. /\ Len(stack) \in Nat /\ Len(stack) >= 1 /\ Top = stack[1]
      /\ DOMAIN stack = 1..Len(stack) /\ DOMAIN stack' = 1..(Len(stack) + 1)
  BY <1>1, StackTyped DEF TypeOK
<1>3. rows' = rows
  BY DEF fixed
<1>4. CASE Owes(g, rows)
  <2>1. 2 \in DOMAIN stack'
    BY <1>2
  <2>2. QED
    BY <1>1, <1>3, <1>4, <2>1 DEF Owing
<1>5. CASE Owing /\ ~Owes(Top, rows)
  <2>1. PICK i \in DOMAIN stack : Owes(stack[i], rows)
    BY <1>5 DEF Owing
  <2>2. i # 1
    BY <1>2, <1>5, <2>1
  <2>3. i + 1 \in 3..Len(stack') /\ i + 1 \in DOMAIN stack' /\ (i + 1) - 1 = i
    BY <1>1, <1>2, <2>1, <2>2
  <2>4. stack'[i + 1] = stack[i]
    BY <1>1, <2>3
  <2>5. QED
    BY <1>3, <2>1, <2>3, <2>4 DEF Owing
<1>6. QED
  BY <1>4, <1>5

\* A function that owes nothing returns: its callers still owe.
LEMMA OwingBack ==
    ASSUME TypeOK, Running, UNCHANGED fixed, NEW v, Return(v), Owing, ~Owes(Top, rows)
    PROVE  Owing'
<1>1. /\ stack' \in Seq(Frame) /\ Len(stack') = Len(stack) - 1
      /\ \A i \in 1..Len(stack') : stack'[i] = stack[i + 1]
  BY Returns
<1>2. /\ Len(stack) \in Nat /\ Len(stack) >= 1 /\ Top = stack[1]
      /\ DOMAIN stack = 1..Len(stack) /\ DOMAIN stack' = 1..(Len(stack) - 1)
  BY <1>1, StackTyped DEF TypeOK
<1>3. rows' = rows
  BY DEF fixed
<1>4. PICK i \in DOMAIN stack : Owes(stack[i], rows)
  BY DEF Owing
<1>5. i # 1
  BY <1>2, <1>4
<1>6. i - 1 \in 1..Len(stack') /\ i - 1 \in DOMAIN stack' /\ (i - 1) + 1 = i
  BY <1>1, <1>2, <1>4, <1>5
<1>7. stack'[i - 1] = stack[i]
  BY <1>1, <1>6
<1>8. QED
  BY <1>3, <1>4, <1>6, <1>7 DEF Owing

\* An error that is thrown leaves no debt: the call failed.
LEMMA OwedThrow ==
    ASSUME NEW v \in Results, Throw(v), v \notin {"ok", "true", "false"},
           v \in Failures => "fault" \in call'.did
    PROVE  Owed'
<1>1. CASE v \in Failures /\ "fault" \in call'.did
  BY <1>1 DEF Owed, Due
<1>2. CASE Return(v)
  <2>1. ret' = v /\ v # "none"
    BY <1>2 DEF Return, Results, Failures, Rejections
  <2>2. QED
    BY <2>1 DEF Owed
<1>3. QED
  BY <1>1, <1>2, Throws

\* So does one that ends the step of a callback.
LEMMA OwedBreak ==
    ASSUME TypeOK, NEW v \in Broken, NEW what \in SUBSET {"took", "changed"}, Breaks(v, what)
    PROVE  Owed'
<1>1. CASE Abandon
  BY <1>1 DEF Abandon, Owed, Running
<1>2. CASE Mark(what \union {"fault"})
  <2>1. "fault" \in call'.did
    BY <1>2, MarkTyped
  <2>2. QED
    BY <2>1 DEF Owed, Due
<1>3. QED
  BY <1>1, <1>2 DEF Breaks

\* The owner's calls.
LEMMA OwnerOwed ==
    ASSUME TypeOK, Owed, Emptied, Unbegun,
           \/ \E e \in Event : process_event(e)
           \/ initialize \/ \E s \in State : set_current_states(s)
    PROVE  Owed' /\ Emptied'
<1>1. CASE \E e \in Event : process_event(e)
  <2>1. call'.did = {} /\ ret' # "ok" /\ async' = async /\ (~async => pending' = pending)
    BY <1>1 DEF process_event, fixed
  <2>2. QED
    BY <2>1 DEF Owed, Due, Emptied
<1>2. CASE initialize
  <2>1. ret' # "ok" /\ async' = async /\ pending' = pending /\ call.did = {}
    BY <1>2 DEF initialize, Abandon, fixed, Unbegun
  <2>2. call' = call \/ call' = [call EXCEPT !.did = {"fault"}]
    BY <1>2 DEF initialize, Abandon
  <2>3. call \in Calls
    BY DEF TypeOK, Calls
  <2>4. "changed" \notin call'.did
    BY <2>1, <2>2, <2>3 DEF Calls
  <2>5. QED
    BY <2>1, <2>4 DEF Owed, Due, Emptied
<1>3. CASE \E s \in State : set_current_states(s)
  <2>1. ret' = "none" /\ ~Running' /\ async' = async /\ pending' = pending
    BY <1>3 DEF set_current_states, Running, fixed
  <2>2. QED
    BY <2>1 DEF Owed, Emptied
<1>4. QED
  BY <1>1, <1>2, <1>3

\* Choosing a row, or none.
LEMMA MissOwed ==
    ASSUME StackInv, Owed, Refuse \/ Miss \/ GuardFails
    PROVE  Owed'
<1> USE DEF StackInv
<1>r. Running /\ Top \in Frame /\ UNCHANGED fixed /\ stale' = stale /\ call \in Calls
  BY StackTyped DEF Refuse, Miss, GuardFails, Dispatching, TypeOK, Calls
<1>a. Top.at = "dispatch" /\ ret = "none" /\ ~Owes(Top, rows)
  BY DEF Refuse, Miss, GuardFails, Dispatching, Owes
<1>1. CASE Refuse \/ Miss
  <2>1. \E v : Return(v)
    BY <1>1 DEF Refuse, Miss
  <2>2. call'.did = call.did
    BY <1>1, <1>r DEF Refuse, Miss, Calls
  <2>3. Due' => Due
    BY <1>r, <2>2 DEF Due
  <2>4. Due => Owing
    BY <1>r, <1>a DEF Owed
  <2>5. QED
    BY <1>r, <1>a, <2>1, <2>3, <2>4, OwingBack DEF Owed
<1>2. CASE GuardFails
  <2>1. Breaks("GuardFailed", {}) /\ "GuardFailed" \in Broken
    BY <1>2 DEF GuardFails, Broken, Failures
  <2>2. QED
    BY <1>r, <2>1, OwedBreak
<1>3. QED
  BY <1>1, <1>2

\* Taking a row: one that replaces the state owes the retries from now on.
LEMMA TakeOwed ==
    ASSUME StackInv, Owed, NEW i \in Index,
           TakeInternal(i) \/ ExitFails(i) \/ ActionFails(i) \/ Move(i)
    PROVE  Owed'
<1> USE DEF StackInv
<1>r. Dispatching /\ Running /\ UNCHANGED fixed /\ Top \in Frame
  BY Taken, StackTyped DEF Dispatching
<1>a. Top.at = "dispatch" /\ ret = "none" /\ ~Owes(Top, rows)
  BY <1>r DEF Dispatching, Owes
<1>b. CASE \E v \in Broken, what \in {{}, {"took"}, {"took", "changed"}} : Breaks(v, what)
  BY <1>b, OwedBreak
<1>p. CASE \E what \in {{"took"}, {"took", "changed"}} : Proceed(i)
  <2>1. PICK g : g = [Top EXCEPT !.row = i, !.at = "process", !.todo = rows[i].process]
    OBVIOUS
  <2>2. g \in Frame
    BY <1>r, <2>1, FrameMoved, RowTyped
  <2>3. g.at = "process" /\ g.row = i /\ GoTo(g)
    BY <1>r, <1>p, <2>1 DEF Frame, Proceed
  <2>4. CASE ~rows[i].internal
    <3>1. Owing'
      BY <1>r, <2>2, <2>3, <2>4, OwingOn DEF Owes
    <3>2. QED
      BY <3>1 DEF Owed
  <2>5. CASE rows[i].internal
    <3>1. TakeInternal(i)
      BY <2>5 DEF ExitFails, ActionFails, Move
    <3>2. (\E v \in Failures : Breaks(v, {})) \/ (Defers(i, {"took"}) /\ UNCHANGED stale)
      BY <3>1 DEF TakeInternal, ActionsFail, Fails
    <3>3. CASE \E v \in Failures : Breaks(v, {})
      BY <3>3, OwedBreak DEF Broken
    <3>4. CASE Breaks("QueueFull", {"took"})
      BY <3>4, OwedBreak DEF Broken
    <3>5. CASE Mark({"took"}) /\ UNCHANGED stale
      <4>1. call'.did = call.did \union {"took"}
                          \union (IF Top.fn = "exception" /\ "took" \in {"took"} THEN {"caught"} ELSE {})
        BY <3>5, MarkTyped
      <4>2. Due' => Due
        BY <3>5, <4>1 DEF Due
      <4>3. Due => Owing
        BY <1>r, <1>a DEF Owed
      <4>4. QED
        BY <1>r, <1>a, <2>2, <2>3, <4>2, <4>3, OwingOn DEF Owed
    <3>6. QED
      BY <3>2, <3>3, <3>4, <3>5 DEF Defers, Breaks
  <2>6. QED
    BY <2>4, <2>5
<1>1. QED
  BY <1>b, <1>p, Taken

\* An async machine's loop.
LEMMA LoopOwed ==
    ASSUME StackInv, Turns, Owed, QueueNext \/ QueueDone
    PROVE  Owed'
<1> USE DEF StackInv
<1>r. /\ Running /\ Top \in Frame /\ call \in Calls /\ UNCHANGED fixed /\ Top.fn = "queue"
      /\ stale' = stale
  BY StackTyped DEF QueueNext, QueueDone, TypeOK, Calls
<1>s. Shaped(Top, rows, async, call.did)
  BY <1>r, TopBased
<1>a. Top.at = "dispatch" /\ ~Owes(Top, rows)
  BY <1>r, <1>s DEF Shaped, Owes
<1>d. Due' => Due
  <2>1. call'.did = call.did
    BY <1>r DEF QueueNext, QueueDone, Calls
  <2>2. QED
    BY <1>r, <2>1 DEF Due
<1>o. Due /\ ret \in {"none", "ok"} => Owing
  BY <1>r DEF Owed
<1>1. CASE /\ QueueNext /\ pending # << >>
           /\ Enter([Top EXCEPT !.via = "queue"], NewFrame("event", Head(pending), Top.via))
  <2>1. Head(pending) \in Event
    BY <1>1, QueueOps DEF TypeOK
  <2>2. Top.via \in {"call", "process", "retry", "queue"}
    BY <1>r DEF Frame
  <2>3. PICK g, c : g = [Top EXCEPT !.via = "queue"] /\ c = NewFrame("event", Head(pending), Top.via)
    OBVIOUS
  <2>4. c \in Frame
    BY <2>1, <2>2, <2>3, FrameMade
  <2>5. g \in Frame /\ Enter(g, c)
    BY <1>1, <1>r, <2>3, FrameMoved
  <2>6. ret = "none"
    BY <1>1 DEF QueueNext
  <2>7. QED
    BY <1>r, <1>a, <1>d, <1>o, <2>4, <2>5, <2>6, OwingCall DEF Owed
<1>2. CASE QueueNext /\ Return("ok")
  <2>1. ret = "none"
    BY <1>2 DEF QueueNext
  <2>2. QED
    BY <1>2, <1>r, <1>a, <1>d, <1>o, <2>1, OwingBack DEF Owed
<1>3. CASE ret = "ok" /\ GoTo(Top)
  BY <1>3, <1>r, <1>a, <1>d, <1>o, OwingOn DEF Owed
<1>4. CASE QueueDone /\ ret # "ok" /\ Return(ret)
  <2>1. ret \notin {"none", "true", "false", "ok"} /\ ret' = ret
    BY <1>4, <1>r, <1>a DEF QueueDone, Turns, Verdict, Return
  <2>2. QED
    BY <2>1 DEF Owed
<1>5. QED
  BY <1>1, <1>2, <1>3, <1>4 DEF QueueNext, QueueDone

\* The events of process(...) actions and the deferred ones.
LEMMA NextOwed ==
    ASSUME StackInv, Owed, ProcessNext \/ DrainNext
    PROVE  Owed'
<1> USE DEF StackInv
<1>r. Running /\ Top \in Frame /\ UNCHANGED fixed /\ ret = "none"
  BY StackTyped DEF ProcessNext, DrainNext, Idle, StateKeeps
<1>s. Shaped(Top, rows, async, call.did)
  BY <1>r, TopBased
<1>1. ASSUME NEW e \in Event, NEW g \in Frame, NEW via \in {"process", "retry"},
             Enter(g, NewFrame("event", e, via)),
             Owes(g, rows) \/ (Owing /\ ~Owes(Top, rows)) \/ ~Due'
      PROVE  Owed'
  <2>1. NewFrame("event", e, via) \in Frame
    BY FrameMade
  <2>2. QED
    BY <1>1, <1>r, <2>1, OwingCall DEF Owed
<1>2. ASSUME NEW e \in Event, NEW g \in Frame, Queue(e, g),
             Owes(g, rows) \/ (Owing /\ ~Owes(Top, rows)) \/ (UNCHANGED call => ~Due')
      PROVE  Owed'
  <2>1. CASE GoTo(g) /\ UNCHANGED call
    BY <1>2, <1>r, <2>1, OwingOn DEF Owed
  <2>2. CASE Mark({"fault"})
    <3>1. "fault" \in call'.did
      BY <2>2, MarkTyped
    <3>2. QED
      BY <3>1 DEF Owed, Due
  <2>3. QED
    BY <1>2, <2>1, <2>2 DEF Queue
<1>3. CASE ProcessNext
  <2>1. PICK g : g = [Top EXCEPT !.todo = Tail(@)]
    OBVIOUS
  <2>2. g \in Frame /\ Head(Top.todo) \in Event
    BY <1>3, <1>r, <2>1, FrameMoved DEF ProcessNext
  <2>3. g.at = Top.at /\ g.row = Top.row
    BY <1>r, <2>1 DEF Frame
  <2>4. stale' = stale
    BY <1>3 DEF ProcessNext
  <2>5. Due => Owing
    BY <1>r DEF Owed
  <2>6. Owes(g, rows) \/ (Owing /\ ~Owes(Top, rows)) \/ (UNCHANGED call => ~Due')
    BY <2>3, <2>4, <2>5 DEF Owes, Due
  <2>7. \/ Enter(g, NewFrame("event", Head(Top.todo), "process")) /\ UNCHANGED call
        \/ Queue(Head(Top.todo), g)
    BY <1>3, <2>1 DEF ProcessNext
  <2>8. QED
    BY <1>1, <1>2, <2>2, <2>6, <2>7
<1>4. CASE DrainNext
  <2>1. Head(deferred) \in Event
    BY <1>4, QueueOps DEF DrainNext, TypeOK
  <2>2. Owes(Top, rows)
    BY <1>4, <1>s DEF DrainNext, Idle, Shaped, Owes
  <2>3. Enter(Top, NewFrame("event", Head(deferred), "retry")) \/ Queue(Head(deferred), Top)
    BY <1>4 DEF DrainNext
  <2>4. QED
    BY <1>1, <1>2, <1>r, <2>1, <2>2, <2>3
<1>5. QED
  BY <1>3, <1>4

\* The moves between the loops of a row.
LEMMA MovesOwed ==
    ASSUME StackInv, Turns, Owed,
           \/ ProcessEnd \/ ProcessDone \/ DrainEnd \/ DrainDone \/ SettleNext \/ SettleDone
    PROVE  Owed'
<1> USE DEF StackInv
<1>r. /\ Running /\ Top \in Frame /\ UNCHANGED fixed /\ UNCHANGED call /\ stale' = stale
      /\ deferred' = deferred
  BY StackTyped DEF ProcessEnd, ProcessDone, DrainEnd, DrainDone, SettleNext, SettleDone, Idle,
         Resumed, StateKeeps
<1>s. Shaped(Top, rows, async, call.did)
  BY <1>r, TopBased
<1>d. Due' => Due
  BY <1>r DEF Due
<1>o. Due /\ ret \in {"none", "ok", "true", "false"} => Owing
  BY <1>r DEF Owed
<1>1. CASE ProcessEnd
  <2>1. ret = "none" /\ Top.at = "process"
    BY <1>1 DEF ProcessEnd, Idle
  <2>2. CASE Retries(Top) /\ GoTo([Top EXCEPT !.at = "drain"])
    <3>1. PICK g : g = [Top EXCEPT !.at = "drain"]
      OBVIOUS
    <3>2. g \in Frame /\ g.at = "drain" /\ g.row = Top.row /\ GoTo(g)
      BY <1>r, <2>2, <3>1 DEF Frame
    <3>3. Owes(g, rows)
      BY <2>2, <3>2 DEF Owes, Retries
    <3>4. QED
      BY <1>r, <3>2, <3>3, OwingOn DEF Owed
  <2>3. CASE ~Retries(Top) /\ Finish(Top)
    <3>1. ~Owes(Top, rows)
      BY <2>3 DEF Owes, Retries
    <3>2. CASE \E v : Return(v)
      BY <1>r, <1>d, <1>o, <2>1, <3>1, <3>2, OwingBack DEF Owed
    <3>3. CASE GoTo([Top EXCEPT !.at = "settle"])
      <4>1. [Top EXCEPT !.at = "settle"] \in Frame
        BY <1>r, FrameMoved
      <4>2. QED
        BY <1>r, <1>d, <1>o, <2>1, <3>1, <3>3, <4>1, OwingOn DEF Owed
    <3>4. QED
      BY <2>3, <3>2, <3>3 DEF Finish
  <2>4. QED
    BY <1>1, <2>2, <2>3 DEF ProcessEnd
<1>2. CASE DrainEnd
  <2>1. stale' = 0
    <3>1. deferred = << >> /\ stale \in 0..Len(deferred)
      BY <1>2 DEF DrainEnd, TypeOK
    <3>2. Len(<< >>) = 0 /\ \A n \in 0..0 : n = 0
      OBVIOUS
    <3>3. QED
      BY <1>r, <3>1, <3>2
  <2>2. ~(0 > 0)
    OBVIOUS
  <2>3. QED
    BY <2>1, <2>2 DEF Owed, Due
<1>3. CASE ProcessDone \/ DrainDone \/ SettleDone
  <2>1. ret \in Results
    BY <1>3 DEF ProcessDone, DrainDone, SettleDone, Resumed, TypeOK
  <2>2. CASE GoTo(Top) /\ (Top.at = "drain" \/ ret \in {"ok", "true"})
    <3>1. CASE Owes(Top, rows)
      BY <1>r, <2>2, <3>1, OwingOn DEF Owed
    <3>2. CASE ~Owes(Top, rows)
      <4>1. Top.at # "drain"
        BY <1>s, <3>2 DEF Shaped, Owes
      <4>2. QED
        BY <1>r, <1>d, <1>o, <2>2, <3>2, <4>1, OwingOn DEF Owed
    <3>3. QED
      BY <3>1, <3>2
  <2>3. CASE SettleDone /\ ret = "false" /\ Return("ok")
    <3>1. ~Owes(Top, rows)
      BY <2>3 DEF SettleDone, Resumed, Owes
    <3>2. QED
      BY <1>r, <1>d, <1>o, <2>3, <3>1, OwingBack DEF Owed
  <2>4. CASE /\ Throw(ret)
             /\ \/ ProcessDone /\ ret # "ok"
                \/ DrainDone /\ ret \notin Tolerated
                \/ SettleDone /\ ret \notin {"true", "false"}
    <3>1. ret \notin {"true", "false", "ok"}
      BY <1>r, <2>4 DEF ProcessDone, DrainDone, SettleDone, Resumed, Turns, Verdict, Tolerated
    <3>2. ret \in Failures => "fault" \in call'.did
      BY <1>r DEF Faulty
    <3>3. QED
      BY <2>1, <2>4, <3>1, <3>2, OwedThrow
  <2>5. QED
    BY <1>3, <2>2, <2>3, <2>4 DEF ProcessDone, DrainDone, SettleDone, Resumed
<1>4. CASE SettleNext
  <2>1. Origin(Top.event) \in Event \union {Wild} /\ Top.via \in {"call", "process", "retry", "queue"}
    BY <1>r DEF Origin, Frame
  <2>2. NewFrame("completion", Origin(Top.event), Top.via) \in Frame
    BY <2>1, FrameMade
  <2>3. ret = "none" /\ ~Owes(Top, rows)
    BY <1>4 DEF SettleNext, Idle, Owes
  <2>4. QED
    BY <1>4, <1>r, <1>d, <1>o, <2>2, <2>3, OwingCall DEF SettleNext, Owed
<1>5. QED
  BY <1>1, <1>2, <1>3, <1>4

\* A step of the engine ends the owner's call by returning, or by dropping it.
LEMMA Ends ==
    ASSUME TypeOK, Step
    PROVE  Running' \/ (\E v : Return(v)) \/ ret' = "none"
<1>u. Under \in Seq(Frame)
  BY StepFoot, StackTyped
<1>g. ASSUME NEW g, GoTo(g) PROVE ret' = "none"
  BY <1>g DEF GoTo
<1>e. ASSUME NEW g, NEW c, Enter(g, c) PROVE ret' = "none"
  BY <1>e DEF Enter
<1>t. ASSUME NEW v, Throw(v) PROVE ret' = "none" \/ \E w : Return(w)
  BY <1>g, <1>t DEF Throw
<1>b. ASSUME NEW v, NEW what, Breaks(v, what) PROVE ret' = "none" \/ \E w : Return(w)
  BY <1>b, <1>t DEF Breaks, Abandon
<1>f. ASSUME NEW g, Finish(g) PROVE ret' = "none" \/ \E w : Return(w)
  BY <1>f, <1>g DEF Finish
<1>q. ASSUME NEW e, NEW g, Queue(e, g) PROVE ret' = "none" \/ \E w : Return(w)
  BY <1>q, <1>g, <1>t DEF Queue
<1>1. CASE Refuse \/ Miss \/ GuardFails
  BY <1>1, <1>b DEF Refuse, Miss, GuardFails
<1>2. ASSUME NEW i \in Index, TakeInternal(i) \/ ExitFails(i) \/ ActionFails(i) \/ Move(i)
      PROVE  ret' = "none" \/ \E w : Return(w)
  BY <1>2, <1>b, <1>g, Taken DEF Proceed
<1>3. CASE QueueNext \/ QueueDone
  BY <1>3, <1>e, <1>g DEF QueueNext, QueueDone
<1>4. CASE ProcessNext \/ DrainNext
  BY <1>4, <1>e, <1>q DEF ProcessNext, DrainNext
<1>5. CASE ProcessEnd \/ DrainEnd
  BY <1>5, <1>f, <1>g DEF ProcessEnd, DrainEnd
<1>6. CASE ProcessDone \/ DrainDone \/ SettleDone
  BY <1>6, <1>g, <1>t DEF ProcessDone, DrainDone, SettleDone
<1>7. CASE SettleNext
  BY <1>7, <1>e DEF SettleNext
<1>8. QED
  BY <1>1, <1>2, <1>3, <1>4, <1>5, <1>6, <1>7 DEF Step

\* Pending events wait in an async machine only, and none when its call is done.
LEMMA StepEmptied ==
    ASSUME StackInv, Turns, Emptied, Step
    PROVE  Emptied'
<1> USE DEF StackInv
<1>r. Running /\ UNCHANGED fixed /\ Top \in Frame
  BY StepFoot, StackTyped
<1>f. async' = async
  BY <1>r DEF fixed
<1>q. Top.fn = "queue" => async
  BY <1>r, TopBased DEF Shaped
<1>1. ~async => pending' = pending
  <2>1. CASE QueueNext \/ QueueDone
    BY <1>q, <2>1 DEF QueueNext, QueueDone
  <2>2. CASE ProcessNext \/ DrainNext
    BY <2>2 DEF ProcessNext, DrainNext
  <2>3. QED
    BY <2>1, <2>2 DEF Step, Refuse, Miss, GuardFails, TakeInternal, ExitFails, ActionFails, Move,
       ProcessEnd, ProcessDone, DrainEnd, DrainDone, SettleNext, SettleDone
<1>2. ASSUME ~Running', ret' = "ok", call'.event # Wild PROVE pending' = << >>
  <2>1. PICK v : Return(v)
    BY <1>2, Ends
  <2>2. Based(Top, async, call.event)
    BY <1>2, <1>r, <2>1, ReturnsTo
  <2>3. CASE Top.fn = "queue"
    <3>1. QueueNext \/ QueueDone
      BY <2>3, <1>r, TopBased DEF Step, Refuse, Miss, GuardFails, TakeInternal, ExitFails,
         ActionFails, Move, ProcessNext, ProcessEnd, ProcessDone, DrainNext, DrainEnd, DrainDone,
         SettleNext, SettleDone, Dispatching, Idle, Resumed, Shaped
    <3>2. CASE QueueNext
      <4>1. pending' = << >> \/ \E g, c : Enter(g, c)
        BY <3>2 DEF QueueNext
      <4>2. ASSUME NEW g, NEW c, Enter(g, c) PROVE FALSE
        BY <1>2, <4>2 DEF Enter
      <4>3. QED
        BY <4>1, <4>2
    <3>3. CASE QueueDone
      BY <1>2, <3>3 DEF QueueDone, GoTo, Return
    <3>4. QED
      BY <3>1, <3>2, <3>3
  <2>4. CASE Top.fn # "queue"
    <3>1. call'.event = call.event
      <4>1. ~QueueNext
        BY <2>4 DEF QueueNext
      <4>2. QED
        BY <4>1, StepFoot
    <3>2. Top.fn \in {"event", "completion", "exception", "start"}
      BY <1>r, <2>4 DEF Frame
    <3>3. ~async
      BY <1>2, <2>2, <3>1, <3>2 DEF Based
    <3>4. QED
      BY <1>1, <3>3 DEF Emptied
  <2>5. QED
    BY <2>3, <2>4
<1>3. QED
  BY <1>1, <1>2, <1>f DEF Emptied

\* The inductive invariant behind DeferredRetried.
LEMMA AlwaysOwed == Spec => [](Owed /\ Emptied)
<1>1. Init => Owed /\ Emptied
  BY DEF Init, Owed, Due, Emptied
<1>2. (StackInv /\ Turns) /\ Unbegun /\ (Owed /\ Emptied) /\ [Next]_vars => (Owed /\ Emptied)'
  <2> SUFFICES ASSUME StackInv, Turns, Unbegun, Owed, Emptied, [Next]_vars
               PROVE  Owed' /\ Emptied'
    OBVIOUS
  <2>1. CASE UNCHANGED vars
    BY <2>1 DEF vars, fixed, Owed, Owing, Due, Emptied, Running
  <2>2. CASE Step
    <3>1. Owed'
      BY <2>2, MissOwed, TakeOwed, LoopOwed, NextOwed, MovesOwed DEF Step
    <3>2. QED
      BY <2>2, <3>1, StepEmptied
  <2>3. QED
    BY <2>1, <2>2, OwnerOwed DEF Next, StackInv
<1>3. QED
  BY <1>1, <1>2, AlwaysTurns, AlwaysUnbegun, PTL DEF Spec

\* docs/dsl.md on defer, for every table and capacity: when a call that
\* changed the state succeeds and nothing failed in it, every event deferred
\* before the change was retried, through nested dispatches, rejected retries
\* and completions alike.
THEOREM DeferredAreRetried == Spec => []DeferredRetried
<1>1. StackInv /\ Owed /\ Emptied => DeferredRetried
  <2> SUFFICES ASSUME StackInv, Owed, Emptied, AtRest, ret = "ok",
                      "changed" \in call.did, "fault" \notin call.did
               PROVE  stale = 0 /\ (call.event # Wild => pending = << >>)
    BY DEF DeferredRetried
  <2>1. DOMAIN stack = {}
    BY DEF AtRest, Running
  <2>2. ~(stale > 0)
    <3>1. ~Owing
      BY <2>1 DEF Owing
    <3>2. ret = "ok" /\ ret # "none"
      BY DEF AtRest
    <3>3. QED
      BY <3>1, <3>2 DEF Owed, Due
  <2>3. stale = 0
    <3>1. stale \in 0..Len(deferred) /\ Len(deferred) \in Nat
      BY DEF StackInv, TypeOK
    <3>2. QED
      BY <2>2, <3>1
  <2>4. QED
    BY <2>3 DEF AtRest, Emptied
<1>2. QED
  BY <1>1, AlwaysStacked, AlwaysOwed, PTL

-----------------------------------------------------------------------------
(* The state a call ends in is stable.                                     *)

\* A completion that answers false had only guarded rows to try.
Declined ==
    Running /\ ret = "false" /\ Top.at = "settle" =>
        \A i \in CompletionArm(Origin(Top.event)) : rows[i].guard

\* The state is stable whenever the call, or an event of an async machine's
\* loop, is done.
Settled ==
    "fault" \notin call.did =>
        /\ ret = "ok" /\ (Running => Top.fn = "queue") => Stable
        /\ Running /\ Top.fn = "queue" /\ ret = "none" /\ Top.via = "queue" => Stable

\* Which steps answer ok or false.
LEMMA Answers ==
    ASSUME StackInv, Turns, Step, ret' \in {"ok", "false"}
    PROVE  \/ QueueNext /\ pending = << >> /\ Return("ok")
           \/ /\ ProcessEnd \/ DrainEnd
              /\ Return("ok")
              /\ Top.fn = "exception" \/ (Top.fn = "event" /\ ~HasOrigin(Top.event))
           \/ SettleDone /\ ret = "false" /\ Return("ok")
           \/ Miss /\ Top.fn = "completion" /\ Return("false")
<1> USE DEF StackInv
<1>r. Running /\ Top \in Frame /\ Shaped(Top, rows, async, call.did)
  BY StepFoot, StackTyped, TopBased
<1>g. ASSUME NEW g, GoTo(g) PROVE FALSE
  BY <1>g DEF GoTo
<1>e. ASSUME NEW g, NEW c, Enter(g, c) PROVE FALSE
  BY <1>e DEF Enter
<1>t. ASSUME NEW v, Throw(v), v \notin {"ok", "false"} PROVE FALSE
  BY <1>g, <1>t DEF Throw, Return
<1>b. ASSUME NEW v \in Broken, NEW what, Breaks(v, what) PROVE FALSE
  <2>1. v \notin {"ok", "false"}
    BY DEF Broken, Failures
  <2>2. QED
    BY <1>b, <1>t, <2>1 DEF Breaks, Abandon
<1>q. ASSUME NEW e, NEW g, Queue(e, g) PROVE FALSE
  BY <1>q, <1>g, <1>t DEF Queue
<1>1. CASE Refuse \/ GuardFails
  BY <1>1, <1>b DEF Refuse, GuardFails, Return, Broken, Failures
<1>2. CASE Miss
  <2>1. Top.fn \in {"event", "completion", "exception"}
    BY <1>r, <1>2 DEF Miss, Dispatching, Shaped, Frame
  <2>2. Top.fn # "event"
    BY <1>2 DEF Miss, Return
  <2>3. Top.fn # "exception"
    <3>1. SUFFICES ASSUME Top.fn = "exception" PROVE FALSE
      OBVIOUS
    <3>2. ret' = Top.error /\ Top.error \in Failures
      BY <1>2, <1>r, <3>1 DEF Miss, Return, Shaped
    <3>3. QED
      BY <3>2 DEF Failures
  <2>4. QED
    BY <1>2, <2>1, <2>2, <2>3 DEF Miss
<1>3. ASSUME NEW i \in Index, TakeInternal(i) \/ ExitFails(i) \/ ActionFails(i) \/ Move(i)
      PROVE  FALSE
  BY <1>3, <1>b, <1>g, Taken DEF Proceed
<1>4. CASE QueueNext
  BY <1>4, <1>e DEF QueueNext
<1>5. CASE QueueDone
  <2>1. ret # "ok" /\ ret' = ret
    BY <1>5, <1>g DEF QueueDone, Return
  <2>2. Top.at = "dispatch"
    BY <1>5, <1>r DEF QueueDone, Shaped
  <2>3. QED
    BY <1>r, <2>1, <2>2 DEF Turns, Verdict
<1>6. CASE ProcessNext \/ DrainNext
  BY <1>6, <1>e, <1>q DEF ProcessNext, DrainNext
<1>7. CASE ProcessEnd \/ DrainEnd
  <2>1. Finish(Top)
    BY <1>7, <1>g DEF ProcessEnd, DrainEnd
  <2>2. ASSUME Return("true") PROVE FALSE
    BY <2>2 DEF Return
  <2>3. QED
    BY <1>7, <1>g, <2>1, <2>2 DEF Finish
<1>8. CASE ProcessDone \/ DrainDone
  <2>1. Throw(ret) /\ ret # "ok"
    BY <1>8, <1>g DEF ProcessDone, DrainDone, Tolerated
  <2>2. ret # "false"
    BY <1>8, <1>r DEF ProcessDone, DrainDone, Resumed, Turns, Verdict
  <2>3. QED
    BY <1>t, <2>1, <2>2
<1>9. CASE SettleDone
  <2>1. ret # "ok"
    BY <1>9, <1>r DEF SettleDone, Resumed, Turns, Verdict
  <2>2. QED
    BY <1>9, <1>g, <1>t, <2>1 DEF SettleDone
<1>10. CASE SettleNext
  BY <1>10, <1>e DEF SettleNext
<1>11. QED
  BY <1>1, <1>2, <1>3, <1>4, <1>5, <1>6, <1>7, <1>8, <1>9, <1>10 DEF Step

\* The loop of an async machine goes on after an event that succeeded.
LEMMA LoopsOn ==
    ASSUME StackInv, Turns, Step, Running', ret' = "none", Top'.fn = "queue"
    PROVE  QueueDone /\ ret = "ok"
<1> USE DEF StackInv
<1>r. Running /\ Top \in Frame /\ Shaped(Top, rows, async, call.did)
  BY StepFoot, StackTyped, TopBased
<1>g. ASSUME NEW g \in Frame, GoTo(g), g.fn # "queue" PROVE FALSE
  BY <1>g, <1>r, GoesTo
<1>e. ASSUME NEW g \in Frame, NEW c \in Frame, Enter(g, c), c.fn # "queue" PROVE FALSE
  BY <1>e, <1>r, Enters
<1>x. ASSUME NEW v \in Results, Return(v) PROVE FALSE
  BY <1>x DEF Return, Results, Failures, Rejections
<1>t. ASSUME NEW v \in Results, Throw(v) PROVE FALSE
  <2>1. PICK g : g = [Top EXCEPT !.fn = "exception", !.at = "dispatch", !.error = v]
    OBVIOUS
  <2>2. g.fn = "exception"
    BY <1>r, <2>1 DEF Frame
  <2>3. v \in Failures => g \in Frame
    BY <1>r, <2>1, FrameMoved
  <2>4. QED
    BY <1>g, <1>t, <1>x, <2>1, <2>2, <2>3 DEF Throw
<1>b. ASSUME NEW v \in Broken, NEW what, Breaks(v, what) PROVE FALSE
  BY <1>b, <1>t DEF Breaks, Abandon, Running, Broken, Results
<1>a. ASSUME Top.fn # "queue", NEW at \in {"process", "drain", "settle"},
             GoTo([Top EXCEPT !.at = at])
      PROVE  FALSE
  <2>1. PICK g : g = [Top EXCEPT !.at = at]
    OBVIOUS
  <2>2. g \in Frame
    BY <1>r, <2>1, FrameMoved
  <2>3. g.fn = Top.fn
    BY <1>r, <2>1 DEF Frame
  <2>4. QED
    BY <1>a, <1>g, <2>1, <2>2, <2>3
<1>q. Top.at \in {"process", "drain", "settle"} => Top.fn # "queue"
  BY <1>r DEF Shaped
<1>1. CASE Refuse \/ Miss \/ GuardFails
  <2>1. ~GuardFails
    BY <1>b DEF GuardFails, Broken, Failures
  <2>3. Top.fn = "exception" => Top.error \in Failures
    BY <1>r DEF Shaped
  <2>4. Top.fn \in {"event", "completion", "exception"}
    BY <1>1, <1>r DEF Refuse, Miss, GuardFails, Dispatching, Shaped, Frame
  <2>5. ASSUME Refuse PROVE FALSE
    BY <2>5 DEF Refuse, Return
  <2>6. ASSUME Miss PROVE FALSE
    <3>1. CASE Top.fn = "exception"
      <4>1. Return(Top.error)
        BY <2>6, <3>1 DEF Miss
      <4>2. QED
        BY <2>3, <3>1, <4>1, <1>x DEF Results
    <3>2. CASE Top.fn \in {"event", "completion"}
      BY <2>6, <3>2 DEF Miss, Return
    <3>3. QED
      BY <2>4, <3>1, <3>2
  <2>7. QED
    BY <1>1, <2>1, <2>5, <2>6
<1>2. ASSUME NEW i \in Index, TakeInternal(i) \/ ExitFails(i) \/ ActionFails(i) \/ Move(i)
      PROVE  FALSE
  <2>1. Dispatching
    BY <1>2, Taken
  <2>2. CASE \E what \in {{"took"}, {"took", "changed"}} : Proceed(i) /\ Mark(what)
    <3>1. PICK what \in {{"took"}, {"took", "changed"}} : Proceed(i) /\ Mark(what)
      BY <2>2
    <3>2. Top'.fn = Top.fn
      BY <1>2, <2>1, <3>1, Proceeds, Taken
    <3>3. QED
      BY <2>1, <3>2 DEF Dispatching
  <2>3. QED
    BY <1>2, <1>b, <2>2, Taken
<1>3. CASE QueueNext \/ QueueDone
  <2>1. CASE QueueNext
    <3>1. CASE Return("ok")
      BY <1>x, <3>1 DEF Results
    <3>2. CASE /\ pending # << >>
               /\ Enter([Top EXCEPT !.via = "queue"], NewFrame("event", Head(pending), Top.via))
      <4>1. Head(pending) \in Event /\ Top.via \in {"call", "process", "retry", "queue"}
        BY <1>r, <3>2, QueueOps DEF TypeOK, Frame
      <4>2. /\ NewFrame("event", Head(pending), Top.via) \in Frame
            /\ NewFrame("event", Head(pending), Top.via).fn = "event"
        BY <4>1, FrameMade
      <4>3. [Top EXCEPT !.via = "queue"] \in Frame
        BY <1>r, FrameMoved
      <4>4. QED
        BY <1>e, <3>2, <4>2, <4>3
    <3>3. QED
      BY <2>1, <3>1, <3>2 DEF QueueNext
  <2>2. CASE QueueDone
    BY <2>2 DEF QueueDone, Return
  <2>3. QED
    BY <1>3, <2>1, <2>2
<1>4. ASSUME ProcessNext \/ DrainNext PROVE FALSE
  <2>1. Top.fn # "queue"
    BY <1>4, <1>q DEF ProcessNext, DrainNext, Idle
  <2>2. ASSUME NEW e \in Event, NEW g \in Frame, g.fn = Top.fn,
               Queue(e, g) \/ \E via \in {"process", "retry"} : Enter(g, NewFrame("event", e, via))
        PROVE  FALSE
    <3>1. \A via \in {"process", "retry"} : /\ NewFrame("event", e, via) \in Frame
                                            /\ NewFrame("event", e, via).fn = "event"
      BY FrameMade
    <3>2. "QueueFull" \in Results
      BY DEF Results
    <3>3. QED
      BY <2>1, <2>2, <3>1, <3>2, <1>e, <1>g, <1>t DEF Queue
  <2>3. CASE ProcessNext
    <3>1. PICK g : g = [Top EXCEPT !.todo = Tail(@)]
      OBVIOUS
    <3>2. g \in Frame /\ Head(Top.todo) \in Event
      BY <1>r, <2>3, <3>1, FrameMoved DEF ProcessNext
    <3>3. g.fn = Top.fn
      BY <1>r, <3>1 DEF Frame
    <3>4. Enter(g, NewFrame("event", Head(Top.todo), "process")) \/ Queue(Head(Top.todo), g)
      BY <2>3, <3>1 DEF ProcessNext
    <3>5. QED
      BY <2>2, <3>2, <3>3, <3>4
  <2>4. CASE DrainNext
    <3>1. Head(deferred) \in Event
      BY <2>4, QueueOps DEF DrainNext, TypeOK
    <3>2. Enter(Top, NewFrame("event", Head(deferred), "retry")) \/ Queue(Head(deferred), Top)
      BY <2>4 DEF DrainNext
    <3>3. QED
      BY <1>r, <2>2, <3>1, <3>2
  <2>5. QED
    BY <1>4, <2>3, <2>4
<1>5. ASSUME ProcessEnd \/ DrainEnd PROVE FALSE
  <2>1. Top.fn # "queue"
    BY <1>5, <1>q DEF ProcessEnd, DrainEnd, Idle
  <2>2. GoTo([Top EXCEPT !.at = "drain"]) \/ Finish(Top)
    BY <1>5 DEF ProcessEnd, DrainEnd
  <2>3. QED
    BY <1>a, <1>x, <2>1, <2>2 DEF Finish, Results
<1>6. ASSUME ProcessDone \/ DrainDone \/ SettleDone PROVE FALSE
  <2>1. Top.fn # "queue" /\ ret \in Results
    BY <1>6, <1>q DEF ProcessDone, DrainDone, SettleDone, Resumed, TypeOK
  <2>2. GoTo(Top) \/ Return("ok") \/ Throw(ret)
    BY <1>6 DEF ProcessDone, DrainDone, SettleDone
  <2>3. QED
    BY <1>g, <1>r, <1>t, <1>x, <2>1, <2>2 DEF Results
<1>7. ASSUME SettleNext PROVE FALSE
  <2>1. Origin(Top.event) \in Event \union {Wild} /\ Top.via \in {"call", "process", "retry", "queue"}
    BY <1>r DEF Origin, Frame
  <2>2. /\ NewFrame("completion", Origin(Top.event), Top.via) \in Frame
        /\ NewFrame("completion", Origin(Top.event), Top.via).fn = "completion"
    BY <2>1, FrameMade
  <2>3. QED
    BY <1>e, <1>r, <1>7, <2>2 DEF SettleNext
<1>8. QED
  BY <1>1, <1>2, <1>3, <1>4, <1>5, <1>6, <1>7 DEF Step

\* Without a completion row for the event every state is stable.
LEMMA NoCompletion ==
    ASSUME NEW e, ~HasOrigin(e)
    PROVE  CompletionArm(Origin(e)) = {}
<1>1. Origin(e) \in {e, Wild}
  BY DEF Origin
<1>2. Matching("completion", e) = {} /\ Matching("completion", Wild) = {}
  BY DEF HasOrigin, Matching
<1>3. QED
  BY <1>1, <1>2 DEF CompletionArm

\* Stability depends on the table, the state and the call's event.
LEMMA StableStays ==
    ASSUME UNCHANGED <<rows, state>>, call'.event = call.event, Stable
    PROVE  Stable'
BY DEF Stable, CompletionArm, Matching, Origin, Index

\* A function that ends the call, or an event of the loop, answers for it.
LEMMA AnswersFor ==
    ASSUME TypeOK, Stacked, Running, NEW v, Return(v), Running' => Top'.fn = "queue",
           Top.fn \in {"event", "exception", "start"}
    PROVE  Top.fn \in {"event", "start"} => Top.event = call.event
<1>1. CASE ~Running'
  <2>1. Based(Top, async, call.event) /\ Shaped(Top, rows, async, call.did)
    BY <1>1, ReturnsTo, TopBased
  <2>2. QED
    BY <2>1 DEF Based, Shaped
<1>2. CASE Running'
  <2>1. Linked(Top, Top', rows, call.event)
    BY <1>2, ReturnsTo
  <2>2. QED
    BY <1>2, <2>1 DEF Linked
<1>3. QED
  BY <1>1, <1>2

\* An event, or the whole call, succeeds only in a stable state.
LEMMA SucceedsStable ==
    ASSUME StackInv, Turns, Declined, Settled, Step, "fault" \notin call'.did,
           ret' = "ok", Running' => Top'.fn = "queue"
    PROVE  Stable'
<1> USE DEF StackInv
<1>r. Running /\ Top \in Frame /\ Shaped(Top, rows, async, call.did)
  BY StepFoot, StackTyped, TopBased
<1>1. CASE QueueNext /\ pending = << >> /\ Return("ok")
  <2>1. Top.fn = "queue" /\ ret = "none" /\ Top.via = "queue"
    <3>1. Top.fn = "queue" /\ ret = "none"
      BY <1>1 DEF QueueNext
    <3>2. Top.via \in {"call", "queue"}
      BY <1>r, <3>1 DEF Shaped
    <3>3. QED
      BY <1>1, <1>r, <3>1, <3>2 DEF Turns, Queued
  <2>2. UNCHANGED <<rows, state>> /\ UNCHANGED call
    BY <1>1 DEF QueueNext, fixed, machineVars
  <2>3. Stable
    BY <1>r, <2>1, <2>2 DEF Settled
  <2>4. QED
    BY <2>2, <2>3, StableStays
<1>2. CASE /\ ProcessEnd \/ DrainEnd
           /\ Return("ok")
           /\ Top.fn = "exception" \/ (Top.fn = "event" /\ ~HasOrigin(Top.event))
  <2>1. UNCHANGED <<rows, state>> /\ UNCHANGED call
    BY <1>2 DEF ProcessEnd, DrainEnd, StateKeeps, fixed, machineVars
  <2>2. Top.fn # "exception"
    BY <1>r, <2>1 DEF Shaped
  <2>3. Top.event = call.event
    BY <1>2, <1>r, <2>2, AnswersFor
  <2>4. CompletionArm(Origin(call.event)) = {}
    BY <1>2, <2>2, <2>3, NoCompletion
  <2>5. QED
    BY <2>1, <2>4, StableStays DEF Stable
<1>3. CASE SettleDone /\ ret = "false" /\ Return("ok")
  <2>1. UNCHANGED <<rows, state>> /\ UNCHANGED call /\ Top.at = "settle"
    BY <1>3 DEF SettleDone, StateKeeps, fixed, machineVars, Resumed
  <2>2. Top.fn \in {"event", "start"}
    BY <1>r, <2>1 DEF Shaped
  <2>3. Top.event = call.event
    BY <1>3, <1>r, <2>2, AnswersFor
  <2>4. Stable
    BY <1>3, <1>r, <2>1, <2>3 DEF Declined, Stable
  <2>5. QED
    BY <2>1, <2>4, StableStays
<1>4. QED
  BY <1>1, <1>2, <1>3, Answers DEF Return

\* The engine's own steps.
LEMMA StepSettled ==
    ASSUME StackInv, Turns, Declined, Settled, Step
    PROVE  Declined' /\ Settled'
<1> USE DEF StackInv
<1>r. Running /\ Top \in Frame /\ UNCHANGED fixed
  BY StepFoot, StackTyped
<1>1. Declined'
  <2>1. SUFFICES ASSUME Running', ret' = "false", Top'.at = "settle" PROVE Declined'
    BY DEF Declined
  <2>2. Miss /\ Top.fn = "completion" /\ Return("false")
    <3>1. ret' \in {"ok", "false"}
      BY <2>1
    <3>2. ASSUME Return("ok") PROVE FALSE
      BY <2>1, <3>2 DEF Return
    <3>3. QED
      BY <3>1, <3>2, Answers
  <2>3. PICK g : g = Top'
    OBVIOUS
  <2>4. Linked(Top, g, rows, call.event)
    BY <1>r, <2>1, <2>2, <2>3, ReturnsTo
  <2>5. Top.event = Origin(g.event)
    BY <2>2, <2>4 DEF Linked, OriginIn, Origin, Index
  <2>6. \A i \in CompletionArm(Top.event) : rows[i].guard
    <3>1. \A i \in CompletionArm(Top.event) : MayPass(i)
      BY <2>2 DEF Miss, Arm
    <3>2. \A i \in CompletionArm(Top.event) : rows[i].kind = "completion"
      BY DEF CompletionArm, Matching
    <3>3. QED
      BY <3>1, <3>2 DEF MayPass
  <2>7. UNCHANGED <<rows, state>>
    BY <2>2 DEF Miss, fixed, machineVars
  <2>8. (\A i \in CompletionArm(Origin(g.event)) : rows[i].guard)'
    BY <2>5, <2>6, <2>7, <2>3 DEF CompletionArm, Matching, Origin, Index
  <2>9. QED
    BY <2>3, <2>8 DEF Declined
<1>2. Settled'
  <2>1. ASSUME "fault" \notin call'.did, ret' = "ok", Running' => Top'.fn = "queue"
        PROVE  Stable'
    BY <2>1, SucceedsStable
  <2>2. ASSUME "fault" \notin call'.did, Running', Top'.fn = "queue", ret' = "none"
        PROVE  Stable'
    <3>1. QueueDone /\ ret = "ok"
      BY <2>2, LoopsOn
    <3>2. Top.fn = "queue" /\ UNCHANGED <<rows, state>> /\ UNCHANGED call
      BY <3>1 DEF QueueDone, fixed, machineVars
    <3>3. Stable
      BY <2>2, <3>1, <3>2 DEF Settled
    <3>4. QED
      BY <3>2, <3>3, StableStays
  <2>3. QED
    BY <2>1, <2>2 DEF Settled
<1>3. QED
  BY <1>1, <1>2

\* The owner's calls.
LEMMA OwnerSettled ==
    ASSUME TypeOK,
           \/ \E e \in Event : process_event(e)
           \/ initialize \/ \E s \in State : set_current_states(s)
    PROVE  Declined' /\ Settled'
<1>1. ret' \in {"none", "QueueFull", "ActionFailed"}
  BY DEF process_event, initialize, Abandon, set_current_states
<1>2. ASSUME Running' PROVE Top'.fn = "queue" => Top'.via = "call"
  <2>1. ASSUME NEW e \in Event, process_event(e) PROVE Top'.fn = "queue" => Top'.via = "call"
    <3>1. PICK g, h : g = NewFrame("event", e, "call") /\ h = NewFrame("queue", e, "call")
      OBVIOUS
    <3>2. g.fn = "event" /\ h.via = "call"
      BY <3>1 DEF NewFrame
    <3>3. Top' = g \/ Top' = h
      <4>1. stack' \in {<<g>>, <<h>>}
        BY <1>2, <2>1, <3>1 DEF process_event, Running
      <4>2. Head(<<g>>) = g /\ Head(<<h>>) = h
        OBVIOUS
      <4>3. QED
        BY <4>1, <4>2 DEF Top
    <3>4. QED
      BY <3>2, <3>3
  <2>2. ASSUME initialize PROVE Top'.fn # "queue"
    <3>1. PICK g : g = [NewFrame("start", Wild, "call") EXCEPT !.at = "settle"]
      OBVIOUS
    <3>2. g.fn = "start"
      BY <3>1 DEF NewFrame
    <3>3. stack' = <<g>>
      BY <1>2, <2>2, <3>1 DEF initialize, Abandon, Running
    <3>4. Head(<<g>>) = g
      OBVIOUS
    <3>5. QED
      BY <3>2, <3>3, <3>4 DEF Top
  <2>3. QED
    BY <1>2, <2>1, <2>2 DEF set_current_states, Running
<1>3. QED
  BY <1>1, <1>2 DEF Declined, Settled

\* The inductive invariant behind Stabilizes.
LEMMA AlwaysSettled == Spec => []Settled
<1>1. Init => Declined /\ Settled
  BY DEF Init, Declined, Settled, Running
<1>2. (StackInv /\ Turns) /\ (Declined /\ Settled) /\ [Next]_vars => (Declined /\ Settled)'
  <2> SUFFICES ASSUME StackInv, Turns, Declined, Settled, [Next]_vars
               PROVE  Declined' /\ Settled'
    OBVIOUS
  <2>1. CASE UNCHANGED vars
    <3>1. UNCHANGED <<rows, state>> /\ UNCHANGED call /\ stack' = stack /\ ret' = ret
      BY <2>1 DEF vars, fixed, machineVars
    <3>2. Settled'
      BY <3>1, StableStays DEF Settled, Running, Top
    <3>3. Declined'
      BY <3>1 DEF Declined, Running, Top, CompletionArm, Matching, Origin, Index
    <3>4. QED
      BY <3>2, <3>3
  <2>2. CASE Step
    BY <2>2, StepSettled
  <2>3. QED
    BY <2>1, <2>2, OwnerSettled DEF Next, StackInv
<1>3. QED
  BY <1>1, <1>2, AlwaysTurns, PTL DEF Spec

\* Anonymous transitions "stabilize after initialize and after every processed
\* event": for every table, a call that succeeds and in which nothing failed
\* leaves no unguarded completion row waiting, in sync and in async machines.
THEOREM EndsStable == Spec => []Stabilizes
<1>1. Settled => Stabilizes
  BY DEF Settled, Stabilizes, AtRest
<1>2. QED
  BY <1>1, AlwaysSettled, PTL
=============================================================================
