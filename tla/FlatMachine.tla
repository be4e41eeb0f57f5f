----------------------------- MODULE FlatMachine -----------------------------
(***************************************************************************)
(* The engine that `sml!` generates for a flat table                       *)
(* (macros/src/codegen.rs): guarded candidates, entry and exit behaviour,  *)
(* deferred and `process(...)` events, completion transitions run until    *)
(* the machine is stable, and exception rows for failed callbacks.  A      *)
(* synchronous machine dispatches queued events recursively; one with an   *)
(* async callback puts them in a queue the outermost call works off.       *)
(*                                                                         *)
(* The generated functions call one another, so the model keeps their call *)
(* stack: one frame per active function.  A function advances by one step  *)
(* between two calls; `ret` carries a callee's result to its caller.  What *)
(* the user's guards and actions answer is nondeterministic.               *)
(***************************************************************************)
EXTENDS Naturals, Sequences

CONSTANTS State, Event,
          Tables,       \* the synchronous tables considered: sequences of rows
          AsyncTables,  \* the tables with queue actions and an async callback
          Start,        \* the state marked with *
          Capacity,     \* capacity of the deferred and of the pending queue
          MaxDepth,     \* active functions the thread's stack has room for
          Faults,       \* which callbacks may return Err; "drop": the owner
                        \* may drop a call that awaits a callback
          Gate,         \* a custom Dispatch policy may refuse and skip
          Wild          \* the wildcard trigger and the anonymous origin

Kinds == {"normal", "unexpected", "completion", "exception", "entry", "exit"}

\* A row of the table: guard, action and defer are present or not; `process`
\* lists the events of its process(...) actions.
Row == [from : State, kind : Kinds, event : Event \union {Wild},
        guard : BOOLEAN, action : BOOLEAN, defer : BOOLEAN,
        process : Seq(Event), to : State, internal : BOOLEAN]

ASSUME FlatAssumption ==
    /\ Start \in State
    /\ Wild \notin Event
    /\ Capacity \in Nat
    /\ MaxDepth \in Nat
    /\ Faults \subseteq {"guard", "action", "entry", "exit", "drop"}
    /\ Gate \in BOOLEAN
    /\ Tables \union AsyncTables \subseteq Seq(Row)
    /\ \A T \in Tables \union AsyncTables : \A i \in DOMAIN T :
         /\ T[i].internal => T[i].to = T[i].from
         /\ T[i].defer => T[i].event # Wild

VARIABLES
    rows,               \* the machine's table, fixed when it is generated
    async,              \* some callback of the table is async: async_queue
    state,
    exitSkip,           \* exit_skip: the state's exit already ran
    deferred,           \* the deferred queue
    pending,            \* the process queue of an async machine
    stack,              \* active functions, the running one first
    ret,                \* the result of the function that returned last
    begun,              \* initialize was called
    \* history, read by properties only
    exits,              \* exits run since the state was entered, up to two
    left,               \* exits the state left last had run by then
    stale,              \* deferred events that saw a state change since
    call                \* the current or last call: its event, what it did

machineVars == <<state, exitSkip, exits, left>>
fixed == <<rows, async>>
vars == <<fixed, machineVars, deferred, pending, stack, ret, begun, stale, call>>

Failures   == {"GuardFailed", "ActionFailed"}
Rejections == {"InvalidEvent", "TransitionsFailed"}
Results    == {"ok", "true", "false", "QueueFull"} \union Failures \union Rejections

\* A frame: the function, its event or origin, why it was called, the row it
\* took, where it is and the process(...) events it has still to dispatch.
Frame == [fn : {"event", "completion", "exception", "start", "queue"},
          event : Event \union {Wild}, via : {"call", "process", "retry", "queue"},
          row : Nat, at : {"dispatch", "process", "drain", "settle"},
          todo : Seq(Event), error : {"none"} \union Failures]

NewFrame(fn, e, via) ==
    [fn |-> fn, event |-> e, via |-> via, row |-> 0, at |-> "dispatch",
     todo |-> << >>, error |-> "none"]

Init ==
    /\ \/ rows \in Tables /\ async = FALSE
       \/ rows \in AsyncTables /\ async = TRUE
    /\ state = Start
    /\ exitSkip = FALSE
    /\ deferred = << >>
    /\ pending = << >>
    /\ stack = << >>
    /\ ret = "none"
    /\ begun = FALSE
    /\ exits = 0
    /\ left = 1
    /\ stale = 0
    /\ call = [event |-> Wild, did |-> {}, blame |-> "none"]

-----------------------------------------------------------------------------
(* The table.                                                              *)

Index == DOMAIN rows

\* The rows one arm of a generated match tries, in table order.
Matching(kind, e) ==
    {i \in Index : rows[i].from = state /\ rows[i].kind = kind /\ rows[i].event = e}

Handlers == {i \in Index : rows[i].kind = "exception"}

\* completion_state_arms: an arm that names the origin hides the anonymous.
CompletionArm(e) ==
    IF Matching("completion", e) # {} THEN Matching("completion", e)
                                      ELSE Matching("completion", Wild)

\* state_dispatch_arms: the first arm there is, not the first that accepts.
EventArm(e) ==
    IF Matching("normal", e) # {} THEN Matching("normal", e)
    ELSE IF Matching("unexpected", e) # {} THEN Matching("unexpected", e)
    ELSE Matching("unexpected", Wild)

\* exception_state_arms: there is one error type, so a typed row catches all.
ExceptionArm ==
    LET here  == {i \in Handlers : rows[i].from = state}
        typed == {i \in here : rows[i].event # Wild}
    IN  IF typed # {} THEN typed ELSE here

Arm(f) == CASE f.fn = "event"      -> EventArm(f.event)
            [] f.fn = "completion" -> CompletionArm(f.event)
            [] f.fn = "exception"  -> ExceptionArm

\* on_entry and on_exit rows of a state.
Lifecycle(kind, s) == \E i \in Index : rows[i].from = s /\ rows[i].kind = kind

\* completion_origin: the event if some completion row names it.
Origin(e) ==
    IF \E i \in Index : rows[i].kind = "completion" /\ rows[i].event = e THEN e ELSE Wild

\* completion_origin is Some: a completion row could match it.
HasOrigin(e) ==
    \E i \in Index : rows[i].kind = "completion" /\ rows[i].event \in {e, Wild}

-----------------------------------------------------------------------------
(* Calls, returns and errors.                                              *)

Running == stack # << >>
Top == Head(stack)
Under == Tail(stack)

\* The running function goes on at f, or calls another one first.  A call
\* that exhausts the thread's stack ends the process: nothing follows it.
GoTo(f) == stack' = <<f>> \o Under /\ ret' = "none"
Enter(f, callee) ==
    /\ Len(stack) < MaxDepth
    /\ stack' = <<callee, f>> \o Under
    /\ ret' = "none"
Return(v) == stack' = Under /\ ret' = v

\* event_dispatch: a failed guard or action is handed to process_exception,
\* whose own failure is final; other errors return.
Throw(v) ==
    \/ /\ Top.fn = "event" /\ v \in Failures /\ Handlers # {}
       /\ GoTo([Top EXCEPT !.fn = "exception", !.at = "dispatch", !.error = v])
    \/ /\ ~(Top.fn = "event" /\ v \in Failures /\ Handlers # {})
       /\ Return(v)

\* History: the call took a row (of a handler), changed state, met a fault.
Mark(what) ==
    call' = [call EXCEPT !.did = @ \union what \union
        (IF Top.fn = "exception" /\ "took" \in what THEN {"caught"} ELSE {})]

\* The owner drops the future of a call that awaits an async callback.
Abandon ==
    /\ async /\ "drop" \in Faults
    /\ stack' = << >>
    /\ ret' = "none"
    /\ UNCHANGED call

\* A callback fails, or the call ends while it awaits it.
Breaks(v, what) ==
    \/ Throw(v) /\ Mark(what \union {"fault"})
    \/ Abandon

\* A queue takes one more.  Slip: and one too many.
RoomTooLong(q) == Len(q) <= Capacity
HasRoom(q) == Len(q) < Capacity

-----------------------------------------------------------------------------
(* Entering the engine.                                                    *)

\* process_event, under the machine's lock: nobody else is inside.  An async
\* machine puts the event in front of what an earlier call left pending.
process_event(e) ==
    /\ ~Running
    /\ call' = [event |-> e, did |-> {}, blame |-> "none"]
    /\ \/ /\ ~async
          /\ stack' = <<NewFrame("event", e, "call")>> /\ ret' = "none"
          /\ UNCHANGED pending
       \/ /\ async /\ HasRoom(pending)
          /\ pending' = <<e>> \o pending
          /\ stack' = <<NewFrame("queue", e, "call")>> /\ ret' = "none"
       \/ /\ async /\ ~HasRoom(pending)
          /\ stack' = << >> /\ ret' = "QueueFull"
          /\ UNCHANGED pending
    /\ UNCHANGED <<fixed, machineVars, deferred, begun, stale>>

\* The loop of an async machine: dispatch_queued for every pending event.
QueueNext ==
    /\ Running /\ Top.fn = "queue" /\ ret = "none"
    /\ \/ /\ pending # << >>
          /\ pending' = Tail(pending)
          /\ Enter([Top EXCEPT !.via = "queue"], NewFrame("event", Head(pending), Top.via))
          /\ call' = [call EXCEPT !.event = Head(pending)]
       \/ /\ pending = << >>
          /\ Return("ok")
          /\ UNCHANGED <<pending, call>>
    /\ UNCHANGED <<fixed, machineVars, deferred, begun, stale>>

\* An error leaves the other pending events where they are.
QueueDone ==
    /\ Running /\ Top.fn = "queue" /\ ret # "none"
    /\ IF ret = "ok" THEN GoTo(Top) ELSE Return(ret)
    /\ UNCHANGED <<fixed, pending, machineVars, deferred, begun, stale, call>>

\* initialize, called once before the first event: the initial state's entry
\* behaviour, which may fail, then its anonymous completions.
initialize ==
    /\ ~Running /\ ~begun /\ call.event = Wild
    /\ begun' = TRUE
    /\ \/ /\ Lifecycle("entry", state) /\ "entry" \in Faults
          /\ \/ /\ stack' = << >> /\ ret' = "ActionFailed"
                /\ call' = [call EXCEPT !.did = {"fault"}]
             \/ Abandon
       \/ /\ stack' = <<[NewFrame("start", Wild, "call") EXCEPT !.at = "settle"]>>
          /\ ret' = "none"
          /\ UNCHANGED call
    /\ UNCHANGED <<fixed, pending, machineVars, deferred, stale>>

\* set_current_states of the testing policy replaces the state as it is.
set_current_states(s) ==
    /\ ~Running
    /\ state' = s
    /\ exitSkip' = FALSE
    /\ exits' = 0
    /\ ret' = "none"
    /\ UNCHANGED <<fixed, pending, left, deferred, stack, begun, stale, call>>

-----------------------------------------------------------------------------
(* Choosing a row.                                                         *)

Dispatching == Running /\ Top.fn # "queue" /\ Top.at = "dispatch" /\ ret = "none"

\* __sml_dispatch_allowed: a custom policy refuses the event.
Refuse ==
    /\ Dispatching
    /\ Gate /\ Top.fn = "event"
    /\ Return("InvalidEvent")
    /\ call' = [call EXCEPT !.blame = Top.via]
    /\ UNCHANGED <<fixed, pending, machineVars, deferred, begun, stale>>

\* The candidate may be passed over: its guard answers false, or a custom
\* policy skips it.
MayPass(i) ==
    rows[i].guard \/ (Gate /\ rows[i].kind \in {"normal", "unexpected"})

\* Candidates are tried in table order.
Reached(i) == i \in Arm(Top) /\ \A j \in Arm(Top) : j < i => MayPass(j)

\* No candidate was taken.
Miss ==
    /\ Dispatching
    /\ \A i \in Arm(Top) : MayPass(i)
    /\ Return(CASE Top.fn = "event" -> IF Arm(Top) = {} THEN "InvalidEvent"
                                                         ELSE "TransitionsFailed"
                [] Top.fn = "completion" -> "false"
                [] Top.fn = "exception" -> Top.error)
    /\ call' = IF Top.fn = "event" THEN [call EXCEPT !.blame = Top.via] ELSE call
    /\ UNCHANGED <<fixed, pending, machineVars, deferred, begun, stale>>

GuardFails ==
    /\ Dispatching
    /\ "guard" \in Faults
    /\ \E i \in Index : Reached(i) /\ rows[i].guard
    /\ Breaks("GuardFailed", {})
    /\ UNCHANGED <<fixed, pending, machineVars, deferred, begun, stale>>

-----------------------------------------------------------------------------
(* Taking a row: exit, actions, new state, entry, defer.                   *)

\* Takes row i up to its process(...) events.
Proceed(i) ==
    GoTo([Top EXCEPT !.row = i, !.at = "process", !.todo = rows[i].process])

\* The row's defer action, or QueueFull.  `what` the row did so far.
Defers(i, what) ==
    \/ /\ rows[i].defer /\ ~HasRoom(deferred)
       /\ Throw("QueueFull")
       /\ Mark(what \union {"fault"})
       /\ UNCHANGED deferred
    \/ /\ rows[i].defer => HasRoom(deferred)
       /\ deferred' = IF rows[i].defer THEN Append(deferred, rows[i].event) ELSE deferred
       /\ Proceed(i)
       /\ Mark(what)

Fails(v) == Breaks(v, {}) /\ UNCHANGED <<deferred, stale>>

\* An action of the row fails, or the guard of a conditional one.
ActionsFail(i) == rows[i].action /\ "action" \in Faults /\ \E v \in Failures : Fails(v)

TakeInternal(i) ==
    /\ Dispatching /\ Reached(i) /\ rows[i].internal
    /\ \/ ActionsFail(i)
       \/ Defers(i, {"took"}) /\ UNCHANGED stale
    /\ UNCHANGED <<fixed, pending, machineVars, begun>>

\* How often the state's exit has run once this transition is past it; two
\* stands for any number above one.
Once(n)  == IF n = 0 THEN 1 ELSE 2
ExitsNow == IF exitSkip THEN exits ELSE Once(exits)

\* The on_exit action fails after the on_exit hook ran: no token is kept.
ExitFails(i) ==
    /\ Dispatching /\ Reached(i) /\ ~rows[i].internal
    /\ ~exitSkip /\ Lifecycle("exit", state) /\ "exit" \in Faults
    /\ exits' = Once(exits)
    /\ Fails("ActionFailed")
    /\ UNCHANGED <<fixed, pending, state, exitSkip, left, begun>>

\* Slip: the token is not set before the actions run.
ForgetToken(i) ==
    /\ Dispatching /\ Reached(i) /\ ~rows[i].internal
    /\ exits' = ExitsNow
    /\ exitSkip' = FALSE
    /\ ActionsFail(i)
    /\ UNCHANGED <<fixed, pending, state, left, begun>>

\* An action fails after the exit ran: the token keeps the next exit from
\* running it again.
ActionFails(i) ==
    /\ Dispatching /\ Reached(i) /\ ~rows[i].internal
    /\ exits' = ExitsNow
    /\ exitSkip' = TRUE
    /\ ActionsFail(i)
    /\ UNCHANGED <<fixed, pending, state, left, begun>>

\* The new state is installed; its entry behaviour may fail.
Move(i) ==
    /\ Dispatching /\ Reached(i) /\ ~rows[i].internal
    /\ state' = rows[i].to
    /\ exitSkip' = FALSE
    /\ exits' = 0
    /\ left' = ExitsNow
    /\ stale' = Len(deferred)
    /\ \/ /\ Lifecycle("entry", rows[i].to) /\ "entry" \in Faults
          /\ Breaks("ActionFailed", {"took", "changed"})
          /\ UNCHANGED deferred
       \/ Defers(i, {"took", "changed"})
    /\ UNCHANGED <<fixed, pending, begun>>

-----------------------------------------------------------------------------
(* After the row: process(...) events, deferred events, completions.       *)

StateKeeps == UNCHANGED <<fixed, machineVars, begun>>

\* The running function is back in the loop `at`, whose call returned.
Resumed(at) == Running /\ Top.at = at /\ ret # "none"
Idle(at)    == Running /\ Top.at = at /\ ret = "none"

\* The row's last word: Ok(true), Ok, or completions until stable.
Finish(f) ==
    \/ f.fn = "completion" /\ Return("true")
    \/ f.fn = "exception" /\ Return("ok")
    \/ f.fn = "event" /\ ~HasOrigin(f.event) /\ Return("ok")
    \/ f.fn = "event" /\ HasOrigin(f.event) /\ GoTo([f EXCEPT !.at = "settle"])

\* Only a row that replaced the state retries.  Slip: a completion does not.
EventsRetry(f) == ~rows[f.row].internal /\ f.fn = "event"
Retries(f) == ~rows[f.row].internal

\* An async machine queues an event in front of the pending ones, or f ends
\* with QueueFull.
Queue(e, f) ==
    \/ /\ HasRoom(pending)
       /\ pending' = <<e>> \o pending
       /\ GoTo(f)
       /\ UNCHANGED call
    \/ /\ ~HasRoom(pending)
       /\ Throw("QueueFull")
       /\ Mark({"fault"})
       /\ UNCHANGED pending

ProcessNext ==
    /\ Idle("process") /\ Top.todo # << >>
    /\ LET rest == [Top EXCEPT !.todo = Tail(@)]
       IN  \/ /\ ~async
              /\ Enter(rest, NewFrame("event", Head(Top.todo), "process"))
              /\ UNCHANGED <<pending, call>>
           \/ async /\ Queue(Head(Top.todo), rest)
    /\ UNCHANGED <<deferred, stale>>
    /\ StateKeeps

ProcessEnd ==
    /\ Idle("process") /\ Top.todo = << >>
    /\ IF Retries(Top) THEN GoTo([Top EXCEPT !.at = "drain"]) ELSE Finish(Top)
    /\ UNCHANGED <<deferred, stale, pending, call>>
    /\ StateKeeps

\* The error of a process(...) event is the error of the row.
ProcessDone ==
    /\ Resumed("process")
    /\ \/ ret = "ok" /\ GoTo(Top)
       \/ ret # "ok" /\ Throw(ret)
    /\ UNCHANGED <<deferred, stale, pending, call>>
    /\ StateKeeps

\* Slip: the queue is read and not popped.
DrainPeeks ==
    /\ Idle("drain")
    /\ deferred # << >>
    /\ Enter(Top, NewFrame("event", Head(deferred), "retry"))
    /\ UNCHANGED <<deferred, stale, pending, call>>
    /\ StateKeeps

\* An async machine moves the deferred events to the pending ones, each in
\* front of the one before; one that finds no room is gone.
DrainNext ==
    /\ Idle("drain")
    /\ deferred # << >>
    /\ deferred' = Tail(deferred)
    /\ stale' = IF stale = 0 THEN 0 ELSE stale - 1
    /\ \/ /\ ~async
          /\ Enter(Top, NewFrame("event", Head(deferred), "retry"))
          /\ UNCHANGED <<pending, call>>
       \/ async /\ Queue(Head(deferred), Top)
    /\ StateKeeps

DrainEnd ==
    /\ Idle("drain")
    /\ deferred = << >>
    /\ Finish(Top)
    /\ UNCHANGED <<deferred, stale, pending, call>>
    /\ StateKeeps

\* A deferred event that is rejected is dropped.  Slips: it is an error, or
\* every error is dropped.
OnlyOk == {"ok"}
AnyResult == Results
Tolerated == {"ok"} \union Rejections

DrainDone ==
    /\ Resumed("drain")
    /\ \/ ret \in Tolerated /\ GoTo(Top)
       \/ ret \notin Tolerated /\ Throw(ret)
    /\ UNCHANGED <<deferred, stale, pending, call>>
    /\ StateKeeps

SettleNext ==
    /\ Idle("settle")
    /\ Enter(Top, NewFrame("completion", Origin(Top.event), Top.via))
    /\ UNCHANGED <<deferred, stale, pending, call>>
    /\ StateKeeps

\* Slip: one completion transition per event.
SettleOnce ==
    /\ Resumed("settle")
    /\ \/ ret \in {"true", "false"} /\ Return("ok")
       \/ ret \notin {"true", "false"} /\ Throw(ret)
    /\ UNCHANGED <<deferred, stale, pending, call>>
    /\ StateKeeps

SettleDone ==
    /\ Resumed("settle")
    /\ \/ ret = "true" /\ GoTo(Top)
       \/ ret = "false" /\ Return("ok")
       \/ ret \notin {"true", "false"} /\ Throw(ret)
    /\ UNCHANGED <<deferred, stale, pending, call>>
    /\ StateKeeps

Step ==
    \/ Refuse \/ Miss \/ GuardFails
    \/ \E i \in Index : TakeInternal(i) \/ ExitFails(i) \/ ActionFails(i) \/ Move(i)
    \/ QueueNext \/ QueueDone
    \/ ProcessNext \/ ProcessDone \/ ProcessEnd
    \/ DrainNext \/ DrainDone \/ DrainEnd
    \/ SettleNext \/ SettleDone

Next ==
    \/ \E e \in Event : process_event(e)
    \/ initialize
    \/ \E s \in State : set_current_states(s)
    \/ Step

Spec == Init /\ [][Next]_vars

\* A thread inside the engine keeps running.
FairSpec == Spec /\ WF_vars(Step)

-----------------------------------------------------------------------------
(* Properties.                                                             *)

TypeOK ==
    /\ rows \in Seq(Row)
    /\ async \in BOOLEAN
    /\ state \in State
    /\ exitSkip \in BOOLEAN
    /\ deferred \in Seq(Event)
    /\ pending \in Seq(Event)
    /\ Len(deferred) <= Capacity /\ Len(pending) <= Capacity
    /\ stack \in Seq(Frame)
    /\ ret \in Results \union {"none"}
    /\ begun \in BOOLEAN
    /\ exits \in 0..2
    /\ left \in 0..2
    /\ stale \in 0..Len(deferred)
    /\ call \in [event : Event \union {Wild},
                 did : SUBSET {"took", "changed", "fault", "caught"},
                 blame : {"none", "call", "process", "retry", "queue"}]

\* The comment on exit_skip, "each entry gets exactly one exit": no state is
\* exited twice before it is left, and none is left without an exit, whatever
\* fails and whichever row recovers.
ExitsPaired == exits <= 1 /\ left = 1

\* What makes it so: the token says whether the current state was exited.
ExitToken == exits = (IF exitSkip THEN 1 ELSE 0)

\* The call returned to the owner of the machine.
AtRest == ~Running /\ ret # "none"

\* docs/dsl.md on defer, "retries it after the next state change": when a call
\* that changed the state succeeds and nothing failed in it, no event deferred
\* before the change is still waiting, in the deferred queue or in the pending
\* queue of an async machine, through nested dispatches, rejected retries and
\* completion transitions alike.
DeferredRetried ==
    AtRest /\ ret = "ok" /\ "changed" \in call.did /\ "fault" \notin call.did
        => stale = 0 /\ (call.event # Wild => pending = << >>)

\* docs/dsl.md on process(...), it "dispatches the supplied event after the
\* current transition has installed its target state", in sync and in async
\* tables: a call that succeeds, initialize included, leaves none undispatched.
ProcessedDispatched == AtRest /\ ret = "ok" => pending = << >>

\* A call that reports a rejection took no row, unless what was rejected is an
\* event its row dispatched with process(...): the rejection of a retried
\* event is never taken for the rejection of the event that caused the retry.
\* An async machine reports the rejection of any pending event, but never that
\* of the call's own event when an older pending event took a row.
RejectionIsOwn ==
    AtRest /\ ret \in Rejections /\ "took" \in call.did
        => call.blame \in (IF async THEN {"queue"} ELSE {"process"})

\* An error of a callback or a full queue reaches the caller unless a row of
\* an exception handler was taken: no retry loop and no completion loop
\* swallows it.
FaultsSurface ==
    AtRest /\ "fault" \in call.did /\ "caught" \notin call.did
        => ret \in Failures \union {"QueueFull"}

\* No completion row that needs no guard waits for the event.
Stable == \A i \in CompletionArm(Origin(call.event)) : rows[i].guard

\* Anonymous transitions "stabilize after initialize and after every processed
\* event", pending ones included: a successful call in which nothing failed
\* ends in a stable state.
Stabilizes == AtRest /\ ret = "ok" /\ "fault" \notin call.did => Stable
=============================================================================
