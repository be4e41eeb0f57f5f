----------------------------- MODULE TreeMachine -----------------------------
(***************************************************************************)
(* The engine that `sml!` generates for a tree of tables: orthogonal       *)
(* regions (macros/src/orthogonal_codegen.rs) and composite states         *)
(* (macros/src/composite_codegen.rs), with synchronous callbacks.          *)
(*                                                                         *)
(* A site is a region of a table; it has a slot that holds its current     *)
(* state and an exit-skip token.  A generated function walks the sites in  *)
(* a fixed order: the dispatch of an event, the completions until the tree *)
(* is stable, and the exception rows of a failed callback.  Sites at which *)
(* nothing is tried are passed without a step, for nothing changes there.  *)
(* As in FlatMachine the stack of active functions is explicit and the     *)
(* answers of the user's callbacks are nondeterministic.                   *)
(***************************************************************************)
EXTENDS TreeFacts

CONSTANTS State, Event,
          Trees,        \* the trees considered: layouts of TreeShape
          Capacity,     \* capacity of the deferred queue
          MaxDepth,     \* active functions the thread's stack has room for
          Faults,       \* which callbacks may return Err
          Wild,         \* the wildcard trigger and the absent origin
          X             \* the terminal state

\* A row of a table, as in FlatMachine.
Row == [from : State, event : Event \union {Wild}, to : State, internal : BOOLEAN,
        kind : {"normal", "unexpected", "completion", "exception", "entry", "exit"},
        guard : BOOLEAN, action : BOOLEAN, defer : BOOLEAN, process : Seq(Event),
        start : BOOLEAN, history : BOOLEAN]

ASSUME TreeAssumption ==
    /\ Wild \notin Event
    /\ X \in State
    /\ Capacity \in Nat
    /\ MaxDepth \in Nat
    /\ Faults \subseteq {"guard", "action", "entry", "exit"}
    /\ \A t \in Trees :
         /\ WellFormed(t)
         /\ \A s \in DOMAIN t.node : t.states[s] \subseteq State
         /\ \A n \in DOMAIN t.rows :
              /\ t.rows[n] \in Seq(Row)
              /\ \A i \in DOMAIN t.rows[n] : t.rows[n][i].defer => t.rows[n][i].event # Wild

VARIABLES
    tree,               \* the machine's tree, fixed when it is generated
    slot,               \* the current state of each site
    skip,               \* exit_skip: the exits of the site already ran
    deferred,           \* the deferred queue
    stack,              \* active functions, the running one first
    ret,                \* the result of the function that returned last
    begun,              \* initialize was called, or it is too late for it
    \* history, read by properties only
    exits,              \* exits run at each site since it was entered, up to two
    unexited,           \* sites the last move left without their exit
    astray,             \* sites that were not entered by the row that led to them: set by a
                        \* test, behind a failed entry, below a row between composite states;
                        \* or entered while a composite above had its exit behind
    failed,             \* sites whose completion failed in the call and that no exception
                        \* row of the call itself, not of one it made, moved since
    stale,              \* deferred events that saw a state change since
    call                \* the current or last call: its event, what it did

slotVars == <<slot, skip, exits, unexited, astray>>
queueVars == <<deferred, stale>>
vars == <<tree, slotVars, failed, queueVars, stack, ret, begun, call>>

Site == DOMAIN tree.node
Rows(s) == tree.rows[tree.node[s]]

Failures == {"GuardFailed", "ActionFailed"}
Results  == {"ok", "InvalidEvent", "QueueFull"} \union Failures

\* A frame: its event, why it was called, the walk it is in and how far, what
\* it is doing there, the sites that handled the walk so far; for a failure
\* the site and what the exception rows made of it; in stabilize, the origin
\* event and the sites that are settled.
Frame == [event : Event \union {Wild}, via : {"call", "process", "retry"},
          walk : {"event", "completion", "exception"}, pos : Nat \ {0},
          at : {"walk", "process", "drain"}, row : Nat, todo : Seq(Event),
          took : SUBSET Site, phase : {"event", "completion"},
          error : Failures \union {"none"}, faulting : Site \union {0},
          recovery : {"none", "still", "moved"}, exited : SUBSET Site,
          origin : Event \union {Wild}, settled : SUBSET Site]

NewFrame(e, via) ==
    [event |-> e, via |-> via, walk |-> "event", pos |-> 1, at |-> "walk",
     row |-> 0, todo |-> << >>, took |-> {}, phase |-> "event",
     error |-> "none", faulting |-> 0, recovery |-> "none", exited |-> {},
     origin |-> Wild, settled |-> {}]

Init ==
    /\ tree \in Trees
    /\ slot = [s \in Site |-> tree.initial[s]]
    /\ skip = [s \in Site |-> FALSE]
    /\ deferred = << >>
    /\ stack = << >>
    /\ ret = "none"
    /\ begun = FALSE
    /\ exits = [s \in Site |-> 0]
    /\ unexited = {}
    /\ astray = {}
    /\ failed = {}
    /\ stale = 0
    /\ call = [event |-> Wild, did |-> {}, listed |-> FALSE, offered |-> {},
               took |-> {}]

-----------------------------------------------------------------------------
(* The tree in its current configuration.                                  *)

Composite(x) == x \in DOMAIN tree.rows

\* tree_active_condition: every composite state above is held.
Holds(path) == \A p \in path : slot[p[1]] = p[2]
Active(n) == Holds(tree.path[n])

\* tree_child_terminal: every region of a composite state is in X.
Terminal(n) == \A s \in Site : tree.node[s] = n => slot[s] = X

\* on_entry and on_exit rows of a state.
Lifecycle(kind, s, x) ==
    \E i \in DOMAIN Rows(s) : Rows(s)[i].from = x /\ Rows(s)[i].kind = kind

\* The active sites below a composite state of site s.
Under(s) ==
    IF Composite(slot[s])
    THEN {u \in tree.subtree[slot[s]] :
             Holds({p \in tree.path[tree.node[u]] : p[1] \in tree.subtree[slot[s]]})}
    ELSE {}

-----------------------------------------------------------------------------
(* The candidates at a site.                                               *)

Picks(s, kind, e) ==
    {i \in DOMAIN Rows(s) : /\ Rows(s)[i].from = slot[s]
                            /\ Rows(s)[i].kind = kind
                            /\ Rows(s)[i].event = e}

First(arm) == {i \in arm : \A j \in arm : i <= j}

\* The first arm of the match there is: the rows on the event, or one
\* unexpected row on it, or one on any.
EventRows(s, e) ==
    IF Picks(s, "normal", e) # {} THEN Picks(s, "normal", e)
    ELSE IF Picks(s, "unexpected", e) # {} THEN First(Picks(s, "unexpected", e))
    ELSE First(Picks(s, "unexpected", Wild))

\* Rows on the origin event and then the anonymous rows; the rows of a
\* composite state only once it is terminal.  A match in a region has room for
\* one row on an origin.
CompletionRows(s, origin) ==
    LET onOrigin == IF origin = Wild THEN {} ELSE Picks(s, "completion", origin)
    IN  IF Composite(slot[s]) /\ ~Terminal(slot[s]) THEN {}
        ELSE (IF tree.node[s] \in tree.orthogonal THEN First(onOrigin) ELSE onOrigin)
             \union Picks(s, "completion", Wild)

\* There is one error type: the rows that name it and the wildcard rows.
ExceptionRows(s) ==
    {i \in DOMAIN Rows(s) : Rows(s)[i].from = slot[s] /\ Rows(s)[i].kind = "exception"}

Candidates(f, s) ==
    CASE f.walk = "event"      -> EventRows(s, f.event)
      [] f.walk = "completion" -> CompletionRows(s, f.origin)
      [] f.walk = "exception"  -> ExceptionRows(s)

\* Candidates are tried in table order, the wildcard rows after the others.
Before(s, i, j) ==
    \/ Rows(s)[i].event # Wild /\ Rows(s)[j].event = Wild
    \/ (Rows(s)[i].event = Wild <=> Rows(s)[j].event = Wild) /\ i < j

-----------------------------------------------------------------------------
(* The walks.                                                              *)

Order(walk) == IF walk = "event" THEN tree.events ELSE tree.others

\* A scalar table is tried if it is active when the walk gets there; the
\* regions of an orthogonal one if it was when the walk got to the first.
Admitted(f, p) ==
    LET n == tree.node[Order(f.walk)[p]]
    IN  \/ Active(n)
        \/ \E q \in 1..(f.pos - 1) : tree.node[Order(f.walk)[q]] = n

\* Slip: an event that one region handled passes the others by.
OpenUnhandled(f, s) ==
    CASE f.walk = "event" -> tree.node[s] \in tree.orthogonal \union {tree.root} => f.took = {}
      [] f.walk = "completion" -> s \notin f.settled /\ f.took = {}
      [] f.walk = "exception"  -> f.recovery = "none"

\* An event passes a region or the root by if a table nested there took it.
\* One completion is taken per step, but each region of a table has its own.
\* Only the innermost scalar table recovers a failure, but every region may.
Open(f, s) ==
    LET n == tree.node[s]
    IN  CASE f.walk = "event" ->
                 n \in tree.orthogonal \union {tree.root} => tree.nested[s] \intersect f.took = {}
          [] f.walk = "completion" ->
                 s \notin f.settled /\ \A u \in f.took : tree.node[u] = n
          [] f.walk = "exception" -> n \in tree.orthogonal \/ f.recovery = "none"

Due(f, p) ==
    LET s == Order(f.walk)[p]
    IN  Open(f, s) /\ Admitted(f, p) /\ Candidates(f, s) # {}

Running == stack # << >>
Top == Head(stack)
Under1 == Tail(stack)

Walking == Running /\ Top.at = "walk" /\ ret = "none"

\* Where something is still to be tried, and where the walk stops next.
Ahead == {p \in Top.pos..Len(Order(Top.walk)) : Due(Top, p)}
Stops == {p \in Ahead : \A q \in Ahead : p <= q}

\* The site at a stop, and the one where a row is in progress.
Here(p) == Order(Top.walk)[p]
Place == Here(Top.pos)

\* The candidate may be passed over: its guard answers false.
MayPass(s, i) == Rows(s)[i].guard

\* The candidates tried at a stop: all before them were passed over.
Reached(p) ==
    LET tried == Candidates(Top, Here(p))
    IN  {i \in tried : \A j \in tried : Before(Here(p), j, i) => MayPass(Here(p), j)}

-----------------------------------------------------------------------------
(* Calls, returns and errors.                                              *)

GoTo(f) == stack' = <<f>> \o Under1 /\ ret' = "none"
Enter(f, callee) ==
    /\ Len(stack) < MaxDepth
    /\ stack' = <<callee, f>> \o Under1
    /\ ret' = "none"
Return(v) == stack' = Under1 /\ ret' = v

Recoverable(v) == Top.walk # "exception" /\ v \in Failures /\ tree.handlers

\* A failed callback at site s starts the walk of the exception rows, unless
\* there are none or one of them failed; other errors return.
Throw(v, s) ==
    \/ /\ Recoverable(v)
       /\ GoTo([Top EXCEPT !.walk = "exception", !.pos = 1, !.at = "walk",
                           !.error = v, !.recovery = "none", !.exited = {},
                           !.faulting = IF Top.phase = "event" THEN 0 ELSE s])
    \/ ~Recoverable(v) /\ Return(v)

\* exception_row_moves: the row changes the configuration.
Moves(row) == ~row.internal /\ row.to # row.from

\* History: sites that start afresh when a row enters them, and a completion
\* that failed at s.
Fresh(row, entered) ==
    IF Top.walk = "exception" /\ Under1 = << >> /\ Moves(row) THEN entered ELSE {}
Blame(s, fresh) ==
    failed' = (failed \ fresh) \union (IF Top.walk = "completion" THEN {s} ELSE {})

\* History: what the call did.
Mark(what) ==
    call' = [call EXCEPT !.did = @ \union what \union
        (IF Top.walk = "exception" /\ "took" \in what THEN {"caught"} ELSE {})]

-----------------------------------------------------------------------------
(* Entering the engine.                                                    *)

\* Slip: only the root is looked up.
QueriedRoot(e) ==
    \E s \in Site : tree.node[s] = tree.root /\
        \E i \in DOMAIN Rows(s) :
            /\ Rows(s)[i].from = slot[s]
            /\ Rows(s)[i].kind \in {"normal", "unexpected"}
            /\ Rows(s)[i].event = e

\* Event rows an active state has, wildcard triggers left out.
Queried(e) ==
    \E s \in Site : Active(tree.node[s]) /\
        \E i \in DOMAIN Rows(s) :
            /\ Rows(s)[i].from = slot[s]
            /\ Rows(s)[i].kind \in {"normal", "unexpected"}
            /\ Rows(s)[i].event = e

\* visit_current_events: the events with a row in an active state.
current_events == {e \in Event : Queried(e)}

\* History: the regions of the root in which an active site has to take e.
Offered(e) ==
    {r \in Site : tree.node[r] = tree.root /\
        \E s \in {r} \union tree.nested[r] :
            /\ Active(tree.node[s])
            /\ \E i \in EventRows(s, e) : ~Rows(s)[i].guard}

\* process_event, under the machine's lock: nobody else is inside.
process_event(e) ==
    /\ ~Running
    /\ stack' = <<NewFrame(e, "call")>>
    /\ ret' = "none"
    /\ begun' = TRUE
    /\ call' = [event |-> e, did |-> {}, listed |-> e \in current_events,
                offered |-> Offered(e), took |-> {}]
    /\ failed' = {}
    /\ UNCHANGED <<tree, slotVars, queueVars>>

\* What initialize enters: the slots of the root and, in a tree of more than
\* one child, what is active below them.
Started ==
    IF tree.single THEN {s \in Site : tree.node[s] = tree.root}
                ELSE {s \in Site : Active(tree.node[s])}

\* A frame of stabilize.
Stabilize(origin, via) == [NewFrame(Wild, via) EXCEPT !.walk = "completion",
                              !.phase = "completion", !.origin = origin]

\* initialize, called once and first: the entry behaviour of the initial
\* states, any of which may fail, then their completions.
initialize ==
    /\ ~Running /\ ~begun
    /\ begun' = TRUE
    /\ \/ /\ "entry" \in Faults
          /\ \E s \in Started : Lifecycle("entry", s, slot[s])
          /\ stack' = << >> /\ ret' = "ActionFailed"
          /\ call' = [call EXCEPT !.did = {"fault"}]
       \/ /\ stack' = <<Stabilize(Wild, "call")>> /\ ret' = "none"
          /\ UNCHANGED call
    /\ UNCHANGED <<tree, slotVars, failed, queueVars>>

\* set_current_states and set_<child>_state of the testing policy replace the
\* states of one table as they are.
set_states(n) ==
    /\ tree.testing /\ ~Running
    /\ slot' \in {new \in [Site -> State] :
                    \A s \in Site : IF tree.node[s] = n THEN new[s] \in tree.states[s]
                                                     ELSE new[s] = slot[s]}
    /\ skip' = [s \in Site |-> skip[s] /\ tree.node[s] # n]
    /\ exits' = [s \in Site |-> IF tree.node[s] = n THEN 0 ELSE exits[s]]
    /\ begun' = TRUE
    /\ ret' = "none"
    /\ astray' = astray \union tree.subtree[n]
    /\ UNCHANGED <<tree, unexited, failed, queueVars, stack, call>>

-----------------------------------------------------------------------------
(* Trying the candidates of a site.                                        *)

\* No candidate is taken: the walk goes on behind the site.
Miss(p) ==
    /\ \A i \in Candidates(Top, Here(p)) : MayPass(Here(p), i)
    /\ GoTo([Top EXCEPT !.pos = p + 1])
    /\ UNCHANGED <<tree, slotVars, failed, queueVars, begun, call>>

GuardFails(p) ==
    /\ "guard" \in Faults
    /\ \E i \in Reached(p) : Rows(Here(p))[i].guard
    /\ Throw("GuardFailed", Here(p))
    /\ Mark({"fault"})
    /\ Blame(Here(p), {})
    /\ UNCHANGED <<tree, slotVars, queueVars, begun>>

\* The row ran up to its process(...) events.
Proceed(p, i) ==
    GoTo([Top EXCEPT !.pos = p, !.row = i, !.at = "process",
                     !.todo = Rows(Here(p))[i].process])

\* (A slip first.)
RoomForOneMore == Len(deferred) <= Capacity
HasRoom == Len(deferred) < Capacity

\* The row's defer action, or QueueFull.  `what` the row did so far.
Defers(p, i, what) ==
    LET row == Rows(Here(p))[i]
    IN  \/ /\ row.defer /\ ~HasRoom
           /\ Throw("QueueFull", Here(p))
           /\ Mark(what \union {"fault"})
           /\ UNCHANGED deferred
        \/ /\ row.defer => HasRoom
           /\ deferred' = IF row.defer THEN Append(deferred, row.event) ELSE deferred
           /\ Proceed(p, i)
           /\ Mark(what)

Fails(p, v) == Throw(v, Here(p)) /\ Mark({"fault"}) /\ Blame(Here(p), {}) /\ UNCHANGED queueVars

\* An action of the row fails, or the guard of a conditional one.
ActionsFail(p, i) ==
    Rows(Here(p))[i].action /\ "action" \in Faults /\ \E v \in Failures : Fails(p, v)

Takes(p, i, internal) ==
    Rows(Here(p))[i].internal = internal

TakeInternal(p, i) ==
    /\ Takes(p, i, TRUE)
    /\ \/ ActionsFail(p, i)
       \/ Defers(p, i, {"took"}) /\ UNCHANGED <<stale, failed>>
    /\ UNCHANGED <<tree, slotVars, begun>>

-----------------------------------------------------------------------------
(* Leaving and entering.                                                   *)

\* composite_lifecycle: a row runs the exits below its source if only that is
\* composite, and the entries below its target if only that is.  (A slip first:
\* only rows on events run the exits.)
LeavesOnEvent(row) == Composite(row.from) /\ ~Composite(row.to) /\ row.kind = "normal"
Leaves(row) == Composite(row.from) /\ ~Composite(row.to)
Enters(row) == Composite(row.to) /\ ~Composite(row.from)

\* The sites below s whose exits are still to run: a site that exited stands
\* for all that is nested in it.
ToExit(s) ==
    {u \in Under(s) :
        \A v \in {u} \union {p[1] : p \in tree.path[tree.node[u]]} :
            v \in tree.subtree[slot[s]] => ~skip[v]}

\* The sites whose exits a row runs, from the inside out: s comes last.
Outgoing(s, row) ==
    IF skip[s] THEN {} ELSE {s} \union (IF Leaves(row) THEN ToExit(s) ELSE {})

\* History: what is nested in a state, and what a row between two composite
\* states neither leaves nor enters.
Below(x) == IF Composite(x) THEN tree.subtree[x] ELSE {}
PassedBy(row) == IF Composite(row.to) THEN Below(row.from) ELSE {}

Once(n) == IF n = 0 THEN 1 ELSE 2
RunExits(gone) == exits' = [s \in Site |-> IF s \in gone THEN Once(exits[s]) ELSE exits[s]]

\* Slip: only the site of the row is marked, not what is nested in it.
ExitFailsUnmarked(p, i, v) ==
    /\ Takes(p, i, FALSE)
    /\ LET gone == Outgoing(Here(p), Rows(Here(p))[i])
           before == {u \in gone : tree.exits[u] < tree.exits[v]}
       IN  /\ v \in gone /\ Lifecycle("exit", v, slot[v]) /\ "exit" \in Faults
           /\ RunExits(before)
    /\ Fails(p, "ActionFailed")
    /\ UNCHANGED <<tree, slot, skip, unexited, astray, begun>>

\* The exit of site v fails: what is further in has run and is marked, s is
\* not.
ExitFails(p, i, v) ==
    /\ Takes(p, i, FALSE)
    /\ LET gone == Outgoing(Here(p), Rows(Here(p))[i])
           before == {u \in gone : tree.exits[u] < tree.exits[v]}
       IN  /\ v \in gone /\ Lifecycle("exit", v, slot[v]) /\ "exit" \in Faults
           /\ skip' = [s \in Site |-> skip[s] \/ s \in before]
           /\ RunExits(before)
    /\ Fails(p, "ActionFailed")
    /\ UNCHANGED <<tree, slot, unexited, astray, begun>>

\* An action fails after the exits ran.
ActionFails(p, i) ==
    /\ Takes(p, i, FALSE)
    /\ LET gone == Outgoing(Here(p), Rows(Here(p))[i])
       IN  /\ skip' = [s \in Site |-> skip[s] \/ s \in gone]
           /\ RunExits(gone)
    /\ ActionsFail(p, i)
    /\ astray' = astray \union PassedBy(Rows(Here(p))[i])
    /\ UNCHANGED <<tree, slot, unexited, begun>>

\* What a site holds once its table is entered: its initial state, or what it
\* held before if the table keeps its history.
OnEntry(u) == IF tree.node[u] \in tree.history THEN slot[u] ELSE tree.initial[u]

\* The sites entered below a composite state, from the outside in.
Incoming(n) ==
    {u \in tree.subtree[n] :
        \A p \in tree.path[tree.node[u]] : p[1] \in tree.subtree[n] => OnEntry(p[1]) = p[2]}

\* A site the entry of v finds entered: v fails after what comes before it.
Entered(s, row, upto) ==
    {s} \union (IF Enters(row) THEN {u \in Incoming(row.to) : tree.entries[u] <= upto} ELSE {})

\* The new state is installed and entered up to site v, the whole if v is the
\* last.  An orthogonal table is reset as a whole before its first region is
\* entered.
Install(s, row, upto) ==
    LET entered == Entered(s, row, upto)
        gone    == Outgoing(s, row)
        reset   == {u \in Site : \E v \in entered \ {s} : tree.node[u] = tree.node[v]}
        left    == {u \in {s} \union Under(s) : exits[u] = 0 /\ u \notin gone}
        above   == {p \in tree.path[tree.node[s]] : skip[p[1]] \/ slot[p[1]] # p[2]}
    IN  /\ slot' = [u \in Site |-> IF u = s THEN row.to
                                   ELSE IF u \in reset THEN OnEntry(u) ELSE slot[u]]
        /\ skip' = [u \in Site |-> u \notin entered /\ (skip[u] \/ u \in gone)]
        /\ exits' = [u \in Site |-> IF u \in entered THEN 0
                                    ELSE IF u \in gone THEN Once(exits[u]) ELSE exits[u]]
        /\ unexited' = left
        /\ astray' = LET strays == astray \union Below(row.to) \union PassedBy(row)
                     IN  IF above # {} THEN strays \union entered ELSE strays \ entered

\* The rank of the last site: a row enters the whole of its target.
LastRank == Cardinality(Site)

Move(p, i) ==
    /\ Takes(p, i, FALSE)
    /\ LET row == Rows(Here(p))[i]
       IN  /\ Install(Here(p), row, LastRank)
           /\ failed' = failed \ Fresh(row, Entered(Here(p), row, LastRank))
    /\ stale' = Len(deferred)
    /\ Defers(p, i, {"took", "changed"})
    /\ UNCHANGED <<tree, begun>>

\* The entry behaviour fails: that of the new state, before anything below it
\* is entered, or that of a site below it.
EntryFails(p, i, v) ==
    /\ Takes(p, i, FALSE) /\ "entry" \in Faults
    /\ LET row == Rows(Here(p))[i]
       IN  \/ /\ v = Here(p) /\ Lifecycle("entry", v, row.to)
              /\ Install(Here(p), row, 0)
              /\ Blame(Here(p), Fresh(row, Entered(Here(p), row, 0)))
           \/ /\ v \in Entered(Here(p), row, LastRank) \ {Here(p)}
              /\ Lifecycle("entry", v, OnEntry(v))
              /\ Install(Here(p), row, tree.entries[v])
              /\ Blame(Here(p), Fresh(row, Entered(Here(p), row, tree.entries[v])))
    /\ stale' = Len(deferred)
    /\ Throw("ActionFailed", Here(p))
    /\ Mark({"took", "changed", "fault"})
    /\ UNCHANGED <<tree, deferred, begun>>

-----------------------------------------------------------------------------
(* After the row: process(...) events, then deferred events.               *)

StateKeeps == UNCHANGED <<tree, slotVars, begun>>
Idle(at)    == Running /\ Top.at = at /\ ret = "none"
Resumed(at) == Running /\ Top.at = at /\ ret # "none"

InProgress == Rows(Place)[Top.row]

\* What a row that moves leaves: its region and all that is nested there.
RegionPath(s) == {s} \union tree.nested[s]

\* The recovery makes progress if the row moves what the failure was in; where
\* no site is tracked, if it moves anything.
Progress(f, s, row) == Moves(row) /\ (tree.tracks => f.faulting \in RegionPath(s))

Handled(f, s) ==
    IF f.walk # "exception"
    THEN [f EXCEPT !.took = @ \union {s}, !.at = "walk", !.pos = @ + 1]
    ELSE LET row == Rows(s)[f.row]
         IN  [f EXCEPT !.at = "walk", !.pos = @ + 1,
                       !.exited = IF tree.tracks /\ Moves(row) THEN @ \union RegionPath(s) ELSE @,
                       !.recovery = IF Progress(f, s, row) \/ @ = "moved" THEN "moved"
                                                                        ELSE "still"]

\* The row is done.  History: the first walk of a call from outside.
RowDone ==
    /\ GoTo([Handled(Top, Place) EXCEPT !.row = 0])
    /\ call' = IF Top.via = "call" /\ Top.walk = "event"
               THEN [call EXCEPT !.took = @ \union {Place}] ELSE call

Nest(f, e, via) ==
    /\ Enter(f, NewFrame(e, via))
    /\ call' = [call EXCEPT !.did = @ \union {"nested"}]

\* Rows that replaced a state retry what is deferred.  (A slip first: only
\* those of an event do.)
DrainsOnEvent(row) == ~row.internal /\ Top.walk = "event"
Drains(row) == ~row.internal

ProcessNext ==
    /\ Idle("process")
    /\ \/ /\ Top.todo # << >>
          /\ Nest([Top EXCEPT !.todo = Tail(@)], Head(Top.todo), "process")
       \/ /\ Top.todo = << >> /\ Drains(InProgress)
          /\ GoTo([Top EXCEPT !.at = "drain"])
          /\ UNCHANGED call
       \/ Top.todo = << >> /\ ~Drains(InProgress) /\ RowDone
    /\ UNCHANGED <<queueVars, failed>>
    /\ StateKeeps

\* The error of a process(...) event is the error of the row.
ProcessDone ==
    /\ Resumed("process")
    /\ \/ ret = "ok" /\ GoTo(Top) /\ UNCHANGED failed
       \/ ret # "ok" /\ Throw(ret, Place) /\ Blame(Place, {})
    /\ UNCHANGED <<queueVars, call>>
    /\ StateKeeps

\* In order, until nothing is left.
DrainNext ==
    /\ Idle("drain")
    /\ \/ /\ deferred # << >>
          /\ deferred' = Tail(deferred)
          /\ stale' = IF stale = 0 THEN 0 ELSE stale - 1
          /\ Nest(Top, Head(deferred), "retry")
       \/ deferred = << >> /\ RowDone /\ UNCHANGED queueVars
    /\ UNCHANGED failed
    /\ StateKeeps

\* A deferred event that is rejected is dropped.  (A slip first: failures too.)
DroppedFailed(v) == v # "QueueFull"
Dropped(v) == v \in {"ok", "InvalidEvent"}

DrainDone ==
    /\ Resumed("drain")
    /\ \/ Dropped(ret) /\ GoTo(Top) /\ UNCHANGED failed
       \/ ~Dropped(ret) /\ Throw(ret, Place) /\ Blame(Place, {})
    /\ UNCHANGED <<queueVars, call>>
    /\ StateKeeps

-----------------------------------------------------------------------------
(* The end of a walk.                                                      *)

WalkEnds == Walking /\ Ahead = {}

\* Completions from the innermost site on.
Restart(f, origin, settled) ==
    [f EXCEPT !.walk = "completion", !.phase = "completion", !.pos = 1, !.took = {},
              !.origin = origin, !.settled = settled, !.error = "none",
              !.faulting = 0, !.recovery = "none", !.exited = {}]

\* Nobody took the event, or the completions follow.
EventEnds ==
    /\ WalkEnds /\ Top.walk = "event"
    /\ \/ Top.took = {} /\ Return("InvalidEvent")
       \/ Top.took # {} /\ GoTo(Restart(Top, Top.event, {}))
    /\ UNCHANGED <<queueVars, failed, call>>
    /\ StateKeeps

\* Completions run until none is taken.
CompletionEnds ==
    /\ WalkEnds /\ Top.walk = "completion"
    /\ \/ Top.took = {} /\ Return("ok")
       \/ Top.took # {} /\ GoTo(Restart(Top, Top.origin, Top.settled))
    /\ UNCHANGED <<queueVars, failed, call>>
    /\ StateKeeps

\* Slips: the site that failed is tried again; it is settled although its
\* recovery moved it.
NeverSettled(f)  == f.settled \ f.exited
AlwaysSettled(f) == (f.settled \ f.exited) \union {f.faulting}

\* The sites that stay settled, and the one that failed if nothing moved it.
Settled(f) ==
    (f.settled \ f.exited) \union (IF f.recovery = "moved" THEN {} ELSE {f.faulting})

\* recovering_stabilize_body: an unhandled failure is returned; a handled one
\* is followed by completions without an origin, except that a completion
\* whose recovery moved nothing is not tried again.
ExceptionEnds ==
    /\ WalkEnds /\ Top.walk = "exception"
    /\ \/ Top.recovery = "none" /\ Return(Top.error)
       \/ /\ Top.recovery # "none" /\ Top.phase = "event"
          /\ GoTo(Restart(Top, Wild, {}))
       \/ /\ Top.recovery # "none" /\ Top.phase = "completion" /\ tree.tracks
          /\ GoTo(Restart(Top, IF Top.recovery = "moved" THEN Wild ELSE Top.origin,
                          Settled(Top)))
       \/ /\ Top.recovery = "moved" /\ Top.phase = "completion" /\ ~tree.tracks
          /\ GoTo(Restart(Top, Wild, {}))
       \/ /\ Top.recovery = "still" /\ Top.phase = "completion" /\ ~tree.tracks
          /\ Return("ok")
    /\ UNCHANGED <<queueVars, failed, call>>
    /\ StateKeeps

\* At a stop of a walk.
Try(p) ==
    \/ Miss(p) \/ GuardFails(p)
    \/ \E i \in Reached(p) :
         \/ TakeInternal(p, i) \/ ActionFails(p, i) \/ Move(p, i)
         \/ \E v \in Site : ExitFails(p, i, v) \/ EntryFails(p, i, v)

Step ==
    \/ Walking /\ \E p \in Stops : Try(p)
    \/ EventEnds \/ CompletionEnds \/ ExceptionEnds
    \/ ProcessNext \/ ProcessDone \/ DrainNext \/ DrainDone

Next ==
    \/ \E e \in Event : process_event(e)
    \/ initialize
    \/ \E n \in DOMAIN tree.rows : set_states(n)
    \/ Step

Spec == Init /\ [][Next]_vars

\* A thread inside the engine keeps running.
FairSpec == Spec /\ WF_vars(Step)

-----------------------------------------------------------------------------
(* Properties.                                                             *)

TypeOK ==
    /\ slot \in [Site -> State]
    /\ skip \in [Site -> BOOLEAN]
    /\ deferred \in Seq(Event)
    /\ Len(deferred) <= Capacity
    /\ stack \in Seq(Frame)
    /\ ret \in Results \union {"none"}
    /\ begun \in BOOLEAN
    /\ exits \in [Site -> 0..2]
    /\ unexited \subseteq Site
    /\ astray \subseteq Site /\ failed \subseteq Site
    /\ stale \in 0..Len(deferred)
    /\ call \in [event : Event \union {Wild},
                 did : SUBSET {"took", "changed", "fault", "caught", "nested"},
                 listed : BOOLEAN, offered : SUBSET Site, took : SUBSET Site]

\* The call returned to the owner of the machine.
AtRest == ~Running /\ ret # "none"
Clean  == AtRest /\ ret = "ok" /\ "fault" \notin call.did

\* The comment on exit_skip_place, "each entry gets exactly one exit": no
\* state of any site is exited twice, through failed actions, failed exits in
\* the middle of a teardown and the exception rows that repeat it; for the
\* token tells whether the exits of the site ran.
ExitToken == \A s \in Site : exits[s] = (IF skip[s] THEN 1 ELSE 0)

\* The other half: no row leaves a state without its exit, except states that
\* no row entered, those entered below a composite state whose own exit had
\* already run, and those nested in a state that a row between two composite
\* states led from or to: such a row runs no exit and no entry of theirs.
LeftExited == unexited \subseteq astray

\* docs/dsl.md, an event is "broadcast to every active region": a region of
\* the root in which some active table must take the event is not left out
\* because another region, or a table nested in it, took it first.
Broadcast ==
    Clean /\ "nested" \notin call.did =>
        \A r \in call.offered : RegionPath(r) \intersect call.took # {}

\* visit_current_events and the dispatch agree: an event it does not list is
\* refused without any effect (rows on any event are not listed).
UnlistedRefused ==
    AtRest /\ call.event # Wild /\ ~call.listed
    /\ (\A n \in DOMAIN tree.rows : \A i \in DOMAIN tree.rows[n] :
          tree.rows[n][i].kind = "unexpected" => tree.rows[n][i].event # Wild)
        => ret = "InvalidEvent" /\ call.did = {}

\* docs/dsl.md on defer, "retries it after the next state change", whichever
\* region changed and through which walk.
DeferredRetried == Clean /\ "changed" \in call.did => stale = 0

\* An error of a callback or a full queue reaches the caller unless an
\* exception row of some active table was taken.
FaultsSurface ==
    AtRest /\ "fault" \in call.did /\ "caught" \notin call.did
        => ret \in Failures \union {"QueueFull"}

\* A completion row of s waits that no guard can hold back.
Pending(s) ==
    /\ Active(tree.node[s])
    /\ \E i \in CompletionRows(s, Wild) : ~Rows(s)[i].guard

\* The comment on recovering_stabilize_body: "every peer region still runs its
\* pending completions until the whole machine is stable".  A call that succeeds
\* leaves a completion waiting only at a site whose completion failed in it and
\* that no exception row moved since.  In a tree without regions a recovery
\* that moves nothing ends the call.
StabilizesPeers ==
    AtRest /\ ret = "ok" /\ (tree.tracks \/ "fault" \notin call.did) =>
        \A s \in Site : Pending(s) => s \in failed

\* Nothing can run for ever: completion and exception rows lead to states
\* without completions, and nothing is deferred.
Tame ==
    \A n \in DOMAIN tree.rows : \A i \in DOMAIN tree.rows[n] :
        LET row == tree.rows[n][i]
        IN  /\ ~row.defer /\ row.process = << >>
            /\ row.kind = "completion" \/ (row.kind = "exception" /\ Moves(row)) =>
                 /\ ~Composite(row.to)
                 /\ \A j \in DOMAIN tree.rows[n] :
                      tree.rows[n][j].kind = "completion" => tree.rows[n][j].from # row.to

\* Every call returns, whatever fails and however often: a completion whose
\* failure is recovered in place is not tried again for ever.
EveryCallReturns == (Running /\ Tame) ~> ~Running
=============================================================================
