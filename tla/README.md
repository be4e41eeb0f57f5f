# Verification of sml.rs

sml.rs turns a transition table written in a macro into a state machine type.
The program proper is therefore in three places: the macro reads and checks the
table (`macros/src/parser`, `validation.rs`), it *generates* an engine that runs
the table (`macros/src/*codegen.rs`), and a small runtime library serves the
engines (`src/`: schedulers, policies, queues). This directory holds TLA+ models
of all three, model-checked with TLC on small instances, and theorems about them
proved with TLAPS for every instance.

Source locations below are relative to the repository; `PROJECT.json` maps each
definition to its lines.

## 1. The system

| Component | State | Operations | Interacts through |
|---|---|---|---|
| Table construction (`macros/src/parser`, `validation.rs`, `lib.rs`) | the rows read, data of states and events, `states_events_mapping` | reading rows, collecting types, wildcard expansion, `add_transition`, validation, choice of an engine | tokens in, the table the engines run out |
| Flat engine (`macros/src/codegen.rs`) | current state, `exit_skip`, `deferred` queue; with async callbacks a `pending` queue too | `process_event`, `initialize`, `set_current_states`, internally `process_completion`, `process_anonymous_completion`, `process_exception`, `dispatch_queued` | calls itself for `process(...)` events, deferred events and completions; calls the user's guards, actions and hooks; async: the caller's executor |
| Orthogonal engine (`orthogonal_codegen.rs`) | one state and one `exit_skip` per region, shared queues | per-region dispatch, recovery, stabilisation | events are broadcast to all regions |
| Composite engine (`composite_codegen.rs`) | a tree of tables, each with its states, history and `exit_skip` | finding the tree, entering and leaving subtrees, bubbling, completion of children | parent and child tables of one block |
| `FifoScheduler` (`src/scheduler.rs`) | bounded queue, `draining`, `terminated`, waiters, tickets | `submit`, `try_submit`, `poll`, drop, `inspect`, two unwinding guards | mutexes and wakers, from any thread; drives a machine by `start`, `step`, `is_terminated` |
| `InlineScheduler` | the machine behind one mutex | `submit`, `inspect` | one lock |
| `EventQueue` (`src/utility.rs`) | ring buffer with `head` and `len` | `defer`, `process`, `pop`, `clear` | owned by the engines and by `FifoScheduler` |
| `EventQueues`, `Hierarchical`, `SmPool`, `OrthogonalRegions`, `DispatchTable` | small owners of machines or queues | dispatch helpers | closures of the caller |
| Policies (`src/policy.rs`) | dispatch, logging, observer, thread and testing policies | `dispatch`, `dispatch_candidate`, `lock` | called by the engines |

What is hard about it, and where:

* **Threads and wakers** (`FifoScheduler`). Callers offer, drain, wait for room,
  wait for results, drop their completions and panic at the same time, over four
  kinds of mutex. Wakeups may be lost, two callers may drain, an event may
  overtake another, an answer may be given to the wrong caller.
* **Recursion with side effects** (engines). A row dispatches events after it
  has replaced the state, then retries deferred events, then runs completions;
  each of these calls runs rows that do the same. Errors come back through all
  of these loops, some of which drop them and some not, and exception rows
  intervene at every level. With async callbacks the recursion becomes a queue
  that survives errors and dropped futures.
* **Half-finished transitions** (engines). A callback may fail between the exit
  of the old state and the installation of the new one; in a tree, in the middle
  of leaving or entering a subtree.
* **Regions beside each other** (orthogonal and composite engines). A region may
  fail, be recovered, defer or complete while its peers are in other states, and
  a row of one region may deactivate another.
* **Order** (parser). The wildcard rows are expanded over a `HashMap`; types are
  collected row by row; a block of tables may be written in any order.
* **Index arithmetic at a boundary** (`EventQueue`).

The correctness of each part, in a sentence: the parser accepts a table only if
each of its rows can be taken and means what was written, in whatever order
things are iterated; the layout is the tree the tables form; the engines exit
each entered state exactly once, retry deferred events when the state changed,
report failures, and return in a stable state; the scheduler runs accepted events
one at a time in acceptance order and tells every caller what became of its
event; the ring is a bounded deque. `PROJECT.json` lists each hazard at its line
with the properties that guard against it.

## 2. The modules

```
BoundedDeque            abstract: a double-ended queue of at most N events
  ^ implemented by
EventQueue              the ring buffer          EventQueueProofs    (theorems)

StrictOrdering          abstract: a queued scheduler without threads
  ^ implemented by
FifoScheduler           the shared cell          FifoSchedulerProofs types, one consumer,
  ^ MCFifoScheduler     machines and                                 tickets, wakeups
                        symmetry for TLC         ^ FifoOrderProofs   order, answers,
                                                                     the refinement

Selections              filters and inserts of   SelectionsProofs    what they return
                        the standard library       ^ used by both proofs below

TableSyntax             tokens to rows           EventGenerics  parameters of callbacks
  ^ gives its functions to                         ^ used by
TableParser             rows to a checked table  TableParserProofs   (theorems)
  ^ MCTableParser       families of tables, each in every spelling

FlatMachine             the flat engine          FlatMachineProofs   (theorems)
  ^ MCFlatMachine       families of tables for TLC

TreeShape               abstract: the tree that a block of tables forms
  ^ has, as its layout                TreeFacts         what every layout has
  ^ agrees with                       ^ gives its trees to
TreeLayout              how the       TreeMachine       the orthogonal and composite
generator finds it                    engines
  ^ MCTreeLayout  blocks                ^ MCTreeMachine  families of trees
TreeLayoutProofs   (theorems)         TreeMachineProofs  (theorems)
```

### EventQueue and BoundedDeque

`slots`, `head` and `len` are the fields of `utility::EventQueue`. Index
arithmetic is `saturating_add` and `saturating_sub` with a largest `usize` that
is a constant, so a capacity close to `usize::MAX` is an ordinary case: the run
puts `UsizeMax` at the capacity itself, where adding `head` and `len` first would
saturate. `TailIndex`, `FrontIndex` and `AfterHead` are the three index
computations. `BoundedDeque` is the promise, stated on sequences; `Contents`
reads the ring from `head` and is the refinement mapping.

### FifoScheduler and StrictOrdering

One action is one critical section, or one step between two. `pc` says where
each caller (`Task`) is: `start`/`offer` before `FifoCell::offer`; `turn`,
`step`, `resolve`, `next` in the loop of `FifoCell::drain`; `unwind`, `probe`,
`handover`, `strand` in the two drop guards after a panic; `await`, `polled`,
`forget` in `FifoCompletion`. The queue mutex, the ticket and the waiter mutexes
are held for one action only and need no variable. The machine mutex is held
during a step, in which other callers run, so `lock` is a variable, and state
queries (`inspect`) contend for it.

The machine is a parameter: `May` says for each event whether it may be
accepted, be rejected, reach `X` or panic. The job, its ticket and its event are
one thing, named by the task. The queue is a sequence, as `EventQueue` is proved
to be. `Waker`s are their effect: `awake` says that the executor will poll the
task, `ticketWaker` and `waiterWaker` that the ticket or waiter holds a waker for
it. A task in `Unwound` submits from a destructor while its thread already
unwinds, which matters because `Unwinding::drop` asks
`std::thread::panicking()`. An action that re-enters its own machine needs
nothing special: it is a caller that finds the machine busy. After a panic the
events left in the queue wait for the next caller, as the comments at
`scheduler.rs:342` and `466` say and the test at `655` asserts: nobody is
draining and nothing is lost. `LeftByPanic` is that state, the only one in which
`EveryCallEnds` lets a call rest. `outcome`, `pos`
and `issued` are history.

`StrictOrdering` is the contract of the traits `Queued` and `StrictOrdering`: a
line of accepted events, one running event, a verdict per event. The event that
a drainer has popped but not started is still the front of the line.

### TableSyntax, EventGenerics and TableParser

A token is a punctuation mark, a name, a literal, a type or a bracket with what
stands in it; the characters of a name are left out, and `Spelled` says which
identifier a quoted name becomes. `SplitTransitions` and `NormalizeTransition`
are the two passes of `cpp.rs` over the tokens; `InputState`, `Event`, `Actions`
and `OutputState` are the parsers of the parts of a row, composed as the source
composes them, so that what is left over after one part is read by the next.

`TableParser` is the pass over the rows as a state machine (`phase`): reading
(`Read`, `ReadEnd`), the choice of an engine (`Route`), checks of names
(`Check`), collecting the types of states and events (`Collect`), the expansion
of the rows into `table`, the `states_events_mapping` (`ExpandRow`,
`ExpandState`, `ExpandWildcard`), and `Validate`. A wildcard row is expanded one
state at a time in any order, which is what iterating over a `HashMap` may do.
`EventGenerics` computes which generic parameters, bounds and predicates a
generated callback declares. A type is its name, the lifetimes and parameters it
mentions and its arguments.

`TableParser` takes the syntax as two constants, `Texts` (the rows of a body, as
tokens) and `Reading` (what is read from one of them); `MCTableParser` gives them
`SplitTransitions` and `ReadRows` of `TableSyntax`. The theorems then hold for any
syntax of which `ReadingAssumption` is true: a row text becomes a finite sequence
of rows or a fault, and only `unexpected`, `completion` and `exception` triggers
can stand for any event (the branches of `Event::parse` in `parser/event.rs`).
`GenericsAssumption` says that the parameters of a definition are `Declared`:
lifetimes first, and no lifetime in a bound or predicate that is not declared,
as rustc demands of the `impl` they are written into. `LifetimeAssumption` says
that a definition mentions finitely many lifetimes. TLC evaluates all of them on
the instances of `tables`.

`Selections` has what the iterators and maps of the standard library do,
`filter` (`Those`) and `insert` (`With`), defined so that a proof can expand them;
the library's `SelectSeq`, `:>` and `@@` cannot be.

### FlatMachine

The generated functions call one another, so the model keeps their call stack. A
frame is an activation of `__sml_process_event_unlocked` (`event`), of
`process_exception` (`exception`, which replaces its event frame as the handler
replaces the result), of `process_completion` (`completion`), of `initialize`
(`start`), or of the loop over the pending queue of an async machine (`queue`).
`at` is where the function is: choosing a row, in the row's `process(...)`
events, in the retry loop, or in the completion loop; `ret` is what a callee
returned. Everything between two calls of generated functions is one step,
because the engine runs under `&mut self` and nobody can interleave, also while
it awaits a callback.

A table is a sequence of rows, chosen in the initial state and fixed afterwards;
what the user's callbacks answer is nondeterministic. `async` says whether a
callback of the table is async: then `process(...)` events and retries go into
`pending` (`Queue`), which the outermost call works off (`QueueNext`), and the
owner may drop the future while a callback awaits (`Abandon`, if `Faults` has
`"drop"`). The other `Faults` say which callbacks may return `Err`; the guard of
a conditional action counts as an action. `Gate` adds a custom `Dispatch` policy,
which may refuse an event and skip candidates. Table order, the priority of
`Normal` over `Unexpected` over the wildcard, of a typed completion over the
anonymous one and of a typed exception row over the catch-all are those of the
generated `match` arms (`EventArm`, `CompletionArm`, `ExceptionArm`). There is
one error type, so a typed exception row catches every failure.

`exits`, `left`, `stale` and `call` are history: how often the current state was
exited since it was entered, how often the previous one was when it was left,
how many of the deferred events saw a state change, and what the current call
did.

### TreeShape, TreeLayout and TreeMachine

A block of tables is generated as one machine if the tables form a tree.
`TreeShape` says what that tree is, by definition: who owns whom, the regions of
a table (connected components of its states), the sites (one per region), and
the orders in which sites are dispatched, exited and entered. `TreeFacts` is what
every such layout has, and all that the proofs assume of a tree: its parts fit
together and no row leads out of its region (`FitsTogether`), the regions of a
table part its subtree and the dispatch visits every site (`RegionsPart`), the
path of a site holds the sites above it and the exits and entries are ranked
along it (`PathsNest`). `LayoutFits` checks them for every block the generator
accepts, and TLC evaluates them for every tree the engines run on. `TreeLayout` is how
the generator finds it: the breadth-first walk with `parents` and `depths`, and
`discover_regions`, which claims states region by region. The run shows that
both agree. `Reached`, from which `Region` and the ownership are defined, is the
smallest set that has a node and that no edge leaves, so that it says nothing of
how the generator gets there. `BlocksAssumption` says what a block is: at least
one table, each a sequence of rows; two tables of one name, cycles and tables
without rows are among them. `NoneAssumption` keeps "no region" apart from the
numbers of regions, as `Option` does.

`TreeMachine` runs such a tree. A site has a slot with its state and an exit
token. A generated function is a *walk* over the sites in a fixed order: the
dispatch of an event, one step of the completions, or the exception rows after a
failure; `took` are the sites that handled it. Sites at which nothing is tried
are passed without a step. `Outgoing` are the sites whose exits a row runs,
`Install` enters the target as far as the entries succeed; `ExitFails`,
`ActionFails` and `EntryFails` stop it half-way at any site. `Settled` and
`Progress` are the settled sites of `recovering_stabilize_body`. As in
`FlatMachine`, process events and retries are frames of a stack. `testing` trees
have the setters of the testing policy, `single` ones are those of the generator
for exactly one child table.

`exits`, `unexited`, `astray`, `failed`, `stale` and `call` are history. `astray`
are the sites that no row entered where they are: states set by a test, what lies
behind a failed entry or below a row between two composite states, and states
entered below a composite state whose own exit had already run. `failed` are the
sites whose completion failed in the call and that no exception row of the call
itself *moved* since; a row of an event the call processes does not count, nor
does an external exception row back to the same state, because the code does not
count them either (section 3).

What both engine models leave out, because no property depends on it: state data,
event data, temporary contexts, logging hooks and observers.

## 3. What the runs check

| Run | Instance | Shows |
|---|---|---|
| `ring` | 3 slots, 3 events, `UsizeMax` = capacity | `WindowOccupied`: exactly the slots of the window are occupied. `ImplementsDeque`: the ring implements the deque, return values included. All reachable states |
| `fifo_safety` | 4 callers, capacity 2, a state query, every step may panic or reach `X`, every completion may be dropped | one consumer, acceptance order, truthful answers, no ticket without somebody bound to resolve it, no lost wakeup of either kind, exact registrations for room; the cell implements `StrictOrdering` |
| `fifo_live` | 4 callers, capacity 2, one with `try_submit` that may leave and whose event may reach `X`, three whose steps may panic | every call ends, except that an event which a panic left queued waits for the next caller; and that caller runs it, also after further panics, and is woken for it if it waits for room |
| `flat` | all valid tables of 5 rows of a pool of 12 with queues and completions, of 5 rows of a pool of 12 with actions and recovery, and of 4 rows of a pool of 10 in which no state that defers is entered again; async tables of 4 rows of two pools; two states, two events, capacity 2; guards, actions and entry actions may fail, a call may be dropped; custom dispatch policy | deferred events are retried after a state change, the rejection of another event is not taken for the rejection of the event itself, failures surface, successful calls end in a stable state, each entered state is exited exactly once; and calls return (on the last synchronous pool and its async tables) |
| `tree_layout` | blocks of one or four tables, every combination of eight roots and seven nested tables that may own each other, themselves or the root | exactly the blocks that form no tree are refused, the walk finds the tree, regions are the connected components, the walks go from the inside out, the layout has all of `TreeFacts`: among it, that the paths of the regions partition a subtree |
| `tree_safety` | two regions with 3 of 11 more rows; a chain of three tables with 2 of 11; a tree of regions in regions with history with 2 of 10; a composite state beside a region that processes events, with 1 of 5; one child with 2 of 4 rows and testing setters; deferred capacity 1; every callback may fail | no state is exited twice and none is left without its exit, every region sees the event, unlisted events are refused without effect, deferred events are retried, failures surface, peers of a failed region still stabilise, every call returns |
| `tables` | tables of two or three rows of five pools of rows in any order, in two spellings each, with and without generics and context types; broken bodies | rows are read as meant, the table is the expansion of the rows whatever the hash order, no accepted row is dead, every way into a state with data provides it, names are not merged, callbacks declare what they mention |
| `fifo_unwound` | 3 callers, one on an unwinding thread | *violated:* events run in order |
| `flat_exit_action` | the tables with recovery rows; actions and `on_exit` actions may fail | *violated:* each entry gets exactly one exit |
| `flat_async_start` | the async tables, nothing fails | *violated:* processed events are dispatched by the call that processed them |
| `table_actions` | tables of four rows that share callbacks | *violated:* one action is used only with the same data |

Why the bounds are enough. Four callers are the smallest number for which the
queue of the smallest legal capacity (two) is full and somebody waits: one
drains, two are queued, one waits. Each caller submits one event; a caller that
submits again is another caller to the scheduler, which keeps no identity of
callers. Two states, two events and five rows let one row of each kind meet each
other: a row that defers, one that processes an event, one that changes the
state, one that completes, one that recovers. A tree needs three levels for the
difference between an innermost, an inner and an outer table, and two regions at
two levels for peers and peers of ancestors; the rows that make these
configurations reachable are fixed and those that make them interesting are
picked. The pools of the table runs hold one row for each rule that looks at
another row (a type before its mention, a wildcard before and behind an explicit
row, two spellings of one name), and all orders of them are tried.

`MaxDepth` bounds the stack (7 activations in `flat`, 2 in `tree_safety`, that
is one level of process events or retries); a call that needs a deeper one ends
the behaviour, as an exhausted thread stack ends the process. `OneWayReturns`
and `EveryCallReturns` are stated for tables whose calls stay within it, so a
behaviour that stops there would violate them. `exits` counts up to two.
Deadlock is not checked where a system may rest: when every caller is served,
when the stack is exhausted, and when a table is accepted or refused.

The engine runs use only tables that the macro accepts: `Valid` and `Reachable`
drop those with a row behind an unguarded row of the same arm, which is what
`NoDeadRow` shows of the accepted tables. `TreeMachine` gets its trees from
`TreeShape`, whose trees `WalkFindsTree` shows to be those of the generator.

Fairness. `FairSpec` of `FifoScheduler` assumes that a thread inside the
scheduler keeps running (threads are scheduled, steps return or panic), that a
state query ends, and that an executor polls a future whose waker was called,
which is the contract of `Future`. Nobody is obliged to submit, to poll unasked,
to drop a completion or to panic. `FairSpec` of `FlatMachine` and of
`TreeMachine` assumes that the thread inside the engine keeps running: user
callbacks return, and the future of an async call is polled or dropped.

### Disagreements between code and documentation

Four runs show that the code does not do what a comment or document says; each
is a finding in `PROJECT.json` with the quoted line.

1. `Unwinding::drop` (`scheduler.rs:349`) takes a drain that ended normally on an
   already unwinding thread for a panicking one and clears `draining`, which by
   then may belong to another caller. Two callers drain, and events run out of
   order. The repair is to remember at construction whether the thread was
   panicking, or to disarm the guard when the loop ends.
2. When an `on_exit` *action* fails, the `on_exit` hook has run but the token
   `exit_skip` is not set, so the hook runs again on the next exit
   (`codegen.rs:1065`).
3. In a table with an async callback, an event that a completion row processes
   during `initialize` stays in `pending` until the owner sends another event,
   and is dispatched after that one (`codegen.rs:995`, `docs/dsl.md:374`).
4. `validate_action_signatures` looks up the data of the output state under the
   key of the event, so an action may be shared by rows into states with
   different data, which the message of the same check forbids
   (`validation.rs:67`).

Others came up while modelling. The models have the code's behaviour, and the
properties are stated so that they do not depend on it:

* An event that the new state defers again is retried at once, by a loop that
  then does not end (`codegen.rs:1028`, `docs/dsl.md:374`). `OneWayReturns` and
  `EveryCallReturns` exclude such tables.
* An event recovered by an exception row of a flat table returns without running
  the completions of the state it recovered to (`codegen.rs:1043`,
  `docs/sml-cpp-parity.md:23`). `Stabilizes` speaks of calls without a failure.
* The error of a `process(...)` event is returned for the outer event although
  its transition happened (`codegen.rs:999` and `2231`); in an async table the
  same holds for a retried and for an older pending event. `RejectionIsOwn` names
  exactly these exceptions.
* In an async table the retried and the processed events come out in reverse
  order (`codegen.rs:1021`), and an event popped from the deferred queue is lost
  when `pending` is full; the caller is told `QueueFull`.
* A row from one composite state to another runs no exits below its source and
  no entries below its target (`composite_codegen.rs:4559`), while the comment at
  `composite_codegen.rs:4679` says that each entry gets exactly one exit.
  `LeftExited` excludes such rows.
* When the action of such a row fails, its source's exit is marked as done and
  the states nested there are not; a later row out of the source then skips them
  all, so they are left without an exit. `astray` counts what lies below a row
  between two composite states whether or not the row succeeds.
* A settled mark outlives what it is about. Only the exception rows of the
  function clear it; if a row of an event that the function *processes* leaves
  the site and a guarded completion enters it again, the completion of the new
  occupancy is not run, although "a settled mark belongs to the occupancy it was
  set in" (`composite_codegen.rs:3031`). `failed` therefore speaks of exception
  rows of the call itself.
* An exception row from a state to itself runs exit and entry but counts as not
  having moved anything (`exception_row_moves`, `composite_codegen.rs:4714`), so
  the completion that failed stays settled although its state was entered afresh.
* The generator for one child table does not run the entry of the child in
  `initialize` (`composite_codegen.rs:1013`), whose documentation says that it
  enters both.
* In a chain of three tables an event that the innermost one handles is still
  offered to the one in the middle (`composite_codegen.rs:1917`); only regions and
  the root are passed by.
* Regions have one match arm per state and named event for `unexpected<E>` and
  `completion<E>` rows, so of two guarded rows the second is never tried
  (`orthogonal_codegen.rs:1501` and `2028`).
* A type must be written at the first mention of a state or event or at none
  before it: untyped and then typed is accepted, typed and then untyped is
  refused (`parser/data.rs:40`). `unexpected<E>` beside a typed `event<E>` is
  refused for the same reason.

## 4. What is proved

All theorems are for every value of the constants that satisfies the named
assumption of the module.

* `EventQueueProofs`: `RingTyped` (types and index ranges), `RingWindowExact`
  (`WindowOccupied`), `RingImplementsDeque` (the refinement). The inductive
  invariant is `TypeOK` with `WindowOccupied`; the latter is needed because
  `defer` and `process` are correct only if the slot they write is free and
  `pop` only if the slot at `head` is not. The lemmas say where the window goes
  when `head` or `len` moves, around the wrap as well. The assumption is
  `N <= UsizeMax`, which is what a const generic of type `usize` is.
* `FifoSchedulerProofs`: `CellTyped` (types, and never more than `N` queued
  events) and `OneConsumer`. `SingleConsumer` alone is not inductive: that a
  caller in the loop still owns `draining` depends on which phases hold a job
  and on callers that are past the handover owning nothing. The strengthening
  `Consumer` says so. `OneConsumer` assumes that no caller submits while its
  thread unwinds (`Unwound = {}`), and finding 1 shows that it must. Panics and
  dropped completions are allowed, here and in the next module. Then
  `EveryTicketHeld` (`TicketsHeld`), `OneRegistration` (`RoomIsExact`),
  `NoWakeupLost` and `NoTicketWakeupLost`, all of them *with* unwinding threads.
  A ticket is held by the queue or by a caller in one of four phases (`Holding`);
  the wakeups need a statement per sleeping caller (`Sleepers`): where its waker
  is, and who is bound to call it.
* `FifoOrderProofs`: `AlwaysInOrder` (`RunsInOrder`) and `AlwaysTruthful`
  (`ToldTheTruth`), for every machine, assuming `Unwound = {}`; run
  `fifo_unwound` is the counterexample without. The invariant `OrderInv` follows an event
  from its number (`Numbering`) through the queue (`Queue`) and the drainer's
  hand (`Hand`, `Strand`) to its outcome (`Order`) and its caller's answer
  (`Answers`); what is closed stays closed (`Closing`). Neither order nor truth is
  inductive without the others: that the next event popped is the oldest
  unfinished one needs the numbers in the queue to be contiguous with the one in
  hand. `CellImplementsContract` follows from the same invariant: every step of
  the cell is a step of `StrictOrdering` or invisible to it.
* `FlatMachineProofs`: `EachEntryExitsOnce`, for synchronous and async tables,
  dropped calls included. The inductive invariant is the token: `exits` is one if
  `exitSkip` and zero otherwise. It is independent of tables, callbacks and
  queue. It assumes that `on_exit` actions do not fail, and finding 2 shows that
  it must. The other results on the flat engine assume nothing of the kind.
  `EngineTyped` (`TypeOK`) needs the call stack described: what a frame may be in
  each function (`Frames`), which callee a caller can have called (`Links`), what
  the owner called (`Bottom`), together `StackInv`. `FaultReachesCaller`
  (`FaultsSurface`) follows the error: a fault not yet caught is in `ret` or in the
  exception rows of the running function (`Surfacing`).
  `RejectionsAreOwn` (`RejectionIsOwn`), `DeferredAreRetried`
  (`DeferredRetried`) and `EndsStable` (`Stabilizes`). Each says of a finished call
  what an invariant says of a running one: who can have been rejected by the
  event a result belongs to (`Turns`), that some function on the stack still
  has the retry loop ahead of it (`Owed`), and that the state is stable wherever a
  completion loop was left (`Settled`, `Declined`).
* `TreeMachineProofs`, for every set of trees that satisfies `TreeFacts`, with
  every failure, `on_exit` actions included:
  * `TokensTell` (`ExitToken`). The invariant is inductive as it stands, because
    of the lemma `OutgoingUnmarked`: a row runs the exits of no site whose token
    is set, whichever sites are nested where.
  * `WellTyped` (`TypeOK`), from `TreeInv`: a frame in the middle of a row is at
    a row of the site its walk stopped at (`Shaped`).
  * `FaultReachesCaller` (`FaultsSurface`), from `Surfacing` as in the flat engine.
  * `UnlistedAreRefused` (`UnlistedRefused`), from `Refusing`: while an unlisted
    event is dispatched no walk finds a row to try, because the walk tries active
    tables only, and `visit_current_events` has looked at these.
  * `DeferredAreRetried` (`DeferredRetried`), from `Owed` as in the flat engine.
  * `PeersAreStable` (`StabilizesPeers`), from `Peaceful`, which speaks of the function
    the owner called, however deep the calls it made are nested. Its walk of the
    completions has left nothing waiting behind it (`Spent`), and every site it
    treats as settled failed and was not moved since, or is about to be moved by
    the exception row in progress (`Excused`). Nested functions only add to
    `failed` (`FailedGrows`). It needs that rows stay in their region (`Placed`)
    and that a call without a fault has seen no exception rows (`Owed`).
  * `RegionsHear` (`Broadcast`), from `Heard`: until the dispatch is over, a region
    of the root that was to take the event has taken it (`Served`), is in the row
    that takes it, or has a site that must take it where the walk has still to come
    (`Waits`). Such a site stays as it is because rows of another region do not
    touch it (`Undisturbed`), and the walk does not skip it unless a table nested in
    it was served, which is in the same region (`Reaches`).
  * `EachIsExited` (`LeftExited`), the other half of `TokensTell`. The invariant is
    `Strays`: below a site whose exits ran, everything that is active has its exit
    behind as well or is astray. It is preserved because whatever is active below a
    site that a row exits is exited with it, stands behind a site further in that
    was exited before, or is below a row between two composite states
    (`LeavesBehind`); and because exits run from the inside out, a failed one
    leaves marked what is below every site that is marked.

* `TableParserProofs`, for every definition, every order in which a `HashMap`
  yields the states, and every syntax:
  * `NamesStayDistinct` (`NamesDistinct`), from `Spelt`: what `Check` found of the
    names stays true, because nothing after it adds a name.
  * `DataIsProvided` (`DataProvided`), from `Collecting`: the types known are those
    of the rows collected, and every row collected that gives a type gives that
    one. A type may come from a later row than the arm that needs it, so the
    property follows only when all rows are collected.
  * `TableIsItsExpansion` (`TableIsExpansion`) and `NoRowIsDead` (`NoDeadRow`), from
    `Filing`, which is stated by state because a wildcard row visits them one at a
    time: a row is `Past` a state when it can add nothing there any more, the arms
    of a state are those of the rows `Taken` there, in their order (`Settled`),
    and a wildcard row behind has an arm somewhere (`Works`). `add_transition`
    keeps this because the row it files is behind all rows past the state.
  * `CallbacksAreClosed` (`CallbacksClosed`), from `Generic` (what the check of the
    parameters leaves) and lemmas about the functions of `EventGenerics`: which
    parameters `WithLifetimes`, `FilterLifetimes` and the rest keep and drop
    (`Extends`, `Filtered`, `Closed`).
* `SelectionsProofs`: what `Those` returns (`ThoseAre`). That a set of positions
  can be put in order is an induction on numbers; it is done with the least
  element of the set of counterexamples (`Least`).
* `TreeLayoutProofs`, for every block of tables:
  * `NoTreeIsRefused` (`RefusesNoTree`) and `WalkMeetsEachTable`: the walk stops
    for a second owner exactly if the tables are no tree, and otherwise has met
    each table below the root once, under its owner and one level below it. The
    inductive invariant is `Walking`: of the tables met everything they own was
    visited under them or waits under them; who waits does so under a table that
    was met; nobody waits twice under one owner (`Once`); and depths grow by one
    (`Levels`). A root that is owned itself needs a case of its own, since the
    walk does not know that it was there: it is met again, and then one of its
    children a second time (`Doomed`). `Judged` adds what follows once the walk
    has stopped.
  * `RegionsAreTheComponents` (`RegionsAreComponents`), from `Splits`: the states
    claimed for a region are in the component of its initial state (`Class`), and
    what a row connects to them is claimed or still in the frontier (`Open`,
    `Grown`). With an empty frontier a region is closed, so it *is* the component,
    and as no state is claimed twice the components are apart; a state that another
    region holds already is in both components.
  * `RegionsGoOn`: of an accepted block each table with several initial states
    goes on with these components, and each other table with all its states. The
    invariant `Handing` says that every table met that is to be split is split or
    queued for it, and that what was split stays.

Only model-checked:

* all liveness (`EveryCallEnds`, `OneWayReturns`, `EveryCallReturns`), which is out
  of the prover's reach;
* `ReadsAsWritten`: the parser of states and rows is recursive, and what it reads
  from every text is an induction over data, which the installed provers cannot
  do. `TableSyntax` declares `RECURSIVE` operators besides, so that no module with
  theorems may use it; that is why the syntax is a constant of `TableParser`;
* `WalkFindsTree`, as a whole. `WalkMeetsEachTable` and `RegionsGoOn` prove the
  tables, owners, depths and regions of it against direct definitions; what is
  left is that they come in breadth-first order, which `TreeShape` computes with
  a fold, and that `Owner` and `DepthOf` agree with these definitions;
* `InnermostFirst` and `LayoutFits`, which are about lists that `TreeShape` sorts
  and folds: inductions over data again. The theorems of `TreeMachineProofs` rest
  on `TreeFacts`, which `LayoutFits` checks.

## 5. Not modelled

* **Async trees.** The orthogonal and composite engines have the same pending
  queue for tables with async callbacks (`composite_codegen.rs:737` and `2461`).
  What is particular to it is modelled and checked in `FlatMachine`; in the tree
  it would multiply the largest run.
* **The `Dispatch` policy in front of a tree**, which `FlatMachine` has as `Gate`.
* **`InlineScheduler`**: one critical section; its documented deadlock on re-entry
  is its only hazard.
* **`EventQueues`, `Hierarchical`, `SmPool`, `OrthogonalRegions`,
  `DispatchTable`**: sequential helpers around closures, which the generated
  engines do not use. `EventQueues` is two rings (`EventQueue`) and a loop.
* **Options, guard expressions and type shapes** in the macro's input, event type
  and diagram generation, and trait forwarding: text in, text out.

Every safety invariant of the engines, the scheduler, the queue and the checks on
a table that a run checks is a theorem. What is left to prove is what recursive
functions compute, as said above.
