-------------------------- MODULE TreeMachineProofs --------------------------
(***************************************************************************)
(* For every set of well formed trees, queue capacity and stack, whatever  *)
(* callbacks fail: the token of each site tells exactly whether its exits  *)
(* ran, no state is exited twice and none is left without its exit; errors *)
(* reach the caller, deferred events are retried, every region hears an    *)
(* event, and a call that succeeds leaves every region stable.             *)
(***************************************************************************)
EXTENDS TreeMachine, FiniteSetTheorems, TLAPS

\* A fresh machine is in its initial states, none of which was exited.
LEMMA TokenInit == Init => ExitToken
BY DEF Init, ExitToken, Site

\* Steps that leave the sites, their tokens and their history alone.
LEMMA TokenKept == ExitToken /\ UNCHANGED <<tree, skip, exits>> => ExitToken'
BY DEF ExitToken, Site

\* What is below a composite state are sites of its subtree.
LEMMA UnderInSubtree ==
    ASSUME NEW s, NEW u \in Under(s)
    PROVE  u \in tree.subtree[slot[s]]
BY DEF Under

\* A row runs the exits of no site that has its exit behind it.
LEMMA OutgoingUnmarked ==
    ASSUME NEW s, NEW row, NEW u \in Outgoing(s, row)
    PROVE  ~skip[u]
<1>1. CASE u = s
  BY <1>1 DEF Outgoing
<1>2. CASE u \in ToExit(s)
  <2>1. u \in tree.subtree[slot[s]]
    BY <1>2, UnderInSubtree DEF ToExit
  <2>2. QED
    BY <1>2, <2>1 DEF ToExit
<1>3. QED
  BY <1>1, <1>2 DEF Outgoing

\* Exits of unmarked sites, each marked as it runs, keep the tokens true.
LEMMA TokenMarked ==
    ASSUME ExitToken, NEW gone, \A u \in gone : ~skip[u], RunExits(gone),
           skip' = [s \in Site |-> skip[s] \/ s \in gone], tree' = tree
    PROVE  ExitToken'
<1> SUFFICES ASSUME NEW s \in Site
             PROVE  exits'[s] = (IF skip'[s] THEN 1 ELSE 0)
  BY DEF ExitToken, Site
<1>1. exits'[s] = IF s \in gone THEN Once(exits[s]) ELSE exits[s]
  BY DEF RunExits
<1>2. skip'[s] = (skip[s] \/ s \in gone)
  OBVIOUS
<1>3. exits[s] = (IF skip[s] THEN 1 ELSE 0)
  BY DEF ExitToken
<1>4. CASE s \in gone
  BY <1>1, <1>2, <1>3, <1>4 DEF Once
<1>5. CASE s \notin gone
  BY <1>1, <1>2, <1>3, <1>5
<1>6. QED
  BY <1>4, <1>5

\* Entering a site clears its token; the sites that were left carry theirs.
LEMMA TokenInstalled ==
    ASSUME ExitToken, NEW s, NEW row, NEW upto,
           Install(s, row, upto), tree' = tree
    PROVE  ExitToken'
<1> DEFINE entered == Entered(s, row, upto)
           gone    == Outgoing(s, row)
<1> SUFFICES ASSUME NEW u \in Site
             PROVE  exits'[u] = (IF skip'[u] THEN 1 ELSE 0)
  BY DEF ExitToken, Site
<1>1. exits'[u] = IF u \in entered THEN 0
                  ELSE IF u \in gone THEN Once(exits[u]) ELSE exits[u]
  BY DEF Install
<1>2. skip'[u] = (u \notin entered /\ (skip[u] \/ u \in gone))
  BY DEF Install
<1>3. exits[u] = (IF skip[u] THEN 1 ELSE 0)
  BY DEF ExitToken
<1>4. CASE u \in entered
  BY <1>1, <1>2, <1>4
<1>5. CASE u \notin entered /\ u \in gone
  <2>1. ~skip[u]
    BY <1>5, OutgoingUnmarked
  <2> HIDE DEF entered, gone
  <2>2. exits'[u] = 1
    BY <2>1, <1>1, <1>3, <1>5 DEF Once
  <2>3. QED
    BY <2>2, <1>2, <1>5
<1>6. CASE u \notin entered /\ u \notin gone
  <2> HIDE DEF entered, gone
  <2> QED
    BY <1>1, <1>2, <1>3, <1>6
<1>7. QED
  BY <1>4, <1>5, <1>6
\* Taking a row, whatever of it fails.
LEMMA TokenTaken ==
    ASSUME ExitToken, NEW p, NEW i,
           \/ TakeInternal(p, i) \/ ActionFails(p, i) \/ Move(p, i)
           \/ \E v \in Site : ExitFails(p, i, v) \/ EntryFails(p, i, v)
    PROVE  ExitToken'
<1> DEFINE s    == Here(p)
           row  == Rows(s)[i]
           gone == Outgoing(s, row)
<1>1. CASE TakeInternal(p, i)
  BY <1>1, TokenKept DEF TakeInternal, slotVars
<1>2. \A u \in gone : ~skip[u]
  BY OutgoingUnmarked
<1>3. CASE ActionFails(p, i)
  <2>1. /\ RunExits(gone)
        /\ skip' = [u \in Site |-> skip[u] \/ u \in gone]
        /\ tree' = tree
    BY <1>3 DEF ActionFails
  <2> HIDE DEF gone
  <2>2. QED
    BY <2>1, <1>2, TokenMarked
<1>4. ASSUME NEW v \in Site, ExitFails(p, i, v)
      PROVE  ExitToken'
  <2> DEFINE before == {u \in gone : tree.exits[u] < tree.exits[v]}
  <2>1. /\ RunExits(before)
        /\ skip' = [u \in Site |-> skip[u] \/ u \in before]
        /\ tree' = tree
    BY <1>4 DEF ExitFails
  <2>2. \A u \in before : ~skip[u]
    BY <1>2
  <2> HIDE DEF before
  <2>3. QED
    BY <2>1, <2>2, TokenMarked
<1>5. CASE Move(p, i)
  <2>1. Install(s, row, LastRank) /\ tree' = tree
    BY <1>5 DEF Move
  <2>2. QED
    BY <2>1, TokenInstalled
<1>6. ASSUME NEW v \in Site, EntryFails(p, i, v)
      PROVE  ExitToken'
  <2>1. /\ Install(s, row, 0) \/ Install(s, row, tree.entries[v])
        /\ tree' = tree
    BY <1>6 DEF EntryFails
  <2>2. QED
    BY <2>1, TokenInstalled
<1>7. QED
  BY <1>1, <1>3, <1>4, <1>5, <1>6

\* The states of one table are replaced by a test, with fresh tokens.
LEMMA TokenSet ==
    ASSUME ExitToken, NEW n, set_states(n)
    PROVE  ExitToken'
<1>1. /\ skip' = [s \in Site |-> skip[s] /\ tree.node[s] # n]
      /\ exits' = [s \in Site |-> IF tree.node[s] = n THEN 0 ELSE exits[s]]
      /\ tree' = tree
  BY DEF set_states
<1>2. QED
  BY <1>1 DEF ExitToken, Site

\* Every step of the engine and of its owner keeps the tokens true.
LEMMA TokenNext ==
    ASSUME ExitToken, [Next]_vars
    PROVE  ExitToken'
<1>1. CASE UNCHANGED vars
  BY <1>1, TokenKept DEF vars, slotVars
<1>2. CASE (\E e \in Event : process_event(e)) \/ initialize
  BY <1>2, TokenKept DEF process_event, initialize, slotVars
<1>3. CASE \E n \in DOMAIN tree.rows : set_states(n)
  BY <1>3, TokenSet
<1>4. ASSUME Step
      PROVE  ExitToken'
  <2>1. ASSUME NEW p \in Stops, Try(p)
        PROVE  ExitToken'
    <3>1. CASE Miss(p) \/ GuardFails(p)
      BY <3>1, TokenKept DEF Miss, GuardFails, slotVars
    <3>2. CASE \E i \in Reached(p) :
                 \/ TakeInternal(p, i) \/ ActionFails(p, i) \/ Move(p, i)
                 \/ \E v \in Site : ExitFails(p, i, v) \/ EntryFails(p, i, v)
      BY <3>2, TokenTaken
    <3>3. QED
      BY <2>1, <3>1, <3>2 DEF Try
  <2>2. CASE EventEnds \/ CompletionEnds \/ ExceptionEnds
    BY <2>2, TokenKept DEF EventEnds, CompletionEnds, ExceptionEnds, StateKeeps, slotVars
  <2>3. CASE ProcessNext \/ ProcessDone \/ DrainNext \/ DrainDone
    BY <2>3, TokenKept
       DEF ProcessNext, ProcessDone, DrainNext, DrainDone, StateKeeps, slotVars
  <2>4. QED
    BY <1>4, <2>1, <2>2, <2>3 DEF Step
<1>5. QED
  BY <1>1, <1>2, <1>3, <1>4 DEF Next

\* The comment on exit_skip_place, "each entry gets exactly one exit", for
\* every tree: the token of each site says whether its exits ran since it was
\* entered, and none ran twice, whatever guards, actions, entries and exits
\* fail and whatever the exception rows then take.
THEOREM TokensTell == Spec => []ExitToken
<1>1. Init => ExitToken
  BY TokenInit
<1>2. ExitToken /\ [Next]_vars => ExitToken'
  BY TokenNext
<1>3. QED
  BY <1>1, <1>2, PTL DEF Spec

-----------------------------------------------------------------------------
(* Sites, rows and the call stack.                                         *)

\* What a frame may be: an event's dispatch is followed by its completions, a
\* failure is known in the exception walk, and a row in progress is a row of
\* the site the walk stopped at.
Shaped(g) ==
    /\ g.walk # "exception" => g.phase = g.walk
    /\ g.walk = "exception" => /\ g.error \in Failures
                               /\ g.phase = "completion" => g.faulting \in Site
    /\ g.at # "walk" => /\ g.pos \in DOMAIN Order(g.walk)
                        /\ g.row \in DOMAIN Rows(Order(g.walk)[g.pos])
    /\ g.at = "drain" => ~Rows(Order(g.walk)[g.pos])[g.row].internal
Body == {g \in Frame : Shaped(g)}

\* What the stack and the result are after a step.
StackOK == stack \in Seq(Body) /\ ret \in Results \union {"none"}

Calls == [event : Event \union {Wild},
          did : SUBSET {"took", "changed", "fault", "caught", "nested"},
          listed : BOOLEAN, offered : SUBSET Site, took : SUBSET Site]

\* The type invariant, strengthened until steps keep it.
TreeInv == tree \in Trees /\ TypeOK /\ stack \in Seq(Body)

\* The parts of the machine's tree fit together.
LEMMA TreeFits ==
    ASSUME tree \in Trees
    PROVE  /\ \A n \in DOMAIN tree.rows : tree.rows[n] \in Seq(Row) /\ tree.subtree[n] \subseteq Site
           /\ \A s \in Site : /\ tree.node[s] \in DOMAIN tree.rows /\ tree.initial[s] \in State
                              /\ tree.nested[s] \subseteq Site
           /\ tree.events \in Seq(Site) /\ tree.others \in Seq(Site)
BY TreeAssumption DEF WellFormed, FitsTogether, Site

\* The states of a site, those of its region.
LEMMA RegionFits ==
    ASSUME tree \in Trees, NEW s \in Site
    PROVE  /\ tree.initial[s] \in tree.states[s] /\ tree.states[s] \subseteq State
           /\ \A n \in tree.states[s] \intersect DOMAIN tree.rows : tree.subtree[n] \subseteq tree.nested[s]
           /\ \A i \in DOMAIN Rows(s) :
                Rows(s)[i].from \in tree.states[s] => Rows(s)[i].to \in tree.states[s]
           /\ \E p \in DOMAIN tree.others : tree.others[p] = s
BY TreeAssumption DEF WellFormed, FitsTogether, Site, Rows

\* A row of a site.
LEMMA RowTyped ==
    ASSUME tree \in Trees, NEW s \in Site, NEW i \in DOMAIN Rows(s)
    PROVE  /\ Rows(s)[i] \in Row /\ i \in Nat
           /\ Rows(s)[i].defer => Rows(s)[i].event \in Event
<1>1. tree.node[s] \in DOMAIN tree.rows /\ Rows(s) \in Seq(Row)
  BY TreeFits DEF Rows
<1>2. Rows(s)[i] \in Row /\ i \in Nat
  BY <1>1
<1>3. Rows(s)[i].defer => Rows(s)[i].event # Wild
  BY <1>1, TreeAssumption DEF Rows
<1>4. QED
  BY <1>2, <1>3 DEF Row

\* A place in a walk is a site.
LEMMA PlaceTyped ==
    ASSUME tree \in Trees, NEW w, NEW p \in DOMAIN Order(w)
    PROVE  Order(w)[p] \in Site /\ p \in Nat \ {0}
<1>1. Order(w) \in Seq(Site)
  BY TreeFits DEF Order
<1>2. QED
  BY <1>1

\* Where a walk stops, and what is tried there.
LEMMA StopTyped ==
    ASSUME tree \in Trees, Top \in Frame, NEW p \in Stops
    PROVE  /\ p \in DOMAIN Order(Top.walk) /\ p \in Nat \ {0} /\ Here(p) \in Site
           /\ \A i \in Reached(p) : i \in Candidates(Top, Here(p))
           /\ p >= Top.pos
<1>1. Top.pos \in Nat \ {0} /\ Order(Top.walk) \in Seq(Site)
  BY TreeFits DEF Frame, Order
<1>2. p \in Top.pos..Len(Order(Top.walk))
  BY DEF Stops, Ahead
<1>3. p \in DOMAIN Order(Top.walk) /\ p \in Nat \ {0} /\ p >= Top.pos
  BY <1>1, <1>2
<1>4. QED
  BY <1>1, <1>3 DEF Here, Reached

\* Candidates are rows of the site.
LEMMA CandidateIsRow ==
    ASSUME NEW f \in Frame, NEW s, NEW i \in Candidates(f, s)
    PROVE  i \in DOMAIN Rows(s)
<1>1. \A k, e : Picks(s, k, e) \subseteq DOMAIN Rows(s) /\ First(Picks(s, k, e)) \subseteq DOMAIN Rows(s)
  BY DEF Picks, First
<1>2. CASE f.walk = "event"
  BY <1>1, <1>2 DEF Candidates, EventRows
<1>3. CASE f.walk = "completion"
  <2>1. CompletionRows(s, f.origin) \subseteq DOMAIN Rows(s)
    BY <1>1 DEF CompletionRows, First
  <2>2. QED
    BY <1>3, <2>1 DEF Candidates
<1>4. CASE f.walk = "exception"
  BY <1>4 DEF Candidates, ExceptionRows
<1>5. QED
  BY <1>2, <1>3, <1>4 DEF Frame

\* The frames of a tree do not change.
LEMMA BodyKept == ASSUME tree' = tree PROVE Body' = Body /\ Site' = Site /\ Frame' = Frame
BY DEF Body, Shaped, Frame, Site, Order, Rows, Failures

\* The running function and those under it.
LEMMA StackTyped ==
    ASSUME stack \in Seq(Body), Running
    PROVE  /\ Top \in Body /\ Top \in Frame /\ Shaped(Top) /\ Top = stack[1] /\ Under1 \in Seq(Body)
           /\ Len(stack) \in Nat /\ Len(stack) >= 1 /\ Len(Under1) = Len(stack) - 1
           /\ \A i \in 1..Len(Under1) : Under1[i] = stack[i + 1]
<1>1. stack # << >>
  BY DEF Running
<1>2. ASSUME NEW S, NEW s \in Seq(S), s # << >>
      PROVE  /\ Head(s) \in S /\ Head(s) = s[1] /\ Tail(s) \in Seq(S)
             /\ Len(s) \in Nat /\ Len(s) >= 1 /\ Len(Tail(s)) = Len(s) - 1
             /\ \A i \in 1..Len(Tail(s)) : Tail(s)[i] = s[i + 1]
  BY <1>2
<1>3. /\ Top \in Body /\ Top = stack[1] /\ Under1 \in Seq(Body)
      /\ Len(stack) \in Nat /\ Len(stack) >= 1 /\ Len(Under1) = Len(stack) - 1
      /\ \A i \in 1..Len(Under1) : Under1[i] = stack[i + 1]
  BY <1>1, <1>2 DEF Top, Under1
<1>4. QED
  BY <1>3 DEF Body

\* What the three moves of the call stack do.
LEMMA GoesTo ==
    ASSUME stack \in Seq(Body), Running, NEW g \in Body, GoTo(g)
    PROVE  /\ stack' \in Seq(Body) /\ Len(stack') = Len(stack)
           /\ stack'[1] = g /\ \A i \in 2..Len(stack) : stack'[i] = stack[i]
           /\ Running' /\ Top' = g /\ ret' = "none"
<1>1. stack' = <<g>> \o Under1 /\ ret' = "none"
  BY DEF GoTo
<1>2. /\ stack' \in Seq(Body) /\ Len(stack') = 1 + Len(Under1)
      /\ stack'[1] = g /\ \A i \in 2..(1 + Len(Under1)) : stack'[i] = Under1[i - 1]
  BY <1>1, StackTyped
<1>3. ASSUME NEW i \in 2..Len(stack) PROVE stack'[i] = stack[i]
  <2>1. i - 1 \in 1..Len(Under1) /\ (i - 1) + 1 = i /\ i \in 2..(1 + Len(Under1))
    BY StackTyped
  <2>2. stack'[i] = Under1[i - 1] /\ Under1[i - 1] = stack[(i - 1) + 1]
    BY <1>2, <2>1, StackTyped
  <2>3. QED
    BY <2>1, <2>2
<1>4. Running' /\ Top' = g
  BY <1>2, StackTyped DEF Running, Top
<1>5. QED
  BY <1>1, <1>2, <1>3, <1>4, StackTyped

\* A call puts the callee on top of its caller.
LEMMA CallsOut ==
    ASSUME stack \in Seq(Body), Running, NEW g \in Body, NEW c \in Body, Enter(g, c)
    PROVE  /\ stack' \in Seq(Body) /\ Len(stack') = Len(stack) + 1
           /\ stack'[1] = c /\ stack'[2] = g
           /\ \A i \in 3..Len(stack') : stack'[i] = stack[i - 1]
           /\ Running' /\ Top' = c /\ ret' = "none"
<1>1. stack' = <<c, g>> \o Under1 /\ ret' = "none"
  BY DEF Enter
<1>2. /\ stack' \in Seq(Body) /\ Len(stack') = 2 + Len(Under1)
      /\ stack'[1] = c /\ stack'[2] = g
      /\ \A i \in 3..(2 + Len(Under1)) : stack'[i] = Under1[i - 2]
  BY <1>1, StackTyped
<1>3. ASSUME NEW i \in 3..Len(stack') PROVE stack'[i] = stack[i - 1]
  <2>1. i - 2 \in 1..Len(Under1) /\ (i - 2) + 1 = i - 1 /\ i \in 3..(2 + Len(Under1))
    BY <1>2, StackTyped
  <2>2. stack'[i] = Under1[i - 2] /\ Under1[i - 2] = stack[(i - 2) + 1]
    BY <1>2, <2>1, StackTyped
  <2>3. QED
    BY <2>1, <2>2
<1>4. Running' /\ Top' = c
  BY <1>2, StackTyped DEF Running, Top
<1>5. QED
  BY <1>1, <1>2, <1>3, <1>4, StackTyped

\* A return uncovers the caller and hands it the result.
LEMMA Returns ==
    ASSUME stack \in Seq(Body), Running, NEW v, Return(v)
    PROVE  /\ stack' \in Seq(Body) /\ Len(stack') = Len(stack) - 1
           /\ \A i \in 1..Len(stack') : stack'[i] = stack[i + 1]
           /\ ret' = v
           /\ Running' => Len(stack) >= 2 /\ Top' = stack[2]
           /\ Len(stack) >= 2 => Running'
<1>1. stack' = Under1 /\ ret' = v
  BY DEF Return
<1>2. QED
  BY <1>1, StackTyped DEF Running, Top

-----------------------------------------------------------------------------
(* Types.                                                                  *)

\* A fresh frame, and a frame of stabilize.
LEMMA FrameMade ==
    ASSUME NEW e \in Event \union {Wild}, NEW via \in {"call", "process", "retry"}
    PROVE  /\ NewFrame(e, via) \in Body
           /\ NewFrame(e, via).walk = "event" /\ NewFrame(e, via).at = "walk"
           /\ NewFrame(e, via).event = e /\ NewFrame(e, via).via = via
           /\ Stabilize(e, via) \in Body
           /\ Stabilize(e, via).walk = "completion" /\ Stabilize(e, via).at = "walk"
           /\ Stabilize(e, via).took = {} /\ Stabilize(e, via).settled = {}
           /\ Stabilize(e, via).pos = 1 /\ Stabilize(e, via).via = via
<1>0. Wild \in Event \union {Wild} /\ {} \in SUBSET Site /\ 0 \in Nat /\ 1 \in Nat \ {0}
      /\ << >> \in Seq(Event)
  OBVIOUS
<1>1. /\ NewFrame(e, via) \in Frame
      /\ NewFrame(e, via).walk = "event" /\ NewFrame(e, via).at = "walk"
      /\ NewFrame(e, via).phase = "event"
      /\ NewFrame(e, via).event = e /\ NewFrame(e, via).via = via
  BY <1>0 DEF NewFrame, Frame
<1>2. PICK h : h = NewFrame(Wild, via)
  OBVIOUS
<1>3. h \in Frame /\ h.took = {} /\ h.settled = {} /\ h.pos = 1 /\ h.at = "walk" /\ h.via = via
  BY <1>0, <1>2 DEF NewFrame, Frame
<1>4. Stabilize(e, via) = [h EXCEPT !.walk = "completion", !.phase = "completion", !.origin = e]
  BY <1>2 DEF Stabilize
<1>5. /\ Stabilize(e, via) \in Frame
      /\ Stabilize(e, via).walk = "completion" /\ Stabilize(e, via).phase = "completion"
      /\ Stabilize(e, via).at = "walk"
      /\ Stabilize(e, via).took = {} /\ Stabilize(e, via).settled = {}
      /\ Stabilize(e, via).pos = 1 /\ Stabilize(e, via).via = via
  BY <1>3, <1>4 DEF Frame
<1>6. QED
  BY <1>1, <1>5 DEF Body, Shaped

\* The type invariant, part by part.
LEMMA TypeParts ==
    ASSUME TreeInv, tree' = tree, StackOK', call' \in Calls,
           slot' \in [Site -> State], skip' \in [Site -> BOOLEAN], exits' \in [Site -> 0..2],
           begun' \in BOOLEAN, deferred' \in Seq(Event), Len(deferred') <= Capacity,
           stale' \in 0..Len(deferred'),
           unexited' \subseteq Site, astray' \subseteq Site, failed' \subseteq Site
    PROVE  TreeInv'
<1>1. Body' = Body /\ Site' = Site /\ Frame' = Frame
  BY BodyKept
<1>2. stack' \in Seq(Body) /\ ret' \in Results \union {"none"}
  BY <1>1 DEF StackOK, Results, Failures
<1>3. stack' \in Seq(Frame)
  <2>1. ASSUME NEW S, NEW s \in Seq({g \in S : Shaped(g)}) PROVE s \in Seq(S)
    BY <2>1
  <2>2. QED
    BY <1>2, <2>1 DEF Body
<1>4. TypeOK'
  BY <1>1, <1>2, <1>3 DEF TypeOK, Calls, Results, Failures
<1>5. QED
  BY <1>1, <1>2, <1>4 DEF TreeInv

\* What the type invariant says of the state before a step.
LEMMA TypesNow ==
    ASSUME TreeInv
    PROVE  /\ tree \in Trees /\ stack \in Seq(Body) /\ ret \in Results \union {"none"}
           /\ call \in Calls /\ slot \in [Site -> State] /\ skip \in [Site -> BOOLEAN]
           /\ exits \in [Site -> 0..2] /\ begun \in BOOLEAN
           /\ deferred \in Seq(Event) /\ Len(deferred) <= Capacity /\ Len(deferred) \in Nat
           /\ stale \in 0..Len(deferred)
           /\ unexited \subseteq Site /\ astray \subseteq Site /\ failed \subseteq Site
BY DEF TreeInv, TypeOK, Calls

\* A step that leaves the sites alone.
LEMMA TypeKept ==
    ASSUME TreeInv, UNCHANGED <<tree, slotVars, begun>>, StackOK', call' \in Calls,
           deferred' \in Seq(Event), Len(deferred') <= Capacity,
           stale' \in 0..Len(deferred'), failed' \subseteq Site
    PROVE  TreeInv'
<1>1. /\ slot' = slot /\ skip' = skip /\ exits' = exits /\ unexited' = unexited
      /\ astray' = astray /\ begun' = begun /\ tree' = tree
  BY DEF slotVars
<1>2. QED
  BY <1>1, TypesNow, TypeParts

\* A step that touches the stack, its result and the history of the call only.
LEMMA StackTouched ==
    ASSUME TreeInv, UNCHANGED <<tree, slotVars, begun, queueVars>>, StackOK', call' \in Calls,
           failed' \subseteq Site
    PROVE  TreeInv'
<1>1. deferred' = deferred /\ stale' = stale
  BY DEF queueVars
<1>2. QED
  BY <1>1, TypesNow, TypeKept

\* A failed callback that an exception row may handle starts their walk.
LEMMA ThrowsTo ==
    ASSUME stack \in Seq(Body), Running, NEW v, NEW s \in Site, Throw(v, s), Recoverable(v)
    PROVE  \E g \in Body :
              /\ GoTo(g) /\ g.walk = "exception" /\ g.at = "walk" /\ g.recovery = "none"
              /\ g.settled = Top.settled /\ g.phase = Top.phase
              /\ g.phase = "completion" => g.faulting = s
<1>t. Top \in Frame /\ Shaped(Top)
  BY StackTyped
<1>0. PICK k \in Site \union {0} : k = IF Top.phase = "event" THEN 0 ELSE s
  OBVIOUS
<1>1. PICK g : g = [Top EXCEPT !.walk = "exception", !.pos = 1, !.at = "walk",
                           !.error = v, !.recovery = "none", !.exited = {}, !.faulting = k]
  OBVIOUS
<1>2. v \in Failures /\ GoTo(g)
  BY <1>0, <1>1 DEF Throw, Recoverable
<1>3. /\ g \in Frame /\ g.walk = "exception" /\ g.at = "walk" /\ g.error = v
      /\ g.phase = Top.phase /\ g.faulting = k /\ g.recovery = "none" /\ g.settled = Top.settled
  <2>1. 1 \in Nat \ {0} /\ {} \in SUBSET Site /\ v \in Failures \union {"none"}
    BY <1>2
  <2>2. QED
    BY <1>t, <1>1, <2>1 DEF Frame
<1>4. g.phase = "completion" => g.faulting = s
  BY <1>0, <1>3
<1>5. g \in Body
  BY <1>t, <1>2, <1>3, <1>4 DEF Body, Shaped, Frame
<1>6. QED
  BY <1>2, <1>3, <1>4, <1>5

\* A failed callback starts the exception rows or leaves the function.
LEMMA ThrowTyped ==
    ASSUME TreeInv, Running, tree' = tree, NEW v \in Results, NEW s \in Site, Throw(v, s)
    PROVE  StackOK'
<1>t. /\ stack \in Seq(Body) /\ Body' = Body
      /\ (StackOK' <=> stack' \in Seq(Body) /\ ret' \in Results \union {"none"})
  BY TypesNow, BodyKept DEF StackOK, Results, Failures
<1>1. CASE Recoverable(v)
  BY <1>1, <1>t, ThrowsTo, GoesTo
<1>2. CASE ~Recoverable(v)
  <2>1. Return(v)
    BY <1>2 DEF Throw
  <2>2. QED
    BY <1>t, <2>1, Returns
<1>3. QED
  BY <1>1, <1>2

\* What a call did, in its history.
LEMMA MarkTyped ==
    ASSUME TreeInv, NEW what \in SUBSET {"took", "changed", "fault"}, Mark(what)
    PROVE  /\ call' \in Calls
           /\ call'.event = call.event /\ call'.listed = call.listed
           /\ call'.offered = call.offered /\ call'.took = call.took
           /\ call'.did = call.did \union what
                 \union (IF Top.walk = "exception" /\ "took" \in what THEN {"caught"} ELSE {})
<1>1. call \in Calls
  BY TypesNow
<1>2. QED
  BY <1>1 DEF Mark, Calls

\* Sites that failed, in the history.
LEMMA BlameTyped ==
    ASSUME TreeInv, NEW s \in Site, NEW fresh, Blame(s, fresh)
    PROVE  failed' \subseteq Site
<1>1. failed \subseteq Site /\ {s} \subseteq Site
  BY TypesNow
<1>2. failed' = (failed \ fresh) \union {s} \/ failed' = (failed \ fresh) \union {}
  BY DEF Blame
<1>3. QED
  BY <1>1, <1>2

\* What a row leaves and enters are sites.
LEMMA SitesOfRow ==
    ASSUME tree \in Trees, NEW s \in Site, NEW row, NEW upto
    PROVE  /\ Under(s) \subseteq Site /\ Outgoing(s, row) \subseteq Site
           /\ Entered(s, row, upto) \subseteq Site
           /\ \A x : Below(x) \subseteq Site
<1>1. \A x : Composite(x) => tree.subtree[x] \subseteq Site
  BY TreeFits DEF Composite
<1>2. Under(s) \subseteq Site
  BY <1>1 DEF Under
<1>3. Outgoing(s, row) \subseteq Site
  BY <1>2 DEF Outgoing, ToExit
<1>4. Entered(s, row, upto) \subseteq Site
  <2>1. Enters(row) => Incoming(row.to) \subseteq Site
    BY <1>1 DEF Incoming, Enters
  <2>2. QED
    BY <2>1 DEF Entered
<1>5. QED
  BY <1>1, <1>2, <1>3, <1>4 DEF Below

\* Installing a state keeps the types of the sites.
LEMMA InstallTyped ==
    ASSUME TreeInv, NEW s \in Site, NEW i \in DOMAIN Rows(s), NEW upto,
           Install(s, Rows(s)[i], upto)
    PROVE  /\ slot' \in [Site -> State] /\ skip' \in [Site -> BOOLEAN]
           /\ exits' \in [Site -> 0..2] /\ unexited' \subseteq Site /\ astray' \subseteq Site
<1> DEFINE row     == Rows(s)[i]
           entered == Entered(s, row, upto)
           gone    == Outgoing(s, row)
           reset   == {u \in Site : \E v \in entered \ {s} : tree.node[u] = tree.node[v]}
           strays  == astray \union Below(row.to) \union PassedBy(row)
<1>t. /\ tree \in Trees /\ slot \in [Site -> State] /\ skip \in [Site -> BOOLEAN]
      /\ exits \in [Site -> 0..2] /\ astray \subseteq Site /\ row.to \in State
      /\ \A u \in Site : tree.initial[u] \in State
  BY TypesNow, RowTyped, TreeFits DEF Row
<1>1. /\ slot' = [u \in Site |-> IF u = s THEN row.to
                                 ELSE IF u \in reset THEN OnEntry(u) ELSE slot[u]]
      /\ skip' = [u \in Site |-> u \notin entered /\ (skip[u] \/ u \in gone)]
      /\ exits' = [u \in Site |-> IF u \in entered THEN 0
                                  ELSE IF u \in gone THEN Once(exits[u]) ELSE exits[u]]
      /\ unexited' \subseteq {s} \union Under(s)
      /\ astray' = strays \union entered \/ astray' = strays \ entered
  BY DEF Install
<1>2. entered \subseteq Site /\ strays \subseteq Site /\ Under(s) \subseteq Site
  BY <1>t, SitesOfRow DEF PassedBy
<1>3. \A u \in Site : OnEntry(u) \in State
  BY <1>t DEF OnEntry
<1>4. \A n \in 0..2 : Once(n) \in 0..2
  BY DEF Once
<1> HIDE DEF row, entered, gone, reset, strays
<1>5. slot' \in [Site -> State]
  BY <1>t, <1>1, <1>3
<1>6. skip' \in [Site -> BOOLEAN]
  BY <1>1
<1>7. exits' \in [Site -> 0..2]
  BY <1>t, <1>1, <1>4
<1>8. QED
  BY <1>1, <1>2, <1>5, <1>6, <1>7

\* Running exits keeps the types of the sites.
LEMMA ExitsTyped ==
    ASSUME TreeInv, NEW gone, RunExits(gone),
           skip' = [s \in Site |-> skip[s] \/ s \in gone]
    PROVE  skip' \in [Site -> BOOLEAN] /\ exits' \in [Site -> 0..2]
<1>1. exits \in [Site -> 0..2] /\ exits' = [s \in Site |-> IF s \in gone THEN Once(exits[s]) ELSE exits[s]]
  BY TypesNow DEF RunExits
<1>2. \A n \in 0..2 : Once(n) \in 0..2
  BY DEF Once
<1>3. QED
  BY <1>1, <1>2

\* The queue.
LEMMA QueueOps ==
    ASSUME TreeInv
    PROVE  /\ \A e \in Event : HasRoom => /\ Append(deferred, e) \in Seq(Event)
                                          /\ Len(Append(deferred, e)) <= Capacity
                                          /\ Len(Append(deferred, e)) >= Len(deferred)
           /\ deferred # << >> => /\ Head(deferred) \in Event /\ Tail(deferred) \in Seq(Event)
                                  /\ Len(Tail(deferred)) = Len(deferred) - 1
                                  /\ Len(Tail(deferred)) <= Capacity /\ Len(deferred) >= 1
<1>1. Capacity \in Nat /\ deferred \in Seq(Event) /\ Len(deferred) \in Nat /\ Len(deferred) <= Capacity
  BY TypesNow, TreeAssumption
<1>2. ASSUME NEW e \in Event, HasRoom
      PROVE  /\ Append(deferred, e) \in Seq(Event) /\ Len(Append(deferred, e)) <= Capacity
             /\ Len(Append(deferred, e)) >= Len(deferred)
  BY <1>1, <1>2 DEF HasRoom
<1>3. ASSUME deferred # << >>
      PROVE  /\ Head(deferred) \in Event /\ Tail(deferred) \in Seq(Event)
             /\ Len(Tail(deferred)) = Len(deferred) - 1
             /\ Len(Tail(deferred)) <= Capacity /\ Len(deferred) >= 1
  BY <1>1, <1>3
<1>4. QED
  BY <1>2, <1>3

\* The stack after each move.
LEMMA MoveTyped ==
    ASSUME TreeInv, Running, tree' = tree,
           \/ \E g \in Body : GoTo(g)
           \/ \E g, c \in Body : Enter(g, c)
           \/ \E v \in Results : Return(v)
    PROVE  StackOK'
<1>1. stack \in Seq(Body) /\ Body' = Body
  BY TypesNow, BodyKept
<1>2. StackOK' <=> stack' \in Seq(Body) /\ ret' \in Results \union {"none"}
  BY <1>1 DEF StackOK, Results, Failures
<1>3. ASSUME NEW g \in Body, GoTo(g) PROVE StackOK'
  BY <1>1, <1>2, <1>3, GoesTo
<1>4. ASSUME NEW g \in Body, NEW c \in Body, Enter(g, c) PROVE StackOK'
  BY <1>1, <1>2, <1>4, CallsOut
<1>5. ASSUME NEW v \in Results, Return(v) PROVE StackOK'
  BY <1>1, <1>2, <1>5, Returns
<1>6. QED
  BY <1>3, <1>4, <1>5

\* A walk goes on behind a stop.
LEMMA GoesBehind ==
    ASSUME NEW g \in Body, g.at = "walk", NEW p \in Nat \ {0}
    PROVE  /\ [g EXCEPT !.pos = p + 1] \in Body
           /\ \A x \in {"walk", "phase", "error", "at", "took", "recovery", "origin", "settled",
                        "exited", "faulting", "via", "event"} :
                  [g EXCEPT !.pos = p + 1][x] = g[x]
           /\ [g EXCEPT !.pos = p + 1].pos = p + 1
<1>1. p + 1 \in Nat \ {0}
  OBVIOUS
<1>2. PICK h : h = [g EXCEPT !.pos = p + 1]
  OBVIOUS
<1>3. /\ h \in Frame /\ h.walk = g.walk /\ h.phase = g.phase /\ h.error = g.error
      /\ h.faulting = g.faulting /\ h.at = g.at /\ h.pos = p + 1
      /\ \A x \in {"walk", "phase", "error", "at", "took", "recovery", "origin", "settled",
                   "exited", "faulting", "via", "event"} : h[x] = g[x]
  BY <1>1, <1>2 DEF Frame, Body
<1>4. h \in Body
  BY <1>3 DEF Body, Shaped
<1>5. QED
  BY <1>2, <1>3, <1>4

\* A row is in progress at a stop.
LEMMA InRow ==
    ASSUME tree \in Trees, Top \in Body, NEW p \in Stops, NEW i \in DOMAIN Rows(Here(p))
    PROVE  /\ [Top EXCEPT !.pos = p, !.row = i, !.at = "process",
                          !.todo = Rows(Here(p))[i].process] \in Body
<1>1. Top \in Frame /\ Shaped(Top)
  BY DEF Body
<1>2. p \in DOMAIN Order(Top.walk) /\ p \in Nat \ {0} /\ Here(p) \in Site
  BY <1>1, StopTyped
<1>3. Rows(Here(p))[i].process \in Seq(Event) /\ i \in Nat
  BY <1>2, RowTyped DEF Row
<1>4. PICK q \in Seq(Event) : q = Rows(Here(p))[i].process
  BY <1>3
<1>5. PICK h : h = [Top EXCEPT !.pos = p, !.row = i, !.at = "process", !.todo = q]
  OBVIOUS
<1>6. /\ h \in Frame /\ h.walk = Top.walk /\ h.phase = Top.phase /\ h.error = Top.error
      /\ h.faulting = Top.faulting /\ h.at = "process" /\ h.pos = p /\ h.row = i
  BY <1>1, <1>2, <1>3, <1>5 DEF Frame
<1>7. h \in Body
  BY <1>1, <1>2, <1>6 DEF Body, Shaped, Here
<1>8. QED
  BY <1>4, <1>5, <1>7

\* The owner's calls keep the types.
LEMMA OwnerTyped ==
    ASSUME TreeInv,
           \/ \E e \in Event : process_event(e)
           \/ initialize
           \/ \E n \in DOMAIN tree.rows : set_states(n)
    PROVE  TreeInv'
<1>t. /\ tree \in Trees /\ call \in Calls /\ {} \in SUBSET Site
      /\ deferred \in Seq(Event) /\ Len(deferred) <= Capacity /\ stale \in 0..Len(deferred)
      /\ failed \subseteq Site /\ \A g \in Body : <<g>> \in Seq(Body)
  BY TypesNow
<1>1. ASSUME NEW e \in Event, process_event(e)
      PROVE  TreeInv'
  <2>1. /\ stack' = <<NewFrame(e, "call")>> /\ ret' = "none" /\ begun' = TRUE
        /\ failed' = {} /\ UNCHANGED <<tree, slotVars, queueVars>>
        /\ call' = [event |-> e, did |-> {}, listed |-> e \in current_events,
                    offered |-> Offered(e), took |-> {}]
    BY <1>1 DEF process_event
  <2>2. StackOK'
    BY <1>t, <2>1, FrameMade, BodyKept DEF StackOK, Results, Failures
  <2>3. call' \in Calls
    <3>1. Offered(e) \in SUBSET Site /\ (e \in current_events) \in BOOLEAN
      BY DEF Offered
    <3>2. QED
      BY <2>1, <3>1 DEF Calls
  <2>4. /\ slot' \in [Site -> State] /\ skip' \in [Site -> BOOLEAN] /\ exits' \in [Site -> 0..2]
        /\ unexited' \subseteq Site /\ astray' \subseteq Site
        /\ deferred' \in Seq(Event) /\ Len(deferred') <= Capacity /\ stale' \in 0..Len(deferred')
    BY <2>1, TypesNow DEF slotVars, queueVars
  <2>5. QED
    BY <2>1, <2>2, <2>3, <2>4, TypeParts
<1>2. CASE initialize
  <2>1. /\ begun' = TRUE /\ UNCHANGED <<tree, slotVars, failed, queueVars>>
        /\ \/ stack' = << >> /\ ret' = "ActionFailed" /\ call' = [call EXCEPT !.did = {"fault"}]
           \/ stack' = <<Stabilize(Wild, "call")>> /\ ret' = "none" /\ call' = call
    BY <1>2 DEF initialize
  <2>2. StackOK'
    <3>1. Stabilize(Wild, "call") \in Body /\ Body' = Body /\ << >> \in Seq(Body)
      BY <2>1, FrameMade, BodyKept
    <3>2. stack' \in Seq(Body)
      BY <1>t, <2>1, <3>1
    <3>3. QED
      BY <2>1, <3>1, <3>2 DEF StackOK, Results, Failures
  <2>3. call' \in Calls
    BY <1>t, <2>1 DEF Calls
  <2>4. /\ slot' \in [Site -> State] /\ skip' \in [Site -> BOOLEAN] /\ exits' \in [Site -> 0..2]
        /\ unexited' \subseteq Site /\ astray' \subseteq Site /\ failed' \subseteq Site
        /\ deferred' \in Seq(Event) /\ Len(deferred') <= Capacity /\ stale' \in 0..Len(deferred')
    BY <2>1, TypesNow DEF slotVars, queueVars
  <2>5. QED
    BY <2>1, <2>2, <2>3, <2>4, TypeParts
<1>3. ASSUME NEW n \in DOMAIN tree.rows, set_states(n)
      PROVE  TreeInv'
  <2>1. /\ tree' = tree /\ unexited' = unexited /\ failed' = failed /\ stack' = stack /\ call' = call
        /\ begun' = TRUE /\ ret' = "none" /\ UNCHANGED queueVars
        /\ slot' \in [Site -> State]
        /\ skip' = [s \in Site |-> skip[s] /\ tree.node[s] # n]
        /\ exits' = [s \in Site |-> IF tree.node[s] = n THEN 0 ELSE exits[s]]
        /\ astray' = astray \union tree.subtree[n]
    BY <1>3 DEF set_states
  <2>2. StackOK' /\ skip' \in [Site -> BOOLEAN]
    BY <2>1, TypesNow, BodyKept DEF StackOK
  <2>3. exits' \in [Site -> 0..2]
    BY <2>1, TypesNow
  <2>4. astray' \subseteq Site
    BY <1>t, <2>1, TypesNow, TreeFits
  <2>5. deferred' = deferred /\ stale' = stale
    BY <2>1 DEF queueVars
  <2>6. QED
    BY <2>1, <2>2, <2>3, <2>4, <2>5, TypesNow, TypeParts
<1>4. QED
  BY <1>1, <1>2, <1>3

\* Passing a site by, and a guard that fails.
LEMMA MissTyped ==
    ASSUME TreeInv, Walking, NEW p \in Stops, Miss(p) \/ GuardFails(p)
    PROVE  TreeInv'
<1>r. /\ Running /\ tree \in Trees /\ Top \in Body /\ Top \in Frame /\ Top.at = "walk"
      /\ call \in Calls /\ failed \subseteq Site
  BY TypesNow, StackTyped DEF Walking
<1>p. p \in Nat \ {0} /\ Here(p) \in Site
  BY <1>r, StopTyped
<1>1. CASE Miss(p)
  <2>1. GoTo([Top EXCEPT !.pos = p + 1]) /\ UNCHANGED <<tree, slotVars, failed, queueVars, begun, call>>
    BY <1>1 DEF Miss
  <2>2. StackOK'
    BY <1>r, <1>p, <2>1, GoesBehind, MoveTyped
  <2>3. QED
    BY <1>r, <2>1, <2>2, StackTouched
<1>2. CASE GuardFails(p)
  <2>1. /\ Throw("GuardFailed", Here(p)) /\ Mark({"fault"}) /\ Blame(Here(p), {})
        /\ UNCHANGED <<tree, slotVars, queueVars, begun>>
    BY <1>2 DEF GuardFails
  <2>2. StackOK'
    BY <1>r, <1>p, <2>1, ThrowTyped DEF Results, Failures
  <2>3. call' \in Calls /\ failed' \subseteq Site
    BY <1>p, <2>1, MarkTyped, BlameTyped
  <2>4. QED
    BY <2>1, <2>2, <2>3, StackTouched
<1>3. QED
  BY <1>1, <1>2

\* Taking a row, deferring its event or not.
LEMMA DefersTyped ==
    ASSUME TreeInv, Walking, tree' = tree, NEW p \in Stops, NEW i \in DOMAIN Rows(Here(p)),
           NEW what \in SUBSET {"took", "changed"}, Defers(p, i, what)
    PROVE  /\ StackOK' /\ call' \in Calls
           /\ deferred' \in Seq(Event) /\ Len(deferred') <= Capacity
           /\ Len(deferred') >= Len(deferred)
<1>r. /\ Running /\ tree \in Trees /\ Top \in Body /\ Top \in Frame
      /\ deferred \in Seq(Event) /\ Len(deferred) <= Capacity /\ Len(deferred) \in Nat
  BY TypesNow, StackTyped DEF Walking
<1>p. Here(p) \in Site
  BY <1>r, StopTyped
<1>1. CASE /\ Throw("QueueFull", Here(p)) /\ Mark(what \union {"fault"}) /\ UNCHANGED deferred
  BY <1>1, <1>r, <1>p, ThrowTyped, MarkTyped DEF Results
<1>2. CASE /\ Rows(Here(p))[i].defer => HasRoom
           /\ deferred' = IF Rows(Here(p))[i].defer THEN Append(deferred, Rows(Here(p))[i].event)
                                                    ELSE deferred
           /\ Proceed(p, i) /\ Mark(what)
  <2>1. StackOK'
    BY <1>2, <1>r, InRow, MoveTyped DEF Proceed
  <2>2. call' \in Calls
    BY <1>2, MarkTyped
  <2>3. /\ deferred' \in Seq(Event) /\ Len(deferred') <= Capacity
        /\ Len(deferred') >= Len(deferred)
    <3>1. CASE Rows(Here(p))[i].defer
      <4>1. Rows(Here(p))[i].event \in Event /\ HasRoom
        BY <1>2, <1>r, <1>p, <3>1, RowTyped
      <4>2. deferred' = Append(deferred, Rows(Here(p))[i].event)
        BY <1>2, <3>1
      <4>3. QED
        BY <4>1, <4>2, QueueOps
    <3>2. CASE ~Rows(Here(p))[i].defer
      BY <1>2, <1>r, <3>2
    <3>3. QED
      BY <3>1, <3>2
  <2>4. QED
    BY <2>1, <2>2, <2>3
<1>3. QED
  BY <1>1, <1>2 DEF Defers

\* A callback of the row fails: the queue is left alone.
LEMMA FailsTyped ==
    ASSUME TreeInv, Walking, tree' = tree, NEW p \in Stops, NEW i,
           Fails(p, "ActionFailed") \/ ActionsFail(p, i)
    PROVE  StackOK' /\ call' \in Calls /\ failed' \subseteq Site /\ UNCHANGED queueVars
<1>p. Running /\ Here(p) \in Site
  BY TypesNow, StackTyped, StopTyped DEF Walking
<1>1. PICK v \in Failures : Fails(p, v)
  BY DEF ActionsFail, Failures
<1>2. Throw(v, Here(p)) /\ Mark({"fault"}) /\ Blame(Here(p), {}) /\ UNCHANGED queueVars
  BY <1>1 DEF Fails
<1>3. v \in Results
  BY DEF Results
<1>4. QED
  BY <1>p, <1>2, <1>3, ThrowTyped, MarkTyped, BlameTyped

\* Taking a row keeps the types.
LEMMA TakeTyped ==
    ASSUME TreeInv, Walking, NEW p \in Stops, NEW i \in DOMAIN Rows(Here(p)),
           \/ TakeInternal(p, i) \/ ActionFails(p, i) \/ Move(p, i)
           \/ \E v \in Site : ExitFails(p, i, v) \/ EntryFails(p, i, v)
    PROVE  TreeInv'
<1>r. /\ Running /\ tree \in Trees /\ Top \in Body /\ Top \in Frame
      /\ deferred \in Seq(Event) /\ Len(deferred) <= Capacity /\ Len(deferred) \in Nat
      /\ stale \in 0..Len(deferred) /\ failed \subseteq Site /\ astray \subseteq Site
      /\ unexited \subseteq Site /\ slot \in [Site -> State] /\ begun \in BOOLEAN
  BY TypesNow, StackTyped DEF Walking
<1>p. Here(p) \in Site
  BY <1>r, StopTyped
<1>q. UNCHANGED queueVars => /\ deferred' \in Seq(Event) /\ Len(deferred') <= Capacity
                             /\ stale' \in 0..Len(deferred')
  <2>1. UNCHANGED queueVars => deferred' = deferred /\ stale' = stale
    BY DEF queueVars
  <2>2. QED
    BY <1>r, <2>1
<1>1. CASE TakeInternal(p, i)
  <2>1. UNCHANGED <<tree, slotVars, begun>>
    BY <1>1 DEF TakeInternal
  <2>2. CASE ActionsFail(p, i)
    BY <2>1, <2>2, FailsTyped, StackTouched
  <2>3. CASE Defers(p, i, {"took"}) /\ UNCHANGED <<stale, failed>>
    <3>1. /\ StackOK' /\ call' \in Calls /\ deferred' \in Seq(Event)
          /\ Len(deferred') <= Capacity /\ Len(deferred') >= Len(deferred)
      BY <2>1, <2>3, DefersTyped
    <3>2. stale' \in 0..Len(deferred') /\ failed' \subseteq Site
      BY <1>r, <2>3, <3>1
    <3>3. QED
      BY <2>1, <3>1, <3>2, TypeKept
  <2>4. QED
    BY <1>1, <2>2, <2>3 DEF TakeInternal
<1>2. CASE ActionFails(p, i)
  <2>1. /\ skip' = [s \in Site |-> skip[s] \/ s \in Outgoing(Here(p), Rows(Here(p))[i])]
        /\ RunExits(Outgoing(Here(p), Rows(Here(p))[i]))
        /\ ActionsFail(p, i) /\ UNCHANGED <<tree, slot, unexited, begun>>
        /\ astray' = astray \union PassedBy(Rows(Here(p))[i])
    BY <1>2 DEF ActionFails
  <2>2. skip' \in [Site -> BOOLEAN] /\ exits' \in [Site -> 0..2]
    BY <2>1, ExitsTyped
  <2>3. astray' \subseteq Site
    BY <1>r, <1>p, <2>1, SitesOfRow DEF PassedBy
  <2>4. StackOK' /\ call' \in Calls /\ failed' \subseteq Site /\ UNCHANGED queueVars
    BY <2>1, FailsTyped
  <2>5. QED
    BY <1>r, <1>q, <2>1, <2>2, <2>3, <2>4, TypeParts
<1>3. ASSUME NEW v \in Site, ExitFails(p, i, v)
      PROVE  TreeInv'
  <2>1. PICK before : before = {u \in Outgoing(Here(p), Rows(Here(p))[i]) : tree.exits[u] < tree.exits[v]}
    OBVIOUS
  <2>2. /\ skip' = [s \in Site |-> skip[s] \/ s \in before] /\ RunExits(before)
        /\ Fails(p, "ActionFailed") /\ UNCHANGED <<tree, slot, unexited, astray, begun>>
    BY <1>3, <2>1 DEF ExitFails
  <2>3. skip' \in [Site -> BOOLEAN] /\ exits' \in [Site -> 0..2]
    BY <2>2, ExitsTyped
  <2>4. StackOK' /\ call' \in Calls /\ failed' \subseteq Site /\ UNCHANGED queueVars
    BY <2>2, FailsTyped
  <2>5. QED
    BY <1>r, <1>q, <2>2, <2>3, <2>4, TypeParts
<1>4. CASE Move(p, i)
  <2>1. /\ Install(Here(p), Rows(Here(p))[i], LastRank)
        /\ failed' = failed \ Fresh(Rows(Here(p))[i], Entered(Here(p), Rows(Here(p))[i], LastRank))
        /\ stale' = Len(deferred) /\ Defers(p, i, {"took", "changed"}) /\ UNCHANGED <<tree, begun>>
    BY <1>4 DEF Move
  <2>2. /\ slot' \in [Site -> State] /\ skip' \in [Site -> BOOLEAN]
        /\ exits' \in [Site -> 0..2] /\ unexited' \subseteq Site /\ astray' \subseteq Site
    BY <1>p, <2>1, InstallTyped
  <2>3. /\ StackOK' /\ call' \in Calls /\ deferred' \in Seq(Event)
        /\ Len(deferred') <= Capacity /\ Len(deferred') >= Len(deferred)
    BY <2>1, DefersTyped
  <2>4. stale' \in 0..Len(deferred') /\ failed' \subseteq Site
    BY <1>r, <2>1, <2>3
  <2>5. QED
    BY <1>r, <2>1, <2>2, <2>3, <2>4, TypeParts
<1>5. ASSUME NEW v \in Site, EntryFails(p, i, v)
      PROVE  TreeInv'
  <2>1. PICK upto : /\ Install(Here(p), Rows(Here(p))[i], upto)
                    /\ Blame(Here(p), Fresh(Rows(Here(p))[i], Entered(Here(p), Rows(Here(p))[i], upto)))
    BY <1>5 DEF EntryFails
  <2>2. /\ stale' = Len(deferred) /\ Throw("ActionFailed", Here(p))
        /\ Mark({"took", "changed", "fault"}) /\ UNCHANGED <<tree, deferred, begun>>
    BY <1>5 DEF EntryFails
  <2>3. /\ slot' \in [Site -> State] /\ skip' \in [Site -> BOOLEAN]
        /\ exits' \in [Site -> 0..2] /\ unexited' \subseteq Site /\ astray' \subseteq Site
    BY <1>p, <2>1, InstallTyped
  <2>4. StackOK'
    BY <1>r, <1>p, <2>2, ThrowTyped DEF Results, Failures
  <2>5. call' \in Calls /\ failed' \subseteq Site
    BY <1>p, <2>1, <2>2, MarkTyped, BlameTyped
  <2>6. stale' \in 0..Len(deferred') /\ deferred' \in Seq(Event) /\ Len(deferred') <= Capacity
    BY <1>r, <2>2
  <2>7. QED
    BY <1>r, <2>2, <2>3, <2>4, <2>5, <2>6, TypeParts
<1>6. QED
  BY <1>1, <1>2, <1>3, <1>4, <1>5

\* Where the row in progress is.
LEMMA PlaceOfRow ==
    ASSUME tree \in Trees, Top \in Body, Top.at # "walk"
    PROVE  Place \in Site /\ Top.row \in DOMAIN Rows(Place) /\ Top.pos \in Nat \ {0}
<1>1. Top.pos \in DOMAIN Order(Top.walk) /\ Top.row \in DOMAIN Rows(Order(Top.walk)[Top.pos])
  BY DEF Body, Shaped
<1>2. QED
  BY <1>1, PlaceTyped DEF Place, Here

\* The function goes on with its walk when the row is done.
LEMMA RowEnds ==
    ASSUME tree \in Trees, Top \in Body, Top.at # "walk"
    PROVE  LET g == [Handled(Top, Place) EXCEPT !.row = 0]
           IN  /\ g \in Body /\ g.at = "walk" /\ g.walk = Top.walk
               /\ g.via = Top.via /\ g.event = Top.event /\ g.settled = Top.settled
               /\ g.origin = Top.origin /\ g.faulting = Top.faulting
               /\ g.pos = Top.pos + 1
               /\ Top.walk # "exception" => /\ g.took = Top.took \union {Place}
                                            /\ g.exited = Top.exited /\ g.recovery = Top.recovery
               /\ Top.walk = "exception" =>
                    /\ g.took = Top.took
                    /\ g.exited = IF tree.tracks /\ Moves(InProgress)
                                  THEN Top.exited \union RegionPath(Place) ELSE Top.exited
                    /\ g.recovery = IF Progress(Top, Place, InProgress) \/ Top.recovery = "moved"
                                    THEN "moved" ELSE "still"
<1>f. /\ Top \in Frame /\ Shaped(Top)
  BY DEF Body
<1>p. Place \in Site /\ Top.pos + 1 \in Nat \ {0} /\ 0 \in Nat
  BY PlaceOfRow
<1>q. RegionPath(Place) \subseteq Site
  BY <1>p, TreeFits DEF RegionPath
<1>1. PICK g : g = [Handled(Top, Place) EXCEPT !.row = 0]
  OBVIOUS
<1>2. CASE Top.walk # "exception"
  <2>1. PICK t \in SUBSET Site : t = Top.took \union {Place}
    BY <1>f, <1>p DEF Frame
  <2>2. PICK h : h = [Top EXCEPT !.took = t, !.at = "walk", !.pos = Top.pos + 1]
    OBVIOUS
  <2>3. /\ h \in Frame /\ h.at = "walk" /\ h.walk = Top.walk /\ h.phase = Top.phase
        /\ h.via = Top.via /\ h.event = Top.event /\ h.settled = Top.settled
        /\ h.origin = Top.origin /\ h.faulting = Top.faulting /\ h.error = Top.error
        /\ h.pos = Top.pos + 1 /\ h.took = t
        /\ h.exited = Top.exited /\ h.recovery = Top.recovery
    BY <1>f, <1>p, <2>2 DEF Frame
  <2>4. Handled(Top, Place) = h
    BY <1>2, <1>f, <2>1, <2>2 DEF Handled, Frame
  <2>5. g = [h EXCEPT !.row = 0]
    BY <1>1, <2>4
  <2>6. /\ g \in Frame /\ g.at = "walk" /\ g.walk = Top.walk /\ g.phase = Top.phase
        /\ g.via = Top.via /\ g.event = Top.event /\ g.settled = Top.settled
        /\ g.origin = Top.origin /\ g.faulting = Top.faulting /\ g.error = Top.error
        /\ g.pos = Top.pos + 1 /\ g.took = t
        /\ g.exited = Top.exited /\ g.recovery = Top.recovery
    BY <1>p, <2>3, <2>5 DEF Frame
  <2>7. g \in Body
    BY <1>f, <2>6 DEF Body, Shaped
  <2>8. QED
    BY <1>1, <1>2, <2>1, <2>6, <2>7
<1>3. CASE Top.walk = "exception"
  <2>1. PICK x \in SUBSET Site :
            x = IF tree.tracks /\ Moves(InProgress) THEN Top.exited \union RegionPath(Place)
                ELSE Top.exited
    BY <1>f, <1>q DEF Frame
  <2>2. PICK r \in {"none", "still", "moved"} :
            r = IF Progress(Top, Place, InProgress) \/ Top.recovery = "moved" THEN "moved" ELSE "still"
    OBVIOUS
  <2>3. PICK h : h = [Top EXCEPT !.at = "walk", !.pos = Top.pos + 1, !.exited = x, !.recovery = r]
    OBVIOUS
  <2>4. /\ h \in Frame /\ h.at = "walk" /\ h.walk = Top.walk /\ h.phase = Top.phase
        /\ h.via = Top.via /\ h.event = Top.event /\ h.settled = Top.settled
        /\ h.origin = Top.origin /\ h.faulting = Top.faulting /\ h.error = Top.error
        /\ h.pos = Top.pos + 1 /\ h.took = Top.took /\ h.exited = x /\ h.recovery = r
    BY <1>f, <1>p, <2>3 DEF Frame
  <2>5. Handled(Top, Place) = h
    BY <1>3, <1>f, <2>1, <2>2, <2>3 DEF Handled, Frame, InProgress
  <2>6. g = [h EXCEPT !.row = 0]
    BY <1>1, <2>5
  <2>7. /\ g \in Frame /\ g.at = "walk" /\ g.walk = Top.walk /\ g.phase = Top.phase
        /\ g.via = Top.via /\ g.event = Top.event /\ g.settled = Top.settled
        /\ g.origin = Top.origin /\ g.faulting = Top.faulting /\ g.error = Top.error
        /\ g.pos = Top.pos + 1 /\ g.took = Top.took /\ g.exited = x /\ g.recovery = r
    BY <1>p, <2>4, <2>6 DEF Frame
  <2>8. g \in Body
    BY <1>f, <2>7 DEF Body, Shaped
  <2>9. QED
    BY <1>1, <1>3, <2>1, <2>2, <2>7, <2>8
<1>4. QED
  BY <1>2, <1>3

\* A row in progress: its next process(...) event, and its drain.
LEMMA RowGoesOn ==
    ASSUME Top \in Body, Top.at # "walk"
    PROVE  /\ Top.todo # << >> => [Top EXCEPT !.todo = Tail(@)] \in Body /\ Head(Top.todo) \in Event
           /\ Top.at = "process" /\ Drains(InProgress) => [Top EXCEPT !.at = "drain"] \in Body
<1>f. Top \in Frame /\ Shaped(Top)
  BY DEF Body
<1>1. ASSUME Top.todo # << >>
      PROVE  [Top EXCEPT !.todo = Tail(@)] \in Body /\ Head(Top.todo) \in Event
  <2>1. Top.todo \in Seq(Event)
    BY <1>f DEF Frame
  <2>2. Tail(Top.todo) \in Seq(Event) /\ Head(Top.todo) \in Event
    BY <1>1, <2>1
  <2>3. PICK q \in Seq(Event) : q = Tail(Top.todo)
    BY <2>2
  <2>4. PICK h : h = [Top EXCEPT !.todo = q]
    OBVIOUS
  <2>5. /\ h \in Frame /\ h.walk = Top.walk /\ h.phase = Top.phase /\ h.error = Top.error
        /\ h.faulting = Top.faulting /\ h.at = Top.at /\ h.pos = Top.pos /\ h.row = Top.row
    BY <1>f, <2>4 DEF Frame
  <2>6. h \in Body
    BY <1>f, <2>5 DEF Body, Shaped
  <2>7. QED
    BY <2>2, <2>3, <2>4, <2>6
<1>2. ASSUME Top.at = "process", Drains(InProgress)
      PROVE  [Top EXCEPT !.at = "drain"] \in Body
  <2>1. PICK h : h = [Top EXCEPT !.at = "drain"]
    OBVIOUS
  <2>2. /\ h \in Frame /\ h.walk = Top.walk /\ h.phase = Top.phase /\ h.error = Top.error
        /\ h.faulting = Top.faulting /\ h.at = "drain" /\ h.pos = Top.pos /\ h.row = Top.row
    BY <1>f, <2>1 DEF Frame
  <2>3. h \in Body
    BY <1>f, <1>2, <2>2 DEF Body, Shaped, Drains, InProgress, Place, Here
  <2>4. QED
    BY <2>1, <2>3
<1>3. QED
  BY <1>1, <1>2

\* History of the calls a row makes, and of the sites that handled a call.
LEMMA HistoryTyped ==
    ASSUME TreeInv
    PROVE  /\ [call EXCEPT !.did = @ \union {"nested"}] \in Calls
           /\ \A s \in Site : [call EXCEPT !.took = @ \union {s}] \in Calls
<1>1. call \in Calls
  BY TypesNow
<1>2. call.did \union {"nested"} \in SUBSET {"took", "changed", "fault", "caught", "nested"}
  BY <1>1 DEF Calls
<1>3. \A s \in Site : call.took \union {s} \in SUBSET Site
  BY <1>1 DEF Calls
<1>4. QED
  BY <1>1, <1>2, <1>3 DEF Calls

\* The end of a row.
LEMMA DoneTyped ==
    ASSUME TreeInv, Running, Top.at # "walk", tree' = tree, RowDone
    PROVE  StackOK' /\ call' \in Calls
<1>r. tree \in Trees /\ Top \in Body /\ call \in Calls
  BY TypesNow, StackTyped
<1>1. StackOK'
  <2>1. PICK g : g = [Handled(Top, Place) EXCEPT !.row = 0]
    OBVIOUS
  <2>2. g \in Body
    BY <1>r, <2>1, RowEnds
  <2>3. GoTo(g)
    BY <2>1 DEF RowDone
  <2>4. QED
    BY <2>2, <2>3, MoveTyped
<1>2. call' \in Calls
  <2>1. call' = call \/ call' = [call EXCEPT !.took = @ \union {Place}]
    BY DEF RowDone
  <2>2. QED
    BY <1>r, <2>1, PlaceOfRow, HistoryTyped
<1>3. QED
  BY <1>1, <1>2

\* The steps of a row after its action.
LEMMA RowTypedOn ==
    ASSUME TreeInv, ProcessNext \/ ProcessDone \/ DrainNext \/ DrainDone
    PROVE  TreeInv'
<1>r. /\ Running /\ tree \in Trees /\ Top \in Body /\ Top.at # "walk" /\ call \in Calls
      /\ failed \subseteq Site /\ UNCHANGED <<tree, slotVars, begun>> /\ tree' = tree
      /\ Place \in Site
  BY TypesNow, StackTyped, PlaceOfRow
     DEF ProcessNext, ProcessDone, DrainNext, DrainDone, Idle, Resumed, StateKeeps
<1>d. /\ deferred \in Seq(Event) /\ Len(deferred) <= Capacity /\ Len(deferred) \in Nat
      /\ stale \in 0..Len(deferred)
  BY TypesNow
<1>1. ASSUME NEW f \in Body, NEW e \in Event, NEW via \in {"process", "retry"}, Nest(f, e, via)
      PROVE  StackOK' /\ call' \in Calls
  <2>1. NewFrame(e, via) \in Body
    BY FrameMade
  <2>2. Enter(f, NewFrame(e, via)) /\ call' = [call EXCEPT !.did = @ \union {"nested"}]
    BY <1>1 DEF Nest
  <2>3. StackOK'
    BY <1>r, <2>1, <2>2, MoveTyped
  <2>4. QED
    BY <2>2, <2>3, HistoryTyped
<1>2. CASE ProcessNext
  <2>1. StackOK' /\ call' \in Calls
    <3>1. CASE /\ Top.todo # << >>
               /\ Nest([Top EXCEPT !.todo = Tail(@)], Head(Top.todo), "process")
      BY <1>r, <1>1, <3>1, RowGoesOn
    <3>2. CASE Drains(InProgress) /\ GoTo([Top EXCEPT !.at = "drain"]) /\ UNCHANGED call
      BY <1>2, <1>r, <3>2, RowGoesOn, MoveTyped DEF ProcessNext, Idle
    <3>3. CASE RowDone
      BY <1>r, <3>3, DoneTyped
    <3>4. QED
      BY <1>2, <3>1, <3>2, <3>3 DEF ProcessNext
  <2>2. UNCHANGED queueVars /\ failed' = failed
    BY <1>2 DEF ProcessNext
  <2>3. QED
    BY <1>r, <2>1, <2>2, StackTouched
<1>3. CASE ProcessDone \/ DrainDone
  <2>1. /\ ret \in Results /\ UNCHANGED <<queueVars, call>>
        /\ \/ GoTo(Top) /\ failed' = failed
           \/ Throw(ret, Place) /\ Blame(Place, {})
    BY <1>3, TypesNow DEF ProcessDone, DrainDone, Resumed
  <2>2. StackOK' /\ failed' \subseteq Site
    BY <1>r, <2>1, MoveTyped, ThrowTyped, BlameTyped
  <2>3. QED
    BY <1>r, <2>1, <2>2, StackTouched
<1>4. CASE DrainNext
  <2>1. failed' = failed
    BY <1>4 DEF DrainNext
  <2>2. CASE deferred # << >>
    <3>1. /\ deferred' = Tail(deferred) /\ stale' = (IF stale = 0 THEN 0 ELSE stale - 1)
          /\ Nest(Top, Head(deferred), "retry")
      BY <1>4, <2>2 DEF DrainNext
    <3>2. /\ Head(deferred) \in Event /\ Tail(deferred) \in Seq(Event)
          /\ Len(Tail(deferred)) = Len(deferred) - 1
          /\ Len(Tail(deferred)) <= Capacity /\ Len(deferred) >= 1
      BY <2>2, QueueOps
    <3>3. StackOK' /\ call' \in Calls
      BY <1>1, <1>r, <3>1, <3>2
    <3>4. stale' \in 0..Len(deferred')
      BY <1>d, <3>1, <3>2
    <3>5. QED
      BY <1>r, <2>1, <3>1, <3>2, <3>3, <3>4, TypeKept
  <2>3. CASE deferred = << >>
    <3>1. RowDone /\ UNCHANGED queueVars
      BY <1>4, <2>3 DEF DrainNext
    <3>2. StackOK' /\ call' \in Calls
      BY <1>r, <3>1, DoneTyped
    <3>3. QED
      BY <1>r, <2>1, <3>1, <3>2, StackTouched
  <2>4. QED
    BY <2>2, <2>3
<1>5. QED
  BY <1>2, <1>3, <1>4

\* Completions from the innermost site on.
LEMMA Restarts ==
    ASSUME NEW g \in Frame, g.at = "walk", NEW o \in Event \union {Wild}, NEW S \in SUBSET Site
    PROVE  /\ Restart(g, o, S) \in Body
           /\ Restart(g, o, S).walk = "completion" /\ Restart(g, o, S).at = "walk"
           /\ Restart(g, o, S).took = {} /\ Restart(g, o, S).pos = 1
           /\ Restart(g, o, S).settled = S /\ Restart(g, o, S).origin = o
           /\ Restart(g, o, S).via = g.via
<1>1. 1 \in Nat \ {0} /\ {} \in SUBSET Site /\ 0 \in Site \union {0}
  OBVIOUS
<1>2. PICK h : h = Restart(g, o, S)
  OBVIOUS
<1>3. /\ h \in Frame /\ h.walk = "completion" /\ h.phase = "completion" /\ h.at = "walk"
      /\ h.took = {} /\ h.pos = 1 /\ h.settled = S /\ h.origin = o /\ h.via = g.via
  BY <1>1, <1>2 DEF Restart, Frame
<1>4. h \in Body
  BY <1>3 DEF Body, Shaped
<1>5. QED
  BY <1>2, <1>3, <1>4

\* The steps at the end of a walk.
LEMMA EndTyped ==
    ASSUME TreeInv, EventEnds \/ CompletionEnds \/ ExceptionEnds
    PROVE  TreeInv'
<1>r. /\ Running /\ tree \in Trees /\ Top \in Body /\ Top \in Frame /\ Shaped(Top) /\ call \in Calls
      /\ Top.at = "walk" /\ failed \subseteq Site
      /\ UNCHANGED <<tree, slotVars, begun, queueVars>> /\ tree' = tree
      /\ call' = call /\ failed' = failed
  BY TypesNow, StackTyped
     DEF EventEnds, CompletionEnds, ExceptionEnds, WalkEnds, Walking, StateKeeps
<1>w. /\ Top.event \in Event \union {Wild} /\ Top.origin \in Event \union {Wild}
      /\ Wild \in Event \union {Wild} /\ {} \in SUBSET Site /\ Top.settled \in SUBSET Site
      /\ {"InvalidEvent", "ok"} \union Failures \subseteq Results
  BY <1>r DEF Frame, Results
<1>1. CASE EventEnds
  <2>1. Return("InvalidEvent") \/ GoTo(Restart(Top, Top.event, {}))
    BY <1>1 DEF EventEnds
  <2>2. StackOK'
    BY <1>r, <1>w, <2>1, Restarts, MoveTyped
  <2>3. QED
    BY <1>r, <2>2, StackTouched
<1>2. CASE CompletionEnds
  <2>1. Return("ok") \/ GoTo(Restart(Top, Top.origin, Top.settled))
    BY <1>2 DEF CompletionEnds
  <2>2. StackOK'
    BY <1>r, <1>w, <2>1, Restarts, MoveTyped
  <2>3. QED
    BY <1>r, <2>2, StackTouched
<1>3. CASE ExceptionEnds
  <2>1. /\ Top.walk = "exception" /\ Top.error \in Failures
        /\ Top.phase = "completion" => Settled(Top) \in SUBSET Site
    BY <1>3, <1>r, <1>w DEF ExceptionEnds, Shaped, Settled
  <2>2. \/ Return(Top.error) \/ Return("ok")
        \/ GoTo(Restart(Top, Wild, {}))
        \/ \E o \in {Wild, Top.origin} : Top.phase = "completion" /\ GoTo(Restart(Top, o, Settled(Top)))
    BY <1>3 DEF ExceptionEnds
  <2>3. StackOK'
    <3>1. CASE \E v \in Results : Return(v)
      BY <1>r, <3>1, MoveTyped
    <3>2. CASE GoTo(Restart(Top, Wild, {}))
      BY <1>r, <1>w, <3>2, Restarts, MoveTyped
    <3>3. ASSUME NEW o \in {Wild, Top.origin}, Top.phase = "completion",
                 GoTo(Restart(Top, o, Settled(Top)))
          PROVE  StackOK'
      BY <1>r, <1>w, <2>1, <3>3, Restarts, MoveTyped
    <3>4. QED
      BY <1>w, <2>1, <2>2, <3>1, <3>2, <3>3
  <2>4. QED
    BY <1>r, <2>3, StackTouched
<1>4. QED
  BY <1>1, <1>2, <1>3

\* What a step of a walk is: a site is passed by, its guard fails, or one of
\* its rows is taken, whatever of it fails.
LEMMA TryCases ==
    ASSUME TreeInv, Walking, NEW p \in Stops, Try(p)
    PROVE  \/ Miss(p) \/ GuardFails(p)
           \/ \E i \in DOMAIN Rows(Here(p)) :
                /\ i \in Candidates(Top, Here(p))
                /\ \/ TakeInternal(p, i) \/ ActionFails(p, i) \/ Move(p, i)
                   \/ \E v \in Site : ExitFails(p, i, v) \/ EntryFails(p, i, v)
<1>1. tree \in Trees /\ Top \in Frame
  BY TypesNow, StackTyped DEF Walking
<1>2. \A i \in Reached(p) : i \in Candidates(Top, Here(p)) /\ i \in DOMAIN Rows(Here(p))
  BY <1>1, StopTyped, CandidateIsRow
<1>3. QED
  BY <1>2 DEF Try

\* Every step of the engine and of its owner keeps the types.
LEMMA StepTyped ==
    ASSUME TreeInv, [Next]_vars
    PROVE  TreeInv'
<1>1. CASE UNCHANGED vars
  <2>1. /\ tree' = tree /\ UNCHANGED <<slotVars, queueVars>> /\ failed' = failed /\ stack' = stack
        /\ ret' = ret /\ begun' = begun /\ call' = call
    BY <1>1 DEF vars
  <2>2. StackOK'
    BY <2>1, TypesNow, BodyKept DEF StackOK, Results, Failures
  <2>3. QED
    BY <2>1, <2>2, TypesNow, StackTouched
<1>2. CASE Step
  <2>1. ASSUME Walking, NEW p \in Stops, Try(p) PROVE TreeInv'
    BY <2>1, TryCases, MissTyped, TakeTyped
  <2>2. QED
    BY <1>2, <2>1, EndTyped, RowTypedOn DEF Step
<1>3. QED
  BY <1>1, <1>2, OwnerTyped DEF Next

\* A fresh machine.
LEMMA TypeInit == Init => TreeInv
<1> SUFFICES ASSUME Init PROVE TreeInv
  OBVIOUS
<1>1. /\ tree \in Trees /\ slot = [s \in Site |-> tree.initial[s]] /\ skip = [s \in Site |-> FALSE]
      /\ deferred = << >> /\ stack = << >> /\ ret = "none" /\ begun = FALSE
      /\ exits = [s \in Site |-> 0] /\ unexited = {} /\ astray = {} /\ failed = {} /\ stale = 0
      /\ call = [event |-> Wild, did |-> {}, listed |-> FALSE, offered |-> {}, took |-> {}]
  BY DEF Init
<1>2. slot \in [Site -> State]
  BY <1>1, TreeFits
<1>3. << >> \in Seq(Event) /\ << >> \in Seq(Frame) /\ << >> \in Seq(Body) /\ Len(<< >>) = 0
      /\ Capacity \in Nat /\ 0 \in 0..0
  BY TreeAssumption
<1>4. stack \in Seq(Frame) /\ stack \in Seq(Body) /\ deferred \in Seq(Event)
      /\ Len(deferred) <= Capacity /\ stale \in 0..Len(deferred)
  BY <1>1, <1>3
<1>5. call \in Calls
  BY <1>1 DEF Calls
<1>6. skip \in [Site -> BOOLEAN] /\ exits \in [Site -> 0..2] /\ unexited \subseteq Site
      /\ astray \subseteq Site /\ failed \subseteq Site /\ begun \in BOOLEAN
  <2>1. [s \in Site |-> FALSE] \in [Site -> BOOLEAN]
    OBVIOUS
  <2>2. [s \in Site |-> 0] \in [Site -> 0..2]
    OBVIOUS
  <2>3. skip \in [Site -> BOOLEAN] /\ exits \in [Site -> 0..2]
    BY <1>1, <2>1, <2>2
  <2>4. begun \in BOOLEAN
    BY <1>1
  <2>5. QED
    BY <1>1, <2>3, <2>4
<1>7. ret \in Results \union {"none"}
  BY <1>1
<1> HIDE DEF Init
<1>8. TypeOK
  BY <1>2, <1>4, <1>5, <1>6, <1>7, <1>3, <1>1 DEF TypeOK, Calls
<1>9. QED
  BY <1>8, <1>1, <1>4 DEF TreeInv

\* The types of every state: the deferred queue keeps to its capacity, and a
\* function in the middle of a row is at a site of its walk, in a row of that
\* site's table, for every tree whose parts fit together.
THEOREM WellTyped == Spec => []TypeOK
<1>1. TreeInv /\ [Next]_vars => TreeInv'
  BY StepTyped
<1>2. TreeInv => TypeOK
  BY DEF TreeInv
<1>3. QED
  BY <1>1, <1>2, TypeInit, PTL DEF Spec

-----------------------------------------------------------------------------
(* Failures reach the caller.                                              *)

\* Errors that are not a rejection.
Broken == Failures \union {"QueueFull"}

\* Before the first call nothing was asked of the machine.
Unbegun == ~begun => ~Running /\ call.did = {} /\ call.event = Wild

\* A fault no exception row caught.
Hidden(did) == "fault" \in did /\ "caught" \notin did

\* Where such a fault is: returned to the caller of a function, or in the walk
\* of the exception rows, which has caught nothing yet.
Surfacing ==
    Hidden(call.did) =>
        \/ ret \in Broken
        \/ ret = "none" /\ (Running => /\ Top.walk = "exception" /\ Top.at = "walk"
                                      /\ Top.recovery = "none")

\* The engine runs in every step of its own, and forgets no call.
LEMMA StepFoot ==
    ASSUME Step
    PROVE  Running /\ begun' = begun /\ tree' = tree
<1>1. ASSUME NEW p \in Stops, Try(p) PROVE begun' = begun /\ tree' = tree
  <2>1. CASE Miss(p) \/ GuardFails(p)
    BY <2>1 DEF Miss, GuardFails
  <2>2. CASE \E i \in Reached(p) :
               \/ TakeInternal(p, i) \/ ActionFails(p, i) \/ Move(p, i)
               \/ \E v \in Site : ExitFails(p, i, v) \/ EntryFails(p, i, v)
    BY <2>2 DEF TakeInternal, ActionFails, Move, ExitFails, EntryFails
  <2>3. QED
    BY <1>1, <2>1, <2>2 DEF Try
<1>2. CASE Walking /\ \E p \in Stops : Try(p)
  BY <1>1, <1>2 DEF Walking
<1>3. CASE EventEnds \/ CompletionEnds \/ ExceptionEnds
  BY <1>3 DEF EventEnds, CompletionEnds, ExceptionEnds, WalkEnds, Walking, StateKeeps
<1>4. CASE ProcessNext \/ ProcessDone \/ DrainNext \/ DrainDone
  BY <1>4 DEF ProcessNext, ProcessDone, DrainNext, DrainDone, Idle, Resumed, StateKeeps
<1>5. QED
  BY <1>2, <1>3, <1>4 DEF Step

\* The first call of any kind is the last moment for initialize.
LEMMA UnbegunKept == ASSUME Unbegun, [Next]_vars PROVE Unbegun'
<1>1. CASE UNCHANGED vars
  BY <1>1 DEF vars, Unbegun, Running
<1>2. CASE Step
  BY <1>2, StepFoot DEF Unbegun
<1>3. CASE \/ \E e \in Event : process_event(e)
           \/ initialize \/ \E n \in DOMAIN tree.rows : set_states(n)
  BY <1>3 DEF process_event, initialize, set_states, Unbegun
<1>4. QED
  BY <1>1, <1>2, <1>3 DEF Next

\* What may become of a row: an error is thrown, or the row went on to its
\* process(...) events.
LEMMA Taken ==
    ASSUME NEW p, NEW i,
           \/ TakeInternal(p, i) \/ ActionFails(p, i) \/ Move(p, i)
           \/ \E v \in Site : ExitFails(p, i, v) \/ EntryFails(p, i, v)
    PROVE  \/ \E v \in Broken, what \in SUBSET {"took", "changed", "fault"} :
                 Throw(v, Here(p)) /\ Mark(what) /\ "fault" \in what
           \/ Proceed(p, i) /\ Mark({"took"}) /\ Rows(Here(p))[i].internal
                 /\ UNCHANGED slotVars
           \/ Proceed(p, i) /\ Mark({"took", "changed"}) /\ ~Rows(Here(p))[i].internal
                 /\ Move(p, i)
<1>1. ASSUME NEW v \in Failures, Fails(p, v)
      PROVE  \E w \in Broken, what \in SUBSET {"took", "changed", "fault"} :
                 Throw(w, Here(p)) /\ Mark(what) /\ "fault" \in what
  <2>1. Throw(v, Here(p)) /\ Mark({"fault"}) /\ v \in Broken
    BY <1>1 DEF Fails, Broken
  <2>2. QED
    BY <2>1
<1>2. ASSUME NEW done \in SUBSET {"took", "changed"}, Defers(p, i, done)
      PROVE  \/ \E w \in Broken, what \in SUBSET {"took", "changed", "fault"} :
                   Throw(w, Here(p)) /\ Mark(what) /\ "fault" \in what
             \/ Proceed(p, i) /\ Mark(done)
  <2>1. \/ Throw("QueueFull", Here(p)) /\ Mark(done \union {"fault"})
        \/ Proceed(p, i) /\ Mark(done)
    BY <1>2 DEF Defers
  <2>2. done \union {"fault"} \in SUBSET {"took", "changed", "fault"} /\ "QueueFull" \in Broken
    BY DEF Broken
  <2>3. QED
    BY <2>1, <2>2
<1>3. CASE TakeInternal(p, i)
  <2>1. Rows(Here(p))[i].internal /\ UNCHANGED slotVars
    BY <1>3 DEF TakeInternal, Takes
  <2>2. (\E v \in Failures : Fails(p, v)) \/ Defers(p, i, {"took"})
    BY <1>3 DEF TakeInternal, ActionsFail
  <2>3. QED
    BY <1>1, <1>2, <2>1, <2>2
<1>4. CASE ActionFails(p, i)
  BY <1>1, <1>4 DEF ActionFails, ActionsFail
<1>5. CASE Move(p, i)
  <2>1. ~Rows(Here(p))[i].internal /\ Defers(p, i, {"took", "changed"})
    BY <1>5 DEF Move, Takes
  <2>2. QED
    BY <1>2, <1>5, <2>1
<1>6. ASSUME NEW v \in Site, ExitFails(p, i, v)
      PROVE  Fails(p, "ActionFailed")
  BY <1>6 DEF ExitFails
<1>7. ASSUME NEW v \in Site, EntryFails(p, i, v)
      PROVE  Throw("ActionFailed", Here(p)) /\ Mark({"took", "changed", "fault"})
  BY <1>7 DEF EntryFails
<1>8. "ActionFailed" \in Failures /\ "ActionFailed" \in Broken
  BY DEF Failures, Broken
<1>9. QED
  BY <1>1, <1>3, <1>4, <1>5, <1>6, <1>7, <1>8

\* An error that is thrown is on its way up.
LEMMA Raised ==
    ASSUME TreeInv, Running, NEW v \in Broken, NEW s \in Site, Throw(v, s)
    PROVE  Surfacing'
<1>t. stack \in Seq(Body)
  BY TypesNow
<1>1. CASE Recoverable(v)
  <2>1. PICK g \in Body : /\ GoTo(g) /\ g.walk = "exception" /\ g.at = "walk"
                          /\ g.recovery = "none"
    BY <1>1, <1>t, ThrowsTo
  <2>2. Top' = g /\ ret' = "none"
    BY <1>t, <2>1, GoesTo
  <2>3. QED
    BY <2>1, <2>2 DEF Surfacing
<1>2. CASE ~Recoverable(v)
  BY <1>2 DEF Throw, Return, Surfacing, Broken, Failures
<1>3. QED
  BY <1>1, <1>2

\* A call without a hidden fault.
LEMMA Clear == ASSUME ~Hidden(call.did), call'.did = call.did PROVE Surfacing'
BY DEF Surfacing, Hidden

\* The owner's calls.
LEMMA OwnerSurfaces ==
    ASSUME Surfacing, Unbegun,
           \/ \E e \in Event : process_event(e)
           \/ initialize \/ \E n \in DOMAIN tree.rows : set_states(n)
    PROVE  Surfacing'
<1>1. CASE \E e \in Event : process_event(e)
  <2>1. call'.did = {}
    BY <1>1 DEF process_event
  <2>2. QED
    BY <2>1 DEF Surfacing, Hidden
<1>2. CASE initialize
  <2>1. call.did = {}
    BY <1>2 DEF initialize, Unbegun
  <2>2. ret' = "ActionFailed" \/ call' = call
    BY <1>2 DEF initialize
  <2>3. QED
    BY <2>1, <2>2 DEF Surfacing, Hidden, Broken, Failures
<1>3. CASE \E n \in DOMAIN tree.rows : set_states(n)
  BY <1>3 DEF set_states, Surfacing, Running
<1>4. QED
  BY <1>1, <1>2, <1>3

\* A stop of a walk: the fault of a callback, or a row of an exception handler
\* that caught one.
LEMMA StopSurfaces ==
    ASSUME TreeInv, Surfacing, Walking, NEW p \in Stops, Try(p)
    PROVE  Surfacing'
<1>r. Running /\ ret = "none" /\ Top.at = "walk"
  BY DEF Walking
<1>t. /\ tree \in Trees /\ stack \in Seq(Body) /\ Top \in Frame /\ Top \in Body /\ call \in Calls
      /\ p \in Nat \ {0} /\ Here(p) \in Site
  BY <1>r, TypesNow, StackTyped, StopTyped
<1>n. Hidden(call.did) => Top.walk = "exception" /\ Top.recovery = "none"
  BY <1>r DEF Surfacing, Broken, Failures
<1>1. CASE Miss(p)
  <2>1. PICK g : g = [Top EXCEPT !.pos = p + 1]
    OBVIOUS
  <2>2. g \in Body /\ g.walk = Top.walk /\ g.recovery = Top.recovery /\ g.at = "walk"
    BY <1>r, <1>t, <2>1, GoesBehind
  <2>3. Top' = g /\ ret' = "none" /\ call' = call
    BY <1>1, <1>r, <1>t, <2>1, <2>2, GoesTo DEF Miss
  <2>4. QED
    BY <1>n, <2>2, <2>3 DEF Surfacing, Hidden
<1>2. CASE GuardFails(p)
  <2>1. Throw("GuardFailed", Here(p)) /\ "GuardFailed" \in Broken
    BY <1>2 DEF GuardFails, Broken, Failures
  <2>2. QED
    BY <1>r, <1>t, <2>1, Raised
<1>3. ASSUME NEW i \in DOMAIN Rows(Here(p)),
             \/ TakeInternal(p, i) \/ ActionFails(p, i) \/ Move(p, i)
             \/ \E v \in Site : ExitFails(p, i, v) \/ EntryFails(p, i, v)
      PROVE  Surfacing'
  <2>1. CASE \E v \in Broken, what \in SUBSET {"took", "changed", "fault"} :
                 Throw(v, Here(p)) /\ Mark(what) /\ "fault" \in what
    BY <1>r, <1>t, <2>1, Raised
  <2>2. ASSUME NEW what \in SUBSET {"took", "changed", "fault"}, Mark(what),
               "took" \in what, "fault" \notin what
        PROVE  Surfacing'
    <3>1. call'.did = call.did \union what
              \union (IF Top.walk = "exception" /\ "took" \in what THEN {"caught"} ELSE {})
      BY <2>2, MarkTyped
    <3>2. ~Hidden(call'.did)
      BY <1>n, <2>2, <3>1 DEF Hidden
    <3>3. QED
      BY <3>2 DEF Surfacing
  <2>3. QED
    BY <1>3, <2>1, <2>2, Taken
<1>4. QED
  BY <1>1, <1>2, <1>3, TryCases

\* The engine's own steps.
LEMMA StepSurfaces ==
    ASSUME TreeInv, Surfacing, Step
    PROVE  Surfacing'
<1>r. /\ Running /\ tree \in Trees /\ call \in Calls /\ stack \in Seq(Body)
      /\ Top \in Frame /\ Shaped(Top) /\ ret \in Results \union {"none"}
  BY StepFoot, TypesNow, StackTyped
<1>n. ret = "none" /\ Hidden(call.did) => /\ Top.walk = "exception" /\ Top.at = "walk"
                                          /\ Top.recovery = "none"
  BY <1>r DEF Surfacing, Broken, Failures
<1>d. ret \notin Broken \union {"none"} => ~Hidden(call.did)
  BY DEF Surfacing
<1>1. CASE Walking /\ \E p \in Stops : Try(p)
  BY <1>1, StopSurfaces
<1>2. CASE EventEnds \/ CompletionEnds
  <2>1. UNCHANGED call /\ ret = "none" /\ Top.walk # "exception"
    BY <1>2 DEF EventEnds, CompletionEnds, WalkEnds, Walking
  <2>2. QED
    BY <1>n, <2>1, Clear
<1>3. CASE ExceptionEnds
  <2>1. UNCHANGED call /\ ret = "none" /\ Top.walk = "exception"
    BY <1>3 DEF ExceptionEnds, WalkEnds, Walking
  <2>2. CASE Top.recovery = "none"
    <3>1. ret' = Top.error
      BY <1>3, <2>2 DEF ExceptionEnds, Return
    <3>2. QED
      BY <1>r, <2>1, <3>1 DEF Shaped, Surfacing, Broken
  <2>3. CASE Top.recovery # "none"
    BY <1>n, <2>1, <2>3, Clear
  <2>4. QED
    BY <2>2, <2>3
<1>4. CASE ProcessNext \/ DrainNext
  <2>1. ret = "none" /\ Top.at # "walk"
    BY <1>4 DEF ProcessNext, DrainNext, Idle
  <2>2. call'.did = call.did \/ call'.did = call.did \union {"nested"}
    BY <1>4, <1>r DEF ProcessNext, DrainNext, Nest, RowDone, Calls
  <2>3. ~Hidden(call'.did)
    BY <1>n, <2>1, <2>2 DEF Hidden
  <2>4. QED
    BY <2>3 DEF Surfacing
<1>5. CASE ProcessDone \/ DrainDone
  <2>1. UNCHANGED call /\ ret # "none" /\ Top.at # "walk"
    BY <1>5 DEF ProcessDone, DrainDone, Resumed
  <2>2. CASE ret \in Broken
    <3>1. Throw(ret, Place)
      BY <1>5, <2>2 DEF ProcessDone, DrainDone, Broken, Failures, Dropped
    <3>2. Place \in Site /\ Top \in Body
      BY <1>r, <2>1, PlaceOfRow, StackTyped
    <3>3. QED
      BY <1>r, <2>2, <3>1, <3>2, Raised
  <2>3. CASE ret \notin Broken
    BY <1>d, <2>1, <2>3, Clear
  <2>4. QED
    BY <2>2, <2>3
<1>6. QED
  BY <1>1, <1>2, <1>3, <1>4, <1>5 DEF Step

\* The invariant of the engine.
LEMMA AlwaysTyped == Spec => []TreeInv
<1>1. TreeInv /\ [Next]_vars => TreeInv'
  BY StepTyped
<1>2. QED
  BY <1>1, TypeInit, PTL DEF Spec

\* Nothing happened before the first call.
LEMMA AlwaysUnbegun == Spec => []Unbegun
<1>1. Init => Unbegun
  BY DEF Init, Unbegun, Running
<1>2. Unbegun /\ [Next]_vars => Unbegun'
  BY UnbegunKept
<1>3. QED
  BY <1>1, <1>2, PTL DEF Spec

\* An error of a callback, or a full queue, reaches the owner of the machine
\* unless a row of an exception handler of some active table was taken, for
\* every tree: no walk, no retry and no completion swallows it.
THEOREM FaultReachesCaller == Spec => []FaultsSurface
<1>1. Init => Surfacing
  BY DEF Init, Surfacing, Hidden
<1>2. TreeInv /\ Unbegun /\ Surfacing /\ [Next]_vars => Surfacing'
  <2> SUFFICES ASSUME TreeInv, Unbegun, Surfacing, [Next]_vars PROVE Surfacing'
    OBVIOUS
  <2>1. CASE UNCHANGED vars
    BY <2>1 DEF vars, Surfacing, Running, Top
  <2>2. QED
    BY <2>1, OwnerSurfaces, StepSurfaces DEF Next
<1>3. Surfacing => FaultsSurface
  BY DEF Surfacing, Hidden, FaultsSurface, AtRest, Broken
<1>4. QED
  BY <1>1, <1>2, <1>3, AlwaysTyped, AlwaysUnbegun, PTL DEF Spec

-----------------------------------------------------------------------------
(* The query and the dispatch agree.                                       *)

\* No table has an unexpected row on any event.
Named ==
    \A n \in DOMAIN tree.rows : \A i \in DOMAIN tree.rows[n] :
        tree.rows[n][i].kind = "unexpected" => tree.rows[n][i].event # Wild

\* A call whose event the query did not list is at the start of its dispatch,
\* in the states the query saw, or is over.
Refusing ==
    Named /\ call.event # Wild /\ ~call.listed =>
        /\ call.did = {}
        /\ Running => /\ ret = "none" /\ Top.walk = "event" /\ Top.at = "walk"
                      /\ Top.pos = 1 /\ Top.took = {} /\ Top.event = call.event
                      /\ Len(stack) = 1 /\ ~Queried(call.event)
        /\ ret \in {"none", "InvalidEvent"}

\* A site at which something is to be tried for an event has an active row on it.
LEMMA StopQueried ==
    ASSUME tree \in Trees, Top \in Frame, Named, Top.walk = "event", Top.pos = 1, NEW p \in Ahead
    PROVE  Queried(Top.event)
<1> DEFINE s == Here(p)
<1>1. s \in Site /\ s = Order(Top.walk)[p]
  <2>1. p \in 1..Len(Order(Top.walk)) /\ Order(Top.walk) \in Seq(Site)
    BY TreeFits DEF Ahead, Order
  <2>2. QED
    BY <2>1 DEF Here
<1>2. Due(Top, p)
  BY DEF Ahead
<1>3. Active(tree.node[s])
  <2>1. 1..(Top.pos - 1) = {}
    OBVIOUS
  <2>2. QED
    BY <1>1, <1>2, <2>1 DEF Due, Admitted
<1>4. EventRows(s, Top.event) # {}
  BY <1>1, <1>2 DEF Due, Candidates
<1>5. PICK i \in EventRows(s, Top.event) : TRUE
  BY <1>4
<1>6. \/ i \in Picks(s, "normal", Top.event)
      \/ i \in Picks(s, "unexpected", Top.event)
      \/ i \in Picks(s, "unexpected", Wild)
  BY <1>5 DEF EventRows, First
<1>7. i \notin Picks(s, "unexpected", Wild)
  <2>1. tree.node[s] \in DOMAIN tree.rows
    BY <1>1, TreeFits
  <2>2. QED
    BY <2>1 DEF Picks, Named, Rows
<1>8. /\ i \in DOMAIN Rows(s) /\ Rows(s)[i].from = slot[s]
      /\ Rows(s)[i].kind \in {"normal", "unexpected"} /\ Rows(s)[i].event = Top.event
  BY <1>6, <1>7 DEF Picks
<1>9. QED
  BY <1>1, <1>3, <1>8 DEF Queried

\* The engine's own steps: nobody takes such an event.
LEMMA StepRefuses ==
    ASSUME TreeInv, Refusing, Step
    PROVE  Refusing'
<1> SUFFICES ASSUME Named', call'.event # Wild, ~call'.listed PROVE Refusing'
  BY DEF Refusing
<1>r. /\ Running /\ tree' = tree /\ tree \in Trees /\ stack \in Seq(Body) /\ Top \in Frame
      /\ call \in Calls
  BY StepFoot, TypesNow, StackTyped
<1>c. call'.event = call.event /\ call'.listed = call.listed
  <2>1. CASE call' = call
    BY <2>1
  <2>2. CASE \E what \in SUBSET {"took", "changed", "fault"} : Mark(what)
    BY <2>2, MarkTyped
  <2>3. ASSUME NEW p \in Stops, Try(p) 
        PROVE  call' = call \/ \E what \in SUBSET {"took", "changed", "fault"} : Mark(what)
    <3>1. CASE Miss(p) \/ GuardFails(p)
      BY <3>1 DEF Miss, GuardFails
    <3>2. CASE \E i \in Reached(p) :
                 \/ TakeInternal(p, i) \/ ActionFails(p, i) \/ Move(p, i)
                 \/ \E v \in Site : ExitFails(p, i, v) \/ EntryFails(p, i, v)
      BY <3>2, Taken
    <3>3. QED
      BY <2>3, <3>1, <3>2 DEF Try
  <2>4. CASE Walking /\ \E p \in Stops : Try(p)
    BY <2>1, <2>2, <2>3, <2>4
  <2>5. CASE EventEnds \/ CompletionEnds \/ ExceptionEnds \/ ProcessDone \/ DrainDone
    BY <2>5 DEF EventEnds, CompletionEnds, ExceptionEnds, ProcessDone, DrainDone
  <2>6. CASE ProcessNext \/ DrainNext
    BY <2>6, <1>r DEF ProcessNext, DrainNext, Nest, RowDone, Calls
  <2>7. QED
    BY <2>4, <2>5, <2>6 DEF Step
<1>1. Named /\ call.event # Wild /\ ~call.listed
  BY <1>r, <1>c DEF Named
<1>2. /\ call.did = {} /\ ret = "none" /\ Top.walk = "event" /\ Top.at = "walk"
      /\ Top.pos = 1 /\ Top.took = {} /\ Top.event = call.event
      /\ Len(stack) = 1 /\ ~Queried(call.event)
  BY <1>1, <1>r DEF Refusing
<1>3. Ahead = {} /\ Stops = {}
  BY <1>1, <1>2, <1>r, StopQueried DEF Stops
<1>4. EventEnds
  BY <1>2, <1>3
     DEF Step, CompletionEnds, ExceptionEnds, ProcessNext, ProcessDone, DrainNext, DrainDone, Idle, Resumed
<1>5. Return("InvalidEvent") /\ call' = call
  BY <1>2, <1>4 DEF EventEnds
<1>6. ~Running' /\ ret' = "InvalidEvent"
  BY <1>2, <1>5, <1>r, Returns
<1>7. QED
  BY <1>2, <1>5, <1>6 DEF Refusing

\* visit_current_events and the dispatch agree, for every tree whose tables
\* have no row on any event: an event the query does not list is refused, and
\* nothing else happens.
THEOREM UnlistedAreRefused == Spec => []UnlistedRefused
<1>1. Init => Refusing
  BY DEF Init, Refusing
<1>2. TreeInv /\ Unbegun /\ Refusing /\ [Next]_vars => Refusing'
  <2> SUFFICES ASSUME TreeInv, Unbegun, Refusing, [Next]_vars PROVE Refusing'
    OBVIOUS
  <2>1. CASE UNCHANGED vars
    BY <2>1 DEF vars, slotVars, Refusing, Running, Top, Named, Queried, Active, Holds, Site, Rows
  <2>2. ASSUME NEW e \in Event, process_event(e) PROVE Refusing'
    <3>1. /\ stack' = <<NewFrame(e, "call")>> /\ ret' = "none" /\ tree' = tree /\ slot' = slot
          /\ call'.event = e /\ call'.did = {} /\ call'.listed = (e \in current_events)
      BY <2>2 DEF process_event, slotVars
    <3>2. Running' /\ Top' = NewFrame(e, "call") /\ Len(stack') = 1
      BY <3>1 DEF Running, Top
    <3>3. /\ Top'.walk = "event" /\ Top'.at = "walk" /\ Top'.pos = 1 /\ Top'.took = {}
          /\ Top'.event = e
      BY <3>2 DEF NewFrame
    <3>4. Queried(e)' <=> Queried(e)
      BY <3>1 DEF Queried, Active, Holds, Site, Rows
    <3>5. Queried(e) <=> e \in current_events
      BY DEF current_events
    <3>6. ~call'.listed => ~Queried(call.event)'
      BY <3>1, <3>4, <3>5 DEF Queried, Active, Holds, Site, Rows
    <3>7. QED
      BY <3>1, <3>2, <3>3, <3>6 DEF Refusing
  <2>3. CASE initialize
    <3>1. call.event = Wild /\ call \in Calls
      BY <2>3, TypesNow DEF initialize, Unbegun
    <3>2. call'.event = Wild
      BY <2>3, <3>1 DEF initialize, Calls
    <3>3. QED
      BY <3>2 DEF Refusing
  <2>4. CASE \E n \in DOMAIN tree.rows : set_states(n)
    BY <2>4 DEF set_states, Refusing, Running, Named
  <2>5. QED
    BY <2>1, <2>2, <2>3, <2>4, StepRefuses DEF Next
<1>3. Refusing => UnlistedRefused
  BY DEF Refusing, UnlistedRefused, AtRest, Named
<1>4. QED
  BY <1>1, <1>2, <1>3, AlwaysTyped, AlwaysUnbegun, PTL DEF Spec

-----------------------------------------------------------------------------
(* Deferred events are retried.                                            *)

\* A row that replaced a state has yet to drain the deferred queue.
Owes(g) ==
    \/ g.at = "drain"
    \/ g.at = "process" /\ ~Rows(Order(g.walk)[g.pos])[g.row].internal
Owing == \E k \in 1..Len(stack) : Owes(stack[k])

\* No error was seen.
Calm ==
    /\ ret \in {"none", "ok", "InvalidEvent"}
    /\ \A k \in 1..Len(stack) : stack[k].walk # "exception"

\* In a call without faults that changed a state, an event that was deferred
\* before the last change is one that some active row will still retry, unless
\* the call is being refused.
Owed ==
    "fault" \notin call.did =>
        /\ Calm
        /\ "changed" \in call.did /\ stale # 0 =>
              ret = "InvalidEvent" \/ (~Running /\ ret = "none") \/ Owing

\* What the moves of the call stack make of the rows that owe.
LEMMA OwedGoes ==
    ASSUME stack \in Seq(Body), Running, tree' = tree, Calm, NEW g \in Body, GoTo(g),
           g.walk # "exception"
    PROVE  Calm' /\ (Owes(g) => Owing') /\ (Owing /\ ~Owes(Top) => Owing')
<1>1. /\ Len(stack') = Len(stack) /\ Len(stack) \in Nat /\ Len(stack) >= 1
      /\ stack'[1] = g /\ \A i \in 2..Len(stack) : stack'[i] = stack[i]
      /\ ret' = "none" /\ Top = stack[1]
  BY GoesTo, StackTyped
<1>2. Calm'
  <2>1. ASSUME NEW k \in 1..Len(stack') PROVE stack'[k].walk # "exception"
    <3>1. k = 1 \/ k \in 2..Len(stack)
      BY <1>1
    <3>2. QED
      BY <1>1, <3>1 DEF Calm
  <2>2. QED
    BY <1>1, <2>1 DEF Calm
<1>3. ASSUME Owes(g) PROVE Owing'
  <2>1. 1 \in 1..Len(stack') /\ stack'[1] = g
    BY <1>1
  <2>2. QED
    BY <1>3, <2>1 DEF Owing, Owes, Order, Rows
<1>4. ASSUME Owing, ~Owes(Top) PROVE Owing'
  <2>1. PICK k \in 1..Len(stack) : Owes(stack[k])
    BY <1>4 DEF Owing
  <2>2. k # 1
    BY <1>1, <1>4, <2>1
  <2>3. k \in 1..Len(stack') /\ stack'[k] = stack[k]
    BY <1>1, <2>2
  <2>4. QED
    BY <2>1, <2>3 DEF Owing, Owes, Order, Rows
<1>5. QED
  BY <1>2, <1>3, <1>4

LEMMA OwedCalls ==
    ASSUME stack \in Seq(Body), Running, tree' = tree, Calm,
           NEW g \in Body, NEW c \in Body, Enter(g, c),
           g.walk # "exception", c.walk # "exception"
    PROVE  Calm' /\ (Owes(g) => Owing') /\ (Owing /\ ~Owes(Top) => Owing')
<1>1. /\ Len(stack') = Len(stack) + 1 /\ Len(stack) \in Nat /\ Len(stack) >= 1
      /\ stack'[1] = c /\ stack'[2] = g /\ \A i \in 3..Len(stack') : stack'[i] = stack[i - 1]
      /\ ret' = "none" /\ Top = stack[1]
  BY CallsOut, StackTyped
<1>2. Calm'
  <2>1. ASSUME NEW k \in 1..Len(stack') PROVE stack'[k].walk # "exception"
    <3>1. k = 1 \/ k = 2 \/ k \in 3..Len(stack')
      BY <1>1
    <3>2. k \in 3..Len(stack') => k - 1 \in 1..Len(stack)
      BY <1>1
    <3>3. QED
      BY <1>1, <3>1, <3>2 DEF Calm
  <2>2. QED
    BY <1>1, <2>1 DEF Calm
<1>3. ASSUME Owes(g) PROVE Owing'
  <2>1. 2 \in 1..Len(stack') /\ stack'[2] = g
    BY <1>1
  <2>2. QED
    BY <1>3, <2>1 DEF Owing, Owes, Order, Rows
<1>4. ASSUME Owing, ~Owes(Top) PROVE Owing'
  <2>1. PICK k \in 1..Len(stack) : Owes(stack[k])
    BY <1>4 DEF Owing
  <2>2. k # 1
    BY <1>1, <1>4, <2>1
  <2>3. k + 1 \in 3..Len(stack') /\ k + 1 \in 1..Len(stack') /\ (k + 1) - 1 = k
    BY <1>1, <2>2
  <2>4. stack'[k + 1] = stack[k]
    BY <1>1, <2>3
  <2>5. QED
    BY <2>1, <2>3, <2>4 DEF Owing, Owes, Order, Rows
<1>5. QED
  BY <1>2, <1>3, <1>4

LEMMA OwedReturns ==
    ASSUME stack \in Seq(Body), Running, tree' = tree, Calm,
           NEW v \in {"ok", "InvalidEvent"}, Return(v)
    PROVE  Calm' /\ ret' = v /\ (Owing /\ ~Owes(Top) => Owing')
<1>1. /\ Len(stack') = Len(stack) - 1 /\ Len(stack) \in Nat /\ Len(stack) >= 1
      /\ \A i \in 1..Len(stack') : stack'[i] = stack[i + 1]
      /\ ret' = v /\ Top = stack[1]
  BY Returns, StackTyped
<1>2. Calm'
  <2>1. ASSUME NEW k \in 1..Len(stack') PROVE stack'[k].walk # "exception"
    <3>1. k + 1 \in 1..Len(stack)
      BY <1>1
    <3>2. QED
      BY <1>1, <3>1 DEF Calm
  <2>2. QED
    BY <1>1, <2>1 DEF Calm
<1>3. ASSUME Owing, ~Owes(Top) PROVE Owing'
  <2>1. PICK k \in 1..Len(stack) : Owes(stack[k])
    BY <1>3 DEF Owing
  <2>2. k # 1
    BY <1>1, <1>3, <2>1
  <2>3. k - 1 \in 1..Len(stack') /\ (k - 1) + 1 = k
    BY <1>1, <2>2
  <2>4. stack'[k - 1] = stack[k]
    BY <1>1, <2>3
  <2>5. QED
    BY <2>1, <2>3, <2>4 DEF Owing, Owes, Order, Rows
<1>4. QED
  BY <1>1, <1>2, <1>3

\* What the frames of a row owe.
LEMMA RowOwes ==
    ASSUME tree \in Trees, Top \in Body
    PROVE  /\ Top.at = "walk" => ~Owes(Top)
           /\ Top.at = "drain" => Owes(Top)
           /\ Top.at = "process" => (Owes(Top) <=> Drains(InProgress))
           /\ [Top EXCEPT !.todo = Tail(@)].walk = Top.walk
           /\ Owes([Top EXCEPT !.todo = Tail(@)]) <=> Owes(Top)
           /\ [Top EXCEPT !.at = "drain"].walk = Top.walk
           /\ Owes([Top EXCEPT !.at = "drain"])
           /\ \A p \in Stops : \A i \in DOMAIN Rows(Here(p)) :
                LET h == [Top EXCEPT !.pos = p, !.row = i, !.at = "process",
                                     !.todo = Rows(Here(p))[i].process]
                IN  h.walk = Top.walk /\ (Owes(h) <=> ~Rows(Here(p))[i].internal)
<1>f. Top \in Frame
  BY DEF Body
<1>1. /\ Top.at = "walk" => ~Owes(Top)
      /\ Top.at = "drain" => Owes(Top)
      /\ Top.at = "process" => (Owes(Top) <=> Drains(InProgress))
  BY DEF Owes, Drains, InProgress, Place, Here
<1>2. PICK h : h = [Top EXCEPT !.todo = Tail(@)]
  OBVIOUS
<1>3. h.walk = Top.walk /\ h.at = Top.at /\ h.pos = Top.pos /\ h.row = Top.row
  BY <1>f, <1>2 DEF Frame
<1>4. Owes(h) <=> Owes(Top)
  BY <1>3 DEF Owes
<1>5. PICK d : d = [Top EXCEPT !.at = "drain"]
  OBVIOUS
<1>6. d.walk = Top.walk /\ d.at = "drain"
  BY <1>f, <1>5 DEF Frame
<1>7. Owes(d)
  BY <1>6 DEF Owes
<1>8. ASSUME NEW p \in Stops, NEW i \in DOMAIN Rows(Here(p)),
             NEW r, r = [Top EXCEPT !.pos = p, !.row = i, !.at = "process",
                                    !.todo = Rows(Here(p))[i].process]
      PROVE  r.walk = Top.walk /\ (Owes(r) <=> ~Rows(Here(p))[i].internal)
  <2>1. r.walk = Top.walk /\ r.pos = p /\ r.row = i /\ r.at = "process"
    BY <1>f, <1>8 DEF Frame
  <2>2. QED
    BY <2>1 DEF Owes, Here
<1>9. QED
  BY <1>1, <1>2, <1>3, <1>4, <1>5, <1>6, <1>7, <1>8

\* An error that is thrown was marked, or is a rejection.
LEMMA OwedThrows ==
    ASSUME TreeInv, Running, tree' = tree, Calm, NEW s \in Site, Throw("InvalidEvent", s)
    PROVE  Calm' /\ ret' = "InvalidEvent"
<1>1. ~Recoverable("InvalidEvent")
  BY DEF Recoverable, Failures
<1>2. Return("InvalidEvent")
  BY <1>1 DEF Throw
<1>3. QED
  BY <1>2, TypesNow, OwedReturns

\* A stop of a walk.
LEMMA StopOwes ==
    ASSUME TreeInv, Owed, Walking, NEW p \in Stops, Try(p)
    PROVE  Owed'
<1> SUFFICES ASSUME "fault" \notin call'.did PROVE Owed'
  BY DEF Owed
<1>r. /\ Running /\ ret = "none" /\ Top.at = "walk" /\ tree \in Trees /\ stack \in Seq(Body)
      /\ Top \in Frame /\ Top \in Body /\ call \in Calls /\ tree' = tree
      /\ p \in Nat \ {0} /\ Here(p) \in Site
  <2>1. Step
    BY DEF Step
  <2>2. QED
    BY <2>1, StepFoot, TypesNow, StackTyped, StopTyped DEF Walking
<1>m. ASSUME NEW what \in SUBSET {"took", "changed", "fault"}, Mark(what)
      PROVE  /\ what \subseteq call'.did /\ "fault" \notin what /\ "fault" \notin call.did
             /\ "changed" \notin what => ("changed" \in call'.did <=> "changed" \in call.did)
  BY <1>m, MarkTyped
<1>o. ~Owes(Top)
  BY <1>r, RowOwes
<1>w. ASSUME "fault" \notin call.did PROVE Calm /\ Top.walk # "exception"
  BY <1>w, <1>r, StackTyped DEF Owed, Calm
<1>1. CASE Miss(p)
  <2>1. PICK g : g = [Top EXCEPT !.pos = p + 1]
    OBVIOUS
  <2>2. g \in Body /\ g.walk = Top.walk
    BY <1>r, <2>1, GoesBehind
  <2>3. GoTo(g) /\ call' = call /\ stale' = stale /\ "fault" \notin call.did
    BY <1>1, <2>1 DEF Miss, queueVars
  <2>4. Calm' /\ (Owing => Owing')
    BY <1>r, <1>o, <1>w, <2>2, <2>3, OwedGoes
  <2>5. QED
    BY <1>r, <2>3, <2>4 DEF Owed
<1>2. CASE GuardFails(p)
  <2>1. Mark({"fault"}) /\ {"fault"} \in SUBSET {"took", "changed", "fault"}
    BY <1>2 DEF GuardFails
  <2>2. QED
    BY <1>m, <2>1
<1>3. ASSUME NEW i \in DOMAIN Rows(Here(p)),
             \/ TakeInternal(p, i) \/ ActionFails(p, i) \/ Move(p, i)
             \/ \E v \in Site : ExitFails(p, i, v) \/ EntryFails(p, i, v)
      PROVE  Owed'
  <2> DEFINE row == Rows(Here(p))[i]
  <2>1. PICK g : g = [Top EXCEPT !.pos = p, !.row = i, !.at = "process", !.todo = row.process]
    OBVIOUS
  <2>2. g \in Body /\ g.walk = Top.walk /\ (Owes(g) <=> ~row.internal)
    BY <1>r, <2>1, InRow, RowOwes
  <2>3. CASE \E v \in Broken, what \in SUBSET {"took", "changed", "fault"} :
                 Throw(v, Here(p)) /\ Mark(what) /\ "fault" \in what
    BY <1>m, <2>3
  <2>4. CASE Proceed(p, i) /\ Mark({"took"}) /\ row.internal
    <3>1. GoTo(g)
      BY <2>1, <2>4 DEF Proceed
    <3>2. "fault" \notin call.did /\ ("changed" \in call'.did <=> "changed" \in call.did)
      <4>1. {"took"} \in SUBSET {"took", "changed", "fault"} /\ "changed" \notin {"took"}
        OBVIOUS
      <4>2. QED
        BY <1>m, <2>4, <4>1
    <3>3. Calm' /\ (Owing => Owing')
      BY <1>r, <1>o, <1>w, <2>2, <3>1, <3>2, OwedGoes
    <3>4. stale' = stale
      <4>1. TakeInternal(p, i)
        BY <1>3, <2>4 DEF ActionFails, Move, ExitFails, EntryFails, Takes
      <4>2. CASE ActionsFail(p, i)
        <5>1. Mark({"fault"}) /\ {"fault"} \in SUBSET {"took", "changed", "fault"}
          BY <4>2 DEF ActionsFail, Fails
        <5>2. QED
          BY <1>m, <5>1
      <4>3. QED
        BY <4>1, <4>2 DEF TakeInternal
    <3>5. QED
      BY <1>r, <3>2, <3>3, <3>4 DEF Owed
  <2>5. CASE Proceed(p, i) /\ Mark({"took", "changed"}) /\ ~row.internal
    <3>1. GoTo(g)
      BY <2>1, <2>5 DEF Proceed
    <3>2. "fault" \notin call.did
      BY <1>m, <2>5
    <3>3. Calm' /\ Owing'
      BY <1>r, <1>w, <2>2, <2>5, <3>1, <3>2, OwedGoes
    <3>4. QED
      BY <3>3 DEF Owed
  <2>6. QED
    BY <1>3, <2>3, <2>4, <2>5, Taken
<1>4. QED
  BY <1>1, <1>2, <1>3, TryCases

\* The end of a walk: nobody owes there.
LEMMA EndOwes ==
    ASSUME TreeInv, Owed, EventEnds \/ CompletionEnds \/ ExceptionEnds
    PROVE  Owed'
<1> SUFFICES ASSUME "fault" \notin call'.did PROVE Owed'
  BY DEF Owed
<1>r. /\ Running /\ ret = "none" /\ Top.at = "walk" /\ tree \in Trees /\ stack \in Seq(Body)
      /\ Top \in Frame /\ Top \in Body /\ tree' = tree /\ call' = call /\ stale' = stale
  BY TypesNow, StackTyped
     DEF EventEnds, CompletionEnds, ExceptionEnds, WalkEnds, Walking, StateKeeps, queueVars
<1>o. Calm /\ Top.walk # "exception" /\ ~Owes(Top)
  <2>1. Calm /\ Top = stack[1] /\ 1 \in 1..Len(stack)
    BY <1>r, StackTyped DEF Owed
  <2>2. Top.walk # "exception"
    BY <2>1 DEF Calm
  <2>3. QED
    BY <1>r, <2>1, <2>2, RowOwes
<1>w. /\ Top.event \in Event \union {Wild} /\ Top.origin \in Event \union {Wild}
      /\ {} \in SUBSET Site /\ Top.settled \in SUBSET Site
  BY <1>r DEF Frame
<1>1. CASE \E v \in {"ok", "InvalidEvent"} : Return(v)
  <2>1. Calm' /\ (Owing => Owing')
    BY <1>1, <1>r, <1>o, OwedReturns
  <2>2. "changed" \in call.did /\ stale # 0 => Owing
    <3>1. QED
      BY <1>r, <1>o DEF Owed
  <2>3. QED
    BY <1>r, <2>1, <2>2 DEF Owed
<1>2. ASSUME NEW g \in Body, GoTo(g), g.walk = "completion"
      PROVE  Owed'
  <2>1. Calm' /\ (Owing => Owing')
    BY <1>2, <1>r, <1>o, OwedGoes
  <2>2. QED
    BY <1>r, <2>1 DEF Owed
<1>3. CASE EventEnds
  <2>1. Return("InvalidEvent") \/ GoTo(Restart(Top, Top.event, {}))
    BY <1>3 DEF EventEnds
  <2>2. QED
    BY <1>1, <1>2, <1>r, <1>w, <2>1, Restarts
<1>4. CASE CompletionEnds
  <2>1. Return("ok") \/ GoTo(Restart(Top, Top.origin, Top.settled))
    BY <1>4 DEF CompletionEnds
  <2>2. QED
    BY <1>1, <1>2, <1>r, <1>w, <2>1, Restarts
<1>5. CASE ExceptionEnds
  BY <1>5, <1>o DEF ExceptionEnds
<1>6. QED
  BY <1>3, <1>4, <1>5

\* A row that is done, or that calls.
LEMMA RowOwesOn ==
    ASSUME TreeInv, Owed, ProcessNext \/ ProcessDone \/ DrainNext \/ DrainDone
    PROVE  Owed'
<1> SUFFICES ASSUME "fault" \notin call'.did PROVE Owed'
  BY DEF Owed
<1>r. /\ Running /\ tree \in Trees /\ stack \in Seq(Body) /\ Top \in Frame /\ Top \in Body
      /\ Top.at # "walk" /\ tree' = tree /\ call \in Calls /\ Place \in Site
      /\ stale \in Nat /\ deferred \in Seq(Event) /\ stale <= Len(deferred)
  BY TypesNow, StackTyped, PlaceOfRow
     DEF ProcessNext, ProcessDone, DrainNext, DrainDone, Idle, Resumed, StateKeeps
<1>c. "fault" \notin call.did /\ ("changed" \in call'.did <=> "changed" \in call.did)
  BY <1>r DEF ProcessNext, ProcessDone, DrainNext, DrainDone, Nest, RowDone, Calls
<1>o. Calm /\ Top.walk # "exception"
  BY <1>r, <1>c, StackTyped DEF Owed, Calm
<1>d. ASSUME RowDone PROVE Calm' /\ (Owing /\ ~Owes(Top) => Owing')
  <2>1. PICK g : g = [Handled(Top, Place) EXCEPT !.row = 0]
    OBVIOUS
  <2>2. g \in Body /\ g.walk = Top.walk
    BY <1>r, <2>1, RowEnds
  <2>3. GoTo(g)
    BY <1>d, <2>1 DEF RowDone
  <2>4. QED
    BY <1>r, <1>o, <2>2, <2>3, OwedGoes
<1>n. ASSUME NEW g \in Body, g.walk = Top.walk, NEW e \in Event, NEW via \in {"process", "retry"},
             Nest(g, e, via)
      PROVE  Calm' /\ (Owes(g) => Owing') /\ (Owing /\ ~Owes(Top) => Owing')
  <2>1. Enter(g, NewFrame(e, via)) /\ NewFrame(e, via) \in Body /\ NewFrame(e, via).walk = "event"
    BY <1>n, FrameMade DEF Nest
  <2>2. NewFrame(e, via).walk # "exception" /\ g.walk # "exception"
    BY <2>1, <1>o, <1>n
  <2>3. QED
    BY <1>r, <1>o, <2>1, <2>2, OwedCalls
<1>1. CASE ProcessNext
  <2>1. stale' = stale /\ ret = "none" /\ Top.at = "process"
    BY <1>1 DEF ProcessNext, Idle, queueVars
  <2>2. "changed" \in call.did /\ stale # 0 => Owing
    BY <1>c, <1>r, <2>1 DEF Owed
  <2>3. CASE Top.todo # << >> /\ Nest([Top EXCEPT !.todo = Tail(@)], Head(Top.todo), "process")
    <3>1. PICK g : g = [Top EXCEPT !.todo = Tail(@)]
      OBVIOUS
    <3>2. g \in Body /\ g.walk = Top.walk /\ (Owes(g) <=> Owes(Top)) /\ Head(Top.todo) \in Event
      BY <1>r, <2>3, <3>1, RowGoesOn, RowOwes
    <3>3. Calm' /\ (Owing => Owing')
      BY <2>3, <3>1, <3>2, <1>n
    <3>4. QED
      BY <1>c, <2>1, <2>2, <3>3 DEF Owed
  <2>4. CASE Drains(InProgress) /\ GoTo([Top EXCEPT !.at = "drain"])
    <3>1. PICK g : g = [Top EXCEPT !.at = "drain"]
      OBVIOUS
    <3>2. g \in Body /\ g.walk = Top.walk /\ Owes(g)
      BY <1>r, <2>1, <2>4, <3>1, RowGoesOn, RowOwes
    <3>3. Calm' /\ Owing'
      BY <1>r, <1>o, <2>4, <3>1, <3>2, OwedGoes
    <3>4. QED
      BY <3>3 DEF Owed
  <2>5. CASE ~Drains(InProgress) /\ RowDone
    <3>1. ~Owes(Top)
      BY <1>r, <2>1, <2>5, RowOwes
    <3>2. Calm' /\ (Owing => Owing')
      BY <1>d, <2>5, <3>1
    <3>3. QED
      BY <1>c, <2>1, <2>2, <3>2 DEF Owed
  <2>6. QED
    BY <1>1, <2>3, <2>4, <2>5 DEF ProcessNext
<1>2. CASE ProcessDone
  <2>1. stale' = stale /\ ret # "none" /\ ret \in {"ok", "InvalidEvent"}
    BY <1>2, <1>o DEF ProcessDone, Resumed, queueVars, Calm
  <2>2. CASE ret = "ok"
    <3>1. GoTo(Top)
      BY <1>2, <2>2 DEF ProcessDone
    <3>2. "changed" \in call.did /\ stale # 0 => Owing
      BY <1>c, <1>r, <2>2 DEF Owed
    <3>3. Calm' /\ (Owing => Owing')
      BY <1>r, <1>o, <3>1, OwedGoes
    <3>4. QED
      BY <1>c, <2>1, <3>2, <3>3 DEF Owed
  <2>3. CASE ret = "InvalidEvent"
    <3>1. Throw("InvalidEvent", Place)
      BY <1>2, <2>3 DEF ProcessDone
    <3>2. Calm' /\ ret' = "InvalidEvent"
      BY <1>r, <1>o, <3>1, OwedThrows
    <3>3. QED
      BY <3>2 DEF Owed
  <2>4. QED
    BY <2>1, <2>2, <2>3
<1>3. CASE DrainNext
  <2>1. CASE deferred # << >>
    <3>1. Nest(Top, Head(deferred), "retry") /\ Top.at = "drain" /\ Head(deferred) \in Event
      BY <1>3, <1>r, <2>1 DEF DrainNext, Idle
    <3>2. Owes(Top)
      BY <1>r, <3>1, RowOwes
    <3>3. Calm' /\ Owing'
      BY <1>n, <1>r, <3>1, <3>2
    <3>4. QED
      BY <3>3 DEF Owed
  <2>2. CASE deferred = << >>
    <3>1. RowDone /\ stale' = stale
      BY <1>3, <2>2 DEF DrainNext, queueVars
    <3>2. stale = 0
      BY <1>r, <2>2
    <3>3. Calm'
      BY <1>d, <3>1
    <3>4. QED
      BY <3>1, <3>2, <3>3 DEF Owed
  <2>3. QED
    BY <2>1, <2>2
<1>4. CASE DrainDone
  <2>1. ret # "none" /\ ret \in {"ok", "InvalidEvent"} /\ Top.at = "drain"
    BY <1>4, <1>o DEF DrainDone, Resumed, Calm
  <2>2. GoTo(Top)
    BY <1>4, <2>1 DEF DrainDone, Dropped
  <2>3. Owes(Top)
    BY <1>r, <2>1, RowOwes
  <2>4. Calm' /\ Owing'
    BY <1>r, <1>o, <2>2, <2>3, OwedGoes
  <2>5. QED
    BY <2>4 DEF Owed
<1>5. QED
  BY <1>1, <1>2, <1>3, <1>4

\* What is owed holds for every tree.
LEMMA AlwaysOwed == Spec => []Owed
<1>1. Init => Owed
  BY DEF Init, Owed, Calm
<1>2. TreeInv /\ Unbegun /\ Owed /\ [Next]_vars => Owed'
  <2> SUFFICES ASSUME TreeInv, Unbegun, Owed, [Next]_vars PROVE Owed'
    OBVIOUS
  <2>1. CASE UNCHANGED vars
    BY <2>1 DEF vars, queueVars, Owed, Calm, Running, Owing, Owes, Order, Rows
  <2>2. ASSUME NEW e \in Event, process_event(e) PROVE Owed'
    <3>1. stack' = <<NewFrame(e, "call")>> /\ ret' = "none" /\ call'.did = {}
      BY <2>2 DEF process_event
    <3>2. NewFrame(e, "call").walk = "event"
      BY DEF NewFrame
    <3>3. Len(stack') = 1 /\ \A k \in 1..1 : stack'[k].walk # "exception"
      BY <3>1, <3>2
    <3>4. QED
      BY <3>1, <3>3 DEF Owed, Calm
  <2>3. CASE initialize
    <3>1. call.did = {} /\ call \in Calls
      BY <2>3, TypesNow DEF initialize, Unbegun
    <3>2. CASE call' = [call EXCEPT !.did = {"fault"}]
      <4>1. "fault" \in call'.did
        BY <3>1, <3>2 DEF Calls
      <4>2. QED
        BY <4>1 DEF Owed
    <3>3. CASE stack' = <<Stabilize(Wild, "call")>> /\ ret' = "none" /\ call' = call
      <4>1. Stabilize(Wild, "call").walk = "completion"
        BY FrameMade
      <4>2. Len(stack') = 1 /\ \A k \in 1..1 : stack'[k].walk # "exception"
        BY <3>3, <4>1
      <4>3. QED
        BY <3>1, <3>3, <4>2 DEF Owed, Calm
    <3>4. QED
      BY <2>3, <3>2, <3>3 DEF initialize
  <2>4. CASE \E n \in DOMAIN tree.rows : set_states(n)
    <3>1. stack = << >> /\ stack' = stack /\ ret' = "none" /\ call' = call
      BY <2>4 DEF set_states, Running
    <3>2. Calm' /\ ~Running'
      BY <3>1 DEF Calm, Running
    <3>3. QED
      BY <3>1, <3>2 DEF Owed
  <2>5. CASE Step
    BY <2>5, StopOwes, EndOwes, RowOwesOn DEF Step
  <2>6. QED
    BY <2>1, <2>2, <2>3, <2>4, <2>5 DEF Next
<1>3. QED
  BY <1>1, <1>2, AlwaysTyped, AlwaysUnbegun, PTL DEF Spec

\* docs/dsl.md on defer, "retries it after the next state change", for every
\* tree: when a call succeeds after a change of state in any table, through
\* any walk, no event is left in the queue that was there before the change.
THEOREM DeferredAreRetried == Spec => []DeferredRetried
<1>1. Owed => DeferredRetried
  <2>1. ASSUME stack = << >> PROVE ~Owing
    BY <2>1 DEF Owing
  <2>2. QED
    BY <2>1 DEF Owed, DeferredRetried, Clean, AtRest, Running
<1>2. QED
  BY <1>1, AlwaysOwed, PTL

-----------------------------------------------------------------------------
(* A call that succeeds leaves the tree stable.                            *)

\* Each site holds a state of its region.
Placed == \A s \in Site : slot[s] \in tree.states[s]

\* A candidate leads out of the state its site holds.
LEMMA CandidateFrom ==
    ASSUME NEW f \in Frame, NEW s, NEW i \in Candidates(f, s)
    PROVE  Rows(s)[i].from = slot[s]
<1>1. \A k, e : \A j \in Picks(s, k, e) : Rows(s)[j].from = slot[s]
  BY DEF Picks
<1>2. \A arm : First(arm) \subseteq arm
  BY DEF First
<1>3. CASE f.walk = "event"
  BY <1>1, <1>2, <1>3 DEF Candidates, EventRows
<1>4. CASE f.walk = "completion"
  <2>1. i \in CompletionRows(s, f.origin)
    BY <1>4 DEF Candidates
  <2>2. i \in Picks(s, "completion", f.origin) \/ i \in Picks(s, "completion", Wild)
    BY <1>2, <2>1 DEF CompletionRows
  <2>3. QED
    BY <1>1, <2>2
<1>5. CASE f.walk = "exception"
  BY <1>5 DEF Candidates, ExceptionRows
<1>6. QED
  BY <1>3, <1>4, <1>5 DEF Frame

\* What a row enters is on the path of its region.
LEMMA EntersPath ==
    ASSUME tree \in Trees, Placed, NEW s \in Site, NEW i \in DOMAIN Rows(s),
           Rows(s)[i].from = slot[s], NEW upto
    PROVE  /\ Rows(s)[i].to \in tree.states[s]
           /\ Entered(s, Rows(s)[i], upto) \subseteq RegionPath(s)
<1> DEFINE row == Rows(s)[i]
<1>1. row.to \in tree.states[s]
  BY RegionFits DEF Placed
<1>2. Composite(row.to) => Incoming(row.to) \subseteq tree.nested[s]
  <2>1. Composite(row.to) => tree.subtree[row.to] \subseteq tree.nested[s]
    BY <1>1, RegionFits DEF Composite
  <2>2. QED
    BY <2>1 DEF Incoming
<1>3. QED
  BY <1>1, <1>2 DEF Entered, Enters, RegionPath

\* Installing a state keeps the sites in their regions.
LEMMA InstallPlaced ==
    ASSUME tree \in Trees, Placed, NEW s \in Site, NEW i \in DOMAIN Rows(s),
           Rows(s)[i].from = slot[s], NEW upto, Install(s, Rows(s)[i], upto), tree' = tree
    PROVE  Placed'
<1> DEFINE row     == Rows(s)[i]
           entered == Entered(s, row, upto)
           reset   == {u \in Site : \E v \in entered \ {s} : tree.node[u] = tree.node[v]}
<1> SUFFICES ASSUME NEW u \in Site PROVE slot'[u] \in tree.states[u]
  BY DEF Placed, Site
<1>1. slot' = [w \in Site |-> IF w = s THEN row.to
                              ELSE IF w \in reset THEN OnEntry(w) ELSE slot[w]]
  BY DEF Install
<1>2. row.to \in tree.states[s]
  BY EntersPath
<1>3. OnEntry(u) \in tree.states[u] /\ slot[u] \in tree.states[u]
  BY RegionFits DEF OnEntry, Placed
<1> HIDE DEF row, reset
<1>4. QED
  BY <1>1, <1>2, <1>3

\* Every step keeps the sites in their regions.
LEMMA StepPlaced == ASSUME TreeInv, Placed, [Next]_vars PROVE Placed'
<1>k. ASSUME slot' = slot, tree' = tree PROVE Placed'
  BY <1>k DEF Placed, Site
<1>1. CASE UNCHANGED vars
  BY <1>1, <1>k DEF vars, slotVars
<1>2. CASE (\E e \in Event : process_event(e)) \/ initialize
  BY <1>2, <1>k DEF process_event, initialize, slotVars
<1>3. ASSUME NEW n, set_states(n) PROVE Placed'
  <2>1. /\ tree' = tree
        /\ \A s \in Site : slot'[s] \in tree.states[s] \/ slot'[s] = slot[s]
    BY <1>3 DEF set_states
  <2>2. QED
    BY <2>1 DEF Placed, Site
<1>4. ASSUME Walking, NEW p \in Stops, Try(p) PROVE Placed'
  <2>1. tree \in Trees /\ Top \in Frame /\ Here(p) \in Site
    BY <1>4, TypesNow, StackTyped, StopTyped DEF Walking
  <2>2. CASE Miss(p) \/ GuardFails(p)
    BY <2>2, <1>k DEF Miss, GuardFails, slotVars
  <2>3. ASSUME NEW i \in DOMAIN Rows(Here(p)), i \in Candidates(Top, Here(p)),
               \/ TakeInternal(p, i) \/ ActionFails(p, i) \/ Move(p, i)
               \/ \E v \in Site : ExitFails(p, i, v) \/ EntryFails(p, i, v)
        PROVE  Placed'
    <3>1. CASE TakeInternal(p, i) \/ ActionFails(p, i) \/ \E v \in Site : ExitFails(p, i, v)
      BY <3>1, <1>k DEF TakeInternal, ActionFails, ExitFails, slotVars
    <3>2. CASE Move(p, i) \/ \E v \in Site : EntryFails(p, i, v)
      <4>1. tree' = tree /\ \E upto : Install(Here(p), Rows(Here(p))[i], upto)
        BY <3>2 DEF Move, EntryFails
      <4>2. Rows(Here(p))[i].from = slot[Here(p)]
        BY <2>1, <2>3, CandidateFrom
      <4>3. QED
        BY <2>1, <4>1, <4>2, InstallPlaced
    <3>3. QED
      BY <2>3, <3>1, <3>2
  <2>4. QED
    BY <1>4, <2>2, <2>3, TryCases
<1>5. CASE Step
  <2>1. CASE EventEnds \/ CompletionEnds \/ ExceptionEnds
    BY <2>1, <1>k DEF EventEnds, CompletionEnds, ExceptionEnds, StateKeeps, slotVars
  <2>2. CASE ProcessNext \/ ProcessDone \/ DrainNext \/ DrainDone
    BY <2>2, <1>k DEF ProcessNext, ProcessDone, DrainNext, DrainDone, StateKeeps, slotVars
  <2>3. QED
    BY <1>4, <1>5, <2>1, <2>2 DEF Step
<1>6. QED
  BY <1>1, <1>2, <1>3, <1>5 DEF Next

\* The regions hold for every tree.
LEMMA AlwaysPlaced == Spec => []Placed
<1>1. Init => Placed
  <2> SUFFICES ASSUME Init PROVE Placed
    OBVIOUS
  <2>1. tree \in Trees /\ slot = [s \in Site |-> tree.initial[s]]
    BY DEF Init
  <2>2. QED
    BY <2>1, RegionFits DEF Placed
<1>2. TreeInv /\ Placed /\ [Next]_vars => Placed'
  BY StepPlaced
<1>3. QED
  BY <1>1, <1>2, AlwaysTyped, PTL DEF Spec

\* The function the owner called, and the row it is in.
Bottom == stack[Len(stack)]
RowOf(g) == Rows(Order(g.walk)[g.pos])[g.row]
PlaceOf(g) == Order(g.walk)[g.pos]

\* The path that the row in progress leads away.
Leaving(g) ==
    IF g.at # "walk" /\ Moves(RowOf(g)) THEN RegionPath(PlaceOf(g)) ELSE {}

\* A site that is settled failed, and no row of an exception handler moved it
\* since; nor is the site of the failure lost that the exception rows handle.
Excused(g) ==
    /\ ~tree.tracks => g.settled = {}
    /\ tree.tracks /\ g.walk # "exception" => g.settled \subseteq failed
    /\ tree.tracks /\ g.walk = "exception" =>
         /\ g.settled \subseteq g.exited \union Leaving(g) \union failed
         /\ g.phase = "completion" =>
              \/ g.recovery = "moved" \/ g.faulting \in failed
              \/ g.at # "walk" /\ Progress(g, PlaceOf(g), RowOf(g))

\* The sites a walk of the completions passed by are stable, while it has
\* taken none.
Spent(g) ==
    g.walk = "completion" /\ g.at = "walk" /\ g.took = {} =>
        \A q \in 1..(g.pos - 1) : q \in DOMAIN tree.others =>
            (Pending(tree.others[q]) => tree.others[q] \in failed)

\* A call that succeeded left the tree stable.
Quiet ==
    ~Running /\ ret = "ok" /\ (tree.tracks \/ "fault" \notin call.did) =>
        \A s \in Site : Pending(s) => s \in failed

Peaceful ==
    /\ Running => Excused(Bottom) /\ Spent(Bottom)
    /\ Len(stack) >= 2 => Bottom.at # "walk"
    /\ Quiet

\* What makes a frame excused after a step.
LEMMA ExcusedBy ==
    ASSUME NEW g, tree' = tree,
           ~tree.tracks => g.settled = {},
           tree.tracks /\ g.walk # "exception" => g.settled \subseteq failed',
           tree.tracks /\ g.walk = "exception" =>
              /\ g.settled \subseteq g.exited \union Leaving(g) \union failed'
              /\ g.phase = "completion" =>
                   \/ g.recovery = "moved" \/ g.faulting \in failed'
                   \/ g.at # "walk" /\ Progress(g, PlaceOf(g), RowOf(g))
    PROVE  Excused(g)'
<1>1. (Leaving(g))' = Leaving(g)
  BY DEF Leaving, RowOf, PlaceOf, Rows, Order, RegionPath
<1>2. (Progress(g, PlaceOf(g), RowOf(g)))' = Progress(g, PlaceOf(g), RowOf(g))
  BY DEF Progress, RowOf, PlaceOf, Rows, Order, RegionPath
<1>3. QED
  BY <1>1, <1>2 DEF Excused

\* Failures that are history for a frame stay so while more are recorded.
LEMMA ExcusedGrows ==
    ASSUME NEW g, Excused(g), tree' = tree, failed \subseteq failed'
    PROVE  Excused(g)'
BY ExcusedBy DEF Excused

\* The owner's function goes on.
LEMMA BottomGoes ==
    ASSUME stack \in Seq(Body), Running, Len(stack) = 1, NEW g \in Body, GoTo(g)
    PROVE  Bottom' = g /\ Len(stack') = 1 /\ Running' /\ ret' = "none"
BY GoesTo DEF Bottom

\* What a nested function does, the one the owner called waits out.
LEMMA BottomWaits ==
    ASSUME stack \in Seq(Body), Running, Peaceful, Len(stack) >= 2, tree' = tree,
           failed \subseteq failed',
           \/ \E g \in Body : GoTo(g)
           \/ \E g, c \in Body : Enter(g, c)
           \/ \E v : Return(v)
    PROVE  Peaceful'
<1> DEFINE L == Len(stack)
<1>1. /\ L \in Nat /\ Len(stack') \in Nat /\ Len(stack') >= 1 /\ stack'[Len(stack')] = stack[L]
      /\ Running'
  <2>1. L \in Nat /\ L >= 2
    BY StackTyped
  <2>2. ASSUME NEW g \in Body, GoTo(g)
        PROVE  Len(stack') = L /\ stack'[L] = stack[L] /\ Running'
    BY <2>1, <2>2, GoesTo
  <2>3. ASSUME NEW g \in Body, NEW c \in Body, Enter(g, c), L >= 3
        PROVE  Len(stack') = L + 1 /\ stack'[L + 1] = stack[L] /\ Running'
    <3>1. Len(stack') = L + 1 /\ \A i \in 3..Len(stack') : stack'[i] = stack[i - 1]
      BY <2>3, CallsOut
    <3>2. L + 1 \in 3..(L + 1) /\ (L + 1) - 1 = L
      BY <2>1
    <3>3. QED
      BY <2>3, <3>1, <3>2, CallsOut
  <2>4. ASSUME NEW g \in Body, NEW c \in Body, Enter(g, c), L = 2
        PROVE  Len(stack') = L + 1 /\ stack'[L + 1] = stack[L] /\ Running'
    <3>1. Len(stack') = L + 1 /\ \A i \in 3..Len(stack') : stack'[i] = stack[i - 1]
      BY <2>4, CallsOut
    <3>2. 3 \in 3..3 /\ L + 1 = 3 /\ 3 - 1 = L
      BY <2>4
    <3>3. QED
      BY <2>4, <3>1, <3>2, CallsOut
  <2>5. ASSUME NEW v, Return(v)
        PROVE  Len(stack') = L - 1 /\ stack'[L - 1] = stack[L] /\ Running'
    <3>1. Len(stack') = L - 1 /\ \A i \in 1..Len(stack') : stack'[i] = stack[i + 1]
      BY <2>5, Returns
    <3>2. L - 1 \in 1..(L - 1) /\ (L - 1) + 1 = L
      BY <2>1
    <3>3. QED
      BY <2>5, <2>1, <3>1, <3>2, Returns
  <2>6. L = 2 \/ L >= 3
    <3>1. \A n \in Nat : n >= 2 => n = 2 \/ n >= 3
      OBVIOUS
    <3>2. QED
      BY <2>1, <3>1
  <2>7. QED
    BY <2>1, <2>2, <2>3, <2>4, <2>5, <2>6
<1>2. PICK b : b = stack[L]
  OBVIOUS
<1>3. Excused(b) /\ b.at # "walk" /\ Bottom' = b
  BY <1>1, <1>2 DEF Peaceful, Bottom
<1>4. Excused(b)'
  BY <1>3, ExcusedGrows
<1>5. Excused(Bottom)' /\ Spent(Bottom)' /\ Bottom'.at # "walk"
  <2>1. Bottom'.at # "walk"
    BY <1>3
  <2>2. Spent(Bottom)'
    BY <2>1 DEF Spent
  <2>3. Excused(Bottom)'
    BY <1>3, <1>4 DEF Excused, Leaving, RowOf, PlaceOf, Progress
  <2>4. QED
    BY <2>1, <2>2, <2>3
<1>6. QED
  BY <1>1, <1>5 DEF Peaceful, Quiet

\* The history of failures only shrinks in the exception rows of the function
\* the owner called.
LEMMA FailedGrows ==
    ASSUME Step, Under1 # << >>
    PROVE  failed \subseteq failed'
<1>b. ASSUME NEW s, NEW row, NEW entered, Blame(s, Fresh(row, entered)) PROVE failed \subseteq failed'
  BY <1>b DEF Blame, Fresh
<1>c. ASSUME NEW s, Blame(s, {}) PROVE failed \subseteq failed'
  BY <1>c DEF Blame
<1>1. ASSUME NEW p \in Stops, Try(p) PROVE failed \subseteq failed'
  <2>1. CASE Miss(p) \/ GuardFails(p)
    BY <2>1, <1>c DEF Miss, GuardFails
  <2>2. ASSUME NEW i, TakeInternal(p, i) \/ ActionFails(p, i) PROVE failed \subseteq failed'
    BY <2>2, <1>c DEF TakeInternal, ActionFails, ActionsFail, Fails
  <2>3. ASSUME NEW i, Move(p, i) PROVE failed \subseteq failed'
    BY <2>3 DEF Move, Fresh
  <2>4. ASSUME NEW i, NEW v, ExitFails(p, i, v) PROVE failed \subseteq failed'
    BY <2>4, <1>c DEF ExitFails, Fails
  <2>5. ASSUME NEW i, NEW v, EntryFails(p, i, v) PROVE failed \subseteq failed'
    BY <2>5, <1>b DEF EntryFails
  <2>6. QED
    BY <1>1, <2>1, <2>2, <2>3, <2>4, <2>5 DEF Try
<1>2. CASE EventEnds \/ CompletionEnds \/ ExceptionEnds
  BY <1>2 DEF EventEnds, CompletionEnds, ExceptionEnds
<1>3. CASE ProcessNext \/ ProcessDone \/ DrainNext \/ DrainDone
  BY <1>3, <1>c DEF ProcessNext, ProcessDone, DrainNext, DrainDone
<1>4. QED
  BY <1>1, <1>2, <1>3 DEF Step

\* The moves of the call stack while the owner's function runs.
LEMMA PeaceGoes ==
    ASSUME stack \in Seq(Body), Running, Len(stack) = 1, NEW g \in Body, GoTo(g),
           Excused(g)', Spent(g)'
    PROVE  Peaceful'
<1>1. Bottom' = g /\ Len(stack') = 1 /\ Running' /\ ret' = "none"
  BY BottomGoes
<1>2. Excused(Bottom)'
  BY <1>1 DEF Excused, Leaving, RowOf, PlaceOf, Progress
<1>3. Spent(Bottom)'
  BY <1>1 DEF Spent
<1>4. QED
  BY <1>1, <1>2, <1>3 DEF Peaceful, Quiet

LEMMA PeaceCalls ==
    ASSUME stack \in Seq(Body), Running, Len(stack) = 1,
           NEW g \in Body, NEW c \in Body, Enter(g, c), Excused(g)', g.at # "walk"
    PROVE  Peaceful'
<1>1. Bottom' = g /\ Len(stack') = 2 /\ Running'
  BY CallsOut DEF Bottom
<1>2. Excused(Bottom)'
  BY <1>1 DEF Excused, Leaving, RowOf, PlaceOf, Progress
<1>3. Spent(Bottom)' /\ Bottom'.at # "walk"
  BY <1>1 DEF Spent
<1>4. QED
  BY <1>1, <1>2, <1>3 DEF Peaceful, Quiet

LEMMA PeaceReturns ==
    ASSUME stack \in Seq(Body), Running, Len(stack) = 1, NEW v, Return(v),
           v # "ok" \/ Quiet'
    PROVE  Peaceful'
<1>1. Len(stack') = 0 /\ stack' \in Seq(Body) /\ ret' = v
  BY Returns
<1>2. ~Running'
  BY <1>1 DEF Running
<1>3. QED
  BY <1>1, <1>2 DEF Peaceful, Quiet

\* The state of the tree decides what waits.
LEMMA PendingKept ==
    ASSUME slot' = slot, tree' = tree, NEW s
    PROVE  Pending(s)' <=> Pending(s)
BY DEF Pending, Active, Holds, CompletionRows, Terminal, Composite, Picks, First, Rows, Site

\* A completion that waits at a site that is not settled is tried there.
LEMMA PendingIsDue ==
    ASSUME Top.walk = "completion", Top.took = {}, NEW q \in DOMAIN tree.others,
           Pending(tree.others[q]), tree.others[q] \notin Top.settled
    PROVE  /\ Due(Top, q)
           /\ \E i \in Candidates(Top, tree.others[q]) : ~MayPass(tree.others[q], i)
<1> DEFINE s == tree.others[q]
<1>1. CompletionRows(s, Wild) \subseteq CompletionRows(s, Top.origin)
  BY DEF CompletionRows, First
<1>2. Active(tree.node[s]) /\ \E i \in Candidates(Top, s) : ~Rows(s)[i].guard
  BY <1>1 DEF Pending, Candidates
<1>3. Open(Top, s)
  BY DEF Open
<1>4. Order(Top.walk) = tree.others
  BY DEF Order
<1>5. Admitted(Top, q)
  BY <1>2, <1>4 DEF Admitted
<1>6. QED
  BY <1>2, <1>3, <1>4, <1>5 DEF Due, MayPass

\* What is behind a walk of the completions is stable, if nothing is left to
\* try there.
LEMMA Behind ==
    ASSUME TreeInv, Running, Excused(Top), Spent(Top), Top.walk = "completion", Top.at = "walk",
           Top.took = {}, NEW q \in DOMAIN tree.others, q \notin Ahead,
           Pending(tree.others[q])
    PROVE  tree.others[q] \in failed
<1>1. Top \in Frame /\ Top.pos \in Nat \ {0} /\ tree.others \in Seq(Site)
  BY TypesNow, StackTyped, TreeFits DEF Frame
<1>2. CASE q < Top.pos
  <2>1. q \in 1..(Top.pos - 1)
    BY <1>1, <1>2
  <2>2. QED
    BY <2>1 DEF Spent
<1>3. CASE ~(q < Top.pos)
  <2>1. q \in Top.pos..Len(tree.others)
    BY <1>1, <1>3
  <2>2. ~Due(Top, q)
    BY <2>1 DEF Ahead, Order
  <2>3. tree.others[q] \in Top.settled
    BY <2>2, PendingIsDue
  <2>4. Top.settled \subseteq failed
    BY <2>3 DEF Excused
  <2>5. QED
    BY <2>3, <2>4
<1>4. QED
  BY <1>2, <1>3

\* An error that is thrown at a site.
LEMMA PeaceThrows ==
    ASSUME TreeInv, Peaceful, Running, Len(stack) = 1, tree' = tree, NEW v \in Broken \union {"InvalidEvent"},
           NEW s \in Site, Throw(v, s),
           Top.walk # "exception" /\ v \in Failures =>
              failed' = failed \union (IF Top.walk = "completion" THEN {s} ELSE {})
    PROVE  Peaceful'
<1>t. stack \in Seq(Body) /\ Top \in Frame /\ Shaped(Top) /\ Top = Bottom
  BY TypesNow, StackTyped DEF Bottom
<1>e. Excused(Top)
  BY <1>t DEF Peaceful
<1>1. CASE Recoverable(v)
  <2>1. PICK g \in Body : /\ GoTo(g) /\ g.walk = "exception" /\ g.at = "walk"
                          /\ g.settled = Top.settled /\ g.phase = Top.phase
                          /\ g.phase = "completion" => g.faulting = s
    BY <1>1, <1>t, ThrowsTo
  <2>2. /\ Top.walk # "exception" /\ v \in Failures /\ Top.phase = Top.walk
        /\ failed' = failed \union (IF Top.walk = "completion" THEN {s} ELSE {})
    BY <1>1, <1>t DEF Recoverable, Shaped
  <2>3. /\ ~tree.tracks => g.settled = {}
        /\ tree.tracks => g.settled \subseteq failed'
    BY <1>e, <2>1, <2>2 DEF Excused
  <2>4. g.phase = "completion" => g.faulting \in failed'
    BY <2>1, <2>2
  <2>5. Excused(g)'
    BY <2>1, <2>3, <2>4, ExcusedBy
  <2>6. Spent(g)'
    BY <2>1 DEF Spent
  <2>7. QED
    BY <1>t, <2>1, <2>5, <2>6, PeaceGoes
<1>2. CASE ~Recoverable(v)
  <2>1. Return(v) /\ v # "ok"
    BY <1>2 DEF Throw, Broken, Failures
  <2>2. QED
    BY <1>t, <2>1, PeaceReturns
<1>3. QED
  BY <1>1, <1>2

\* A row in progress goes on: what it leaves and what it excuses stay.
LEMMA RowKeeps ==
    ASSUME Top \in Body, Top.at # "walk", Excused(Top), tree' = tree, failed \subseteq failed',
           NEW g, \/ g = Top \/ g = [Top EXCEPT !.at = "drain"]
                  \/ \E q : g = [Top EXCEPT !.todo = q]
    PROVE  Excused(g)' /\ g.at # "walk"
<1>1. Top \in Frame
  BY DEF Body
<1>2. /\ g.walk = Top.walk /\ g.phase = Top.phase /\ g.recovery = Top.recovery
      /\ g.settled = Top.settled /\ g.exited = Top.exited /\ g.faulting = Top.faulting
      /\ g.pos = Top.pos /\ g.row = Top.row /\ g.at # "walk"
  <2>1. CASE g = Top
    BY <2>1
  <2>2. CASE g = [Top EXCEPT !.at = "drain"]
    BY <1>1, <2>2 DEF Frame
  <2>3. ASSUME NEW q, g = [Top EXCEPT !.todo = q]
        PROVE  /\ g.walk = Top.walk /\ g.phase = Top.phase /\ g.recovery = Top.recovery
               /\ g.settled = Top.settled /\ g.exited = Top.exited /\ g.faulting = Top.faulting
               /\ g.pos = Top.pos /\ g.row = Top.row /\ g.at # "walk"
    BY <1>1, <2>3 DEF Frame
  <2>4. QED
    BY <2>1, <2>2, <2>3
<1>3. Leaving(g) = Leaving(Top) /\ RowOf(g) = RowOf(Top) /\ PlaceOf(g) = PlaceOf(Top)
  BY <1>2 DEF Leaving, RowOf, PlaceOf
<1>4. Progress(g, PlaceOf(g), RowOf(g)) <=> Progress(Top, PlaceOf(Top), RowOf(Top))
  BY <1>2, <1>3 DEF Progress
<1>5. Excused(g)'
  BY <1>2, <1>3, <1>4, ExcusedBy DEF Excused
<1>6. QED
  BY <1>2, <1>5

\* A row that is tried: errors are thrown at its site, and a row of the
\* exception handlers takes back the failures of what it moves at most.
LEMMA TakenBlames ==
    ASSUME NEW p, NEW i,
           \/ TakeInternal(p, i) \/ ActionFails(p, i) \/ Move(p, i)
           \/ \E v \in Site : ExitFails(p, i, v) \/ EntryFails(p, i, v)
    PROVE  \/ \E v \in Broken :
                 /\ Throw(v, Here(p))
                 /\ Top.walk # "exception" /\ v \in Failures =>
                      failed' = failed \union (IF Top.walk = "completion" THEN {Here(p)} ELSE {})
           \/ /\ Proceed(p, i)
              /\ \/ failed' = failed
                 \/ /\ Move(p, i) /\ Top.walk = "exception" /\ Moves(Rows(Here(p))[i])
                    /\ \E upto : failed' = failed \ Entered(Here(p), Rows(Here(p))[i], upto)
<1>b. ASSUME NEW entered, NEW row, Blame(Here(p), Fresh(row, entered)), Top.walk # "exception"
      PROVE  failed' = failed \union (IF Top.walk = "completion" THEN {Here(p)} ELSE {})
  BY <1>b DEF Blame, Fresh
<1>f. ASSUME NEW v \in Failures, Fails(p, v)
      PROVE  /\ v \in Broken /\ Throw(v, Here(p))
             /\ failed' = failed \union (IF Top.walk = "completion" THEN {Here(p)} ELSE {})
  BY <1>f DEF Fails, Blame, Broken
<1>q. "QueueFull" \in Broken /\ "QueueFull" \notin Failures /\ "ActionFailed" \in Failures
      /\ "ActionFailed" \in Broken
  BY DEF Broken, Failures
<1>d. ASSUME NEW what, Defers(p, i, what) PROVE Throw("QueueFull", Here(p)) \/ Proceed(p, i)
  BY <1>d DEF Defers
<1>1. CASE TakeInternal(p, i)
  <2>1. (\E v \in Failures : Fails(p, v)) \/ (Defers(p, i, {"took"}) /\ failed' = failed)
    BY <1>1 DEF TakeInternal, ActionsFail
  <2>2. QED
    BY <1>f, <1>q, <1>d, <2>1
<1>2. CASE ActionFails(p, i)
  <2>1. \E v \in Failures : Fails(p, v)
    BY <1>2 DEF ActionFails, ActionsFail
  <2>2. QED
    BY <1>f, <2>1
<1>3. CASE Move(p, i)
  <2>1. PICK entered : /\ \E upto : entered = Entered(Here(p), Rows(Here(p))[i], upto)
                       /\ failed' = failed \ Fresh(Rows(Here(p))[i], entered)
    BY <1>3 DEF Move
  <2>2. Defers(p, i, {"took", "changed"})
    BY <1>3 DEF Move
  <2>3. \/ failed' = failed
        \/ Top.walk = "exception" /\ Moves(Rows(Here(p))[i]) /\ failed' = failed \ entered
    BY <2>1 DEF Fresh
  <2>4. QED
    BY <1>3, <1>q, <1>d, <2>1, <2>2, <2>3
<1>4. ASSUME NEW v \in Site, ExitFails(p, i, v) PROVE Fails(p, "ActionFailed")
  BY <1>4 DEF ExitFails
<1>5. ASSUME NEW v \in Site, EntryFails(p, i, v)
      PROVE  /\ Throw("ActionFailed", Here(p))
             /\ Top.walk # "exception" =>
                  failed' = failed \union (IF Top.walk = "completion" THEN {Here(p)} ELSE {})
  <2>1. /\ Throw("ActionFailed", Here(p))
        /\ \E entered : Blame(Here(p), Fresh(Rows(Here(p))[i], entered))
    BY <1>5 DEF EntryFails
  <2>2. QED
    BY <1>b, <2>1
<1>6. QED
  BY <1>f, <1>q, <1>1, <1>2, <1>3, <1>4, <1>5

\* Passing a site by leaves it stable behind the walk.
LEMMA MissPeaceful ==
    ASSUME TreeInv, Peaceful, Walking, Len(stack) = 1, NEW p \in Stops, Miss(p)
    PROVE  Peaceful'
<1>r. /\ Running /\ Top.at = "walk" /\ tree \in Trees /\ stack \in Seq(Body) /\ Top = Bottom
      /\ Top \in Frame /\ Top \in Body /\ p \in Nat \ {0} /\ Here(p) \in Site
      /\ p \in DOMAIN Order(Top.walk) /\ tree.others \in Seq(Site)
  BY TypesNow, StackTyped, StopTyped, TreeFits DEF Walking, Bottom
<1>e. Excused(Top) /\ Spent(Top)
  BY <1>r DEF Peaceful
<1>u. slot' = slot /\ tree' = tree /\ failed' = failed
  BY DEF Miss, slotVars
<1>1. PICK g : g = [Top EXCEPT !.pos = p + 1]
  OBVIOUS
<1>2. /\ g \in Body /\ g.pos = p + 1 /\ g.walk = Top.walk /\ g.phase = Top.phase
      /\ g.at = "walk" /\ g.took = Top.took /\ g.recovery = Top.recovery
      /\ g.settled = Top.settled /\ g.exited = Top.exited /\ g.faulting = Top.faulting
  BY <1>r, <1>1, GoesBehind
<1>3. GoTo(g)
  BY <1>1 DEF Miss
<1>4. Excused(g)'
  <2>1. Leaving(Top) = {}
    BY <1>r DEF Leaving
  <2>2. QED
    BY <1>e, <1>r, <1>u, <1>2, <2>1, ExcusedBy DEF Excused
<1>5. ASSUME Top.walk = "completion", Top.took = {}, NEW q \in 1..p, q \in DOMAIN tree.others,
             Pending(tree.others[q])
      PROVE  tree.others[q] \in failed
  <2>1. CASE q = p
    <3>1. Here(p) = tree.others[p]
      BY <1>5 DEF Here, Order
    <3>2. \A i \in Candidates(Top, tree.others[p]) : MayPass(tree.others[p], i)
      BY <3>1 DEF Miss
    <3>3. tree.others[p] \in Top.settled
      BY <1>5, <2>1, <3>2, PendingIsDue
    <3>4. Top.settled \subseteq failed
      BY <1>e, <1>5, <3>3 DEF Excused
    <3>5. QED
      BY <2>1, <3>3, <3>4
  <2>2. CASE q # p
    <3>1. q \in Nat /\ ~(p <= q)
      BY <1>r, <2>2
    <3>2. q \notin Ahead
      BY <3>1 DEF Stops
    <3>3. QED
      BY <1>e, <1>r, <1>5, <3>2, Behind
  <2>3. QED
    BY <2>1, <2>2
<1>6. Spent(g)'
  <2>1. (p + 1) - 1 = p
    BY <1>r
  <2>2. \A s : Pending(s)' <=> Pending(s)
    BY <1>u, PendingKept
  <2>3. QED
    BY <1>u, <1>2, <1>5, <2>1, <2>2 DEF Spent
<1>7. QED
  BY <1>r, <1>2, <1>3, <1>4, <1>6, PeaceGoes

\* A row is taken: an exception row that moves takes with it the failure it
\* is there for, or leaves it on record.
LEMMA TakePeaceful ==
    ASSUME TreeInv, Placed, Peaceful, Walking, Len(stack) = 1, tree' = tree, NEW p \in Stops,
           NEW i \in DOMAIN Rows(Here(p)), i \in Candidates(Top, Here(p)),
           \/ TakeInternal(p, i) \/ ActionFails(p, i) \/ Move(p, i)
           \/ \E v \in Site : ExitFails(p, i, v) \/ EntryFails(p, i, v)
    PROVE  Peaceful'
<1> DEFINE row == Rows(Here(p))[i]
<1>r. /\ Running /\ Top.at = "walk" /\ tree \in Trees /\ stack \in Seq(Body) /\ Top = Bottom
      /\ Top \in Frame /\ Top \in Body /\ p \in Nat \ {0} /\ Here(p) \in Site
  BY TypesNow, StackTyped, StopTyped DEF Walking, Bottom
<1>e. Excused(Top) /\ Leaving(Top) = {}
  BY <1>r DEF Peaceful, Leaving
<1>1. CASE \E v \in Broken :
             /\ Throw(v, Here(p))
             /\ Top.walk # "exception" /\ v \in Failures =>
                  failed' = failed \union (IF Top.walk = "completion" THEN {Here(p)} ELSE {})
  BY <1>1, <1>r, PeaceThrows
<1>2. CASE /\ Proceed(p, i)
           /\ \/ failed' = failed
              \/ /\ Move(p, i) /\ Top.walk = "exception" /\ Moves(row)
                 /\ \E upto : failed' = failed \ Entered(Here(p), row, upto)
  <2>1. PICK g : g = [Top EXCEPT !.pos = p, !.row = i, !.at = "process", !.todo = row.process]
    OBVIOUS
  <2>2. /\ g \in Body /\ g.walk = Top.walk /\ g.phase = Top.phase
        /\ g.recovery = Top.recovery /\ g.settled = Top.settled /\ g.exited = Top.exited
        /\ g.faulting = Top.faulting /\ g.at = "process" /\ g.pos = p /\ g.row = i
    <3>1. g \in Body
      BY <1>r, <2>1, InRow
    <3>2. PICK q : q = row.process
      OBVIOUS
    <3>3. g = [Top EXCEPT !.pos = p, !.row = i, !.at = "process", !.todo = q]
      BY <2>1, <3>2
    <3>4. Top \in Frame
      BY <1>r
    <3>5. /\ g.walk = Top.walk /\ g.phase = Top.phase /\ g.took = Top.took
          /\ g.recovery = Top.recovery /\ g.settled = Top.settled /\ g.exited = Top.exited
          /\ g.faulting = Top.faulting /\ g.at = "process" /\ g.pos = p /\ g.row = i
      BY <3>3, <3>4 DEF Frame
    <3>6. QED
      BY <3>1, <3>5
  <2>3. PlaceOf(g) = Here(p) /\ RowOf(g) = row
    BY <2>2 DEF PlaceOf, RowOf, Here
  <2>4. GoTo(g)
    BY <1>2, <2>1 DEF Proceed
  <2>5. Spent(g)'
    BY <2>2 DEF Spent
  <2>6. CASE failed' = failed
    <3>1. Excused(g)'
      BY <1>e, <1>r, <2>2, <2>6, ExcusedBy DEF Excused
    <3>2. QED
      BY <1>r, <2>2, <2>4, <2>5, <3>1, PeaceGoes
  <2>7. ASSUME Top.walk = "exception", Moves(row), NEW upto,
               failed' = failed \ Entered(Here(p), row, upto)
        PROVE  Peaceful'
    <3>1. Leaving(g) = RegionPath(Here(p))
      BY <2>2, <2>3, <2>7 DEF Leaving
    <3>2. Entered(Here(p), row, upto) \subseteq RegionPath(Here(p))
      <4>1. row.from = slot[Here(p)]
        BY <1>r, CandidateFrom
      <4>2. QED
        BY <1>r, <4>1, EntersPath
    <3>3. failed \subseteq Leaving(g) \union failed'
      BY <2>7, <3>1, <3>2
    <3>4. tree.tracks => (Progress(g, PlaceOf(g), RowOf(g)) <=> g.faulting \in Leaving(g))
      BY <2>3, <2>7, <3>1 DEF Progress
    <3>5. Excused(g)'
      <4>1. ~tree.tracks => g.settled = {}
        BY <1>e, <2>2 DEF Excused
      <4>2. tree.tracks => g.settled \subseteq g.exited \union Leaving(g) \union failed'
        BY <1>e, <2>2, <2>7, <3>3 DEF Excused
      <4>3. tree.tracks /\ g.phase = "completion" =>
              \/ g.recovery = "moved" \/ g.faulting \in failed'
              \/ Progress(g, PlaceOf(g), RowOf(g))
        BY <1>e, <1>r, <2>2, <2>7, <3>3, <3>4 DEF Excused
      <4>4. g.at # "walk" /\ g.walk = "exception"
        BY <2>2, <2>7
      <4>5. QED
        BY <4>1, <4>2, <4>3, <4>4, ExcusedBy
    <3>6. QED
      BY <1>r, <2>2, <2>4, <2>5, <3>5, PeaceGoes
  <2>8. QED
    BY <1>2, <2>6, <2>7
<1>3. QED
  BY <1>1, <1>2, TakenBlames

\* A stop of a walk of the function the owner called.
LEMMA StopPeaceful ==
    ASSUME TreeInv, Placed, Peaceful, Walking, Len(stack) = 1, NEW p \in Stops, Try(p)
    PROVE  Peaceful'
<1>r. Running /\ tree' = tree /\ tree \in Trees /\ Here(p) \in Site
  <2>1. Step
    BY DEF Step
  <2>2. QED
    BY <2>1, StepFoot, TypesNow, StackTyped, StopTyped
<1>1. CASE GuardFails(p)
  <2>1. /\ Throw("GuardFailed", Here(p)) /\ "GuardFailed" \in Broken
        /\ failed' = failed \union (IF Top.walk = "completion" THEN {Here(p)} ELSE {})
    BY <1>1 DEF GuardFails, Blame, Broken, Failures
  <2>2. QED
    BY <1>r, <2>1, PeaceThrows
<1>2. QED
  BY <1>r, <1>1, MissPeaceful, TakePeaceful, TryCases

\* A row in progress of the function the owner called.
LEMMA RowPeaceful ==
    ASSUME TreeInv, Peaceful, Len(stack) = 1, ProcessNext \/ ProcessDone \/ DrainNext \/ DrainDone
    PROVE  Peaceful'
<1>r. /\ Running /\ tree \in Trees /\ stack \in Seq(Body) /\ Top \in Frame /\ Top \in Body
      /\ Top.at # "walk" /\ tree' = tree /\ Place \in Site /\ Top = Bottom
      /\ deferred \in Seq(Event)
  BY TypesNow, StackTyped, PlaceOfRow
     DEF ProcessNext, ProcessDone, DrainNext, DrainDone, Idle, Resumed, StateKeeps, Bottom
<1>e. Excused(Top)
  BY <1>r DEF Peaceful
<1>d. ASSUME RowDone, failed' = failed PROVE Peaceful'
  <2>1. PICK g : g = [Handled(Top, Place) EXCEPT !.row = 0]
    OBVIOUS
  <2>2. /\ g \in Body /\ g.at = "walk" /\ g.walk = Top.walk
        /\ g.settled = Top.settled /\ g.faulting = Top.faulting
        /\ Top.walk # "exception" => g.took = Top.took \union {Place}
        /\ Top.walk = "exception" =>
             /\ g.exited = IF tree.tracks /\ Moves(InProgress)
                           THEN Top.exited \union RegionPath(Place) ELSE Top.exited
             /\ g.recovery = IF Progress(Top, Place, InProgress) \/ Top.recovery = "moved"
                             THEN "moved" ELSE "still"
    BY <1>r, <2>1, RowEnds
  <2>3. GoTo(g)
    BY <1>d, <2>1 DEF RowDone
  <2>4. InProgress = RowOf(Top) /\ Place = PlaceOf(Top)
    BY DEF InProgress, RowOf, PlaceOf, Place, Here
  <2>5. Leaving(Top) = IF Moves(InProgress) THEN RegionPath(Place) ELSE {}
    BY <1>r, <2>4 DEF Leaving
  <2>6. Top.walk = "exception" => g.phase = Top.phase
    <3>1. CASE Top.walk = "exception"
      <4>1. Handled(Top, Place).phase = Top.phase
        BY <1>r, <3>1 DEF Handled, Frame
      <4>2. QED
        BY <2>1, <2>2, <4>1 DEF Body, Frame
    <3>2. QED
      BY <3>1
  <2>7. Excused(g)'
    <3>1. ~tree.tracks => g.settled = {}
      BY <1>e, <2>2 DEF Excused
    <3>2. tree.tracks /\ g.walk # "exception" => g.settled \subseteq failed'
      BY <1>d, <1>e, <2>2 DEF Excused
    <3>3. tree.tracks /\ g.walk = "exception" =>
             g.settled \subseteq g.exited \union Leaving(g) \union failed'
      BY <1>d, <1>e, <2>2, <2>5 DEF Excused
    <3>4. tree.tracks /\ g.walk = "exception" /\ g.phase = "completion" =>
             g.recovery = "moved" \/ g.faulting \in failed'
      BY <1>d, <1>e, <2>2, <2>4, <2>6 DEF Excused
    <3>5. QED
      BY <1>r, <3>1, <3>2, <3>3, <3>4, ExcusedBy
  <2>8. Spent(g)'
    BY <2>2 DEF Spent
  <2>9. QED
    BY <1>r, <2>2, <2>3, <2>7, <2>8, PeaceGoes
<1>n. ASSUME NEW g \in Body, Excused(g)', g.at # "walk", NEW e \in Event,
             NEW via \in {"process", "retry"}, Nest(g, e, via)
      PROVE  Peaceful'
  <2>1. Enter(g, NewFrame(e, via)) /\ NewFrame(e, via) \in Body
    BY <1>n, FrameMade DEF Nest
  <2>2. QED
    BY <1>r, <1>n, <2>1, PeaceCalls
<1>k. ASSUME GoTo(Top), failed' = failed PROVE Peaceful'
  <2>1. PICK g : g = Top
    OBVIOUS
  <2>2. Excused(g)' /\ g.at # "walk"
    BY <1>e, <1>k, <1>r, <2>1, RowKeeps
  <2>3. Spent(g)'
    BY <2>2 DEF Spent
  <2>4. QED
    BY <1>k, <1>r, <2>1, <2>2, <2>3, PeaceGoes
<1>t. ASSUME NEW v \in Results, v # "ok", Throw(v, Place), Blame(Place, {}) PROVE Peaceful'
  <2>1. /\ v \in Broken \union {"InvalidEvent"}
        /\ failed' = failed \union (IF Top.walk = "completion" THEN {Place} ELSE {})
    BY <1>t DEF Blame, Broken, Results
  <2>2. QED
    BY <1>r, <1>t, <2>1, PeaceThrows
<1>1. CASE ProcessNext
  <2>1. failed' = failed /\ Top.at = "process"
    BY <1>1 DEF ProcessNext, Idle
  <2>2. CASE Top.todo # << >> /\ Nest([Top EXCEPT !.todo = Tail(@)], Head(Top.todo), "process")
    <3>1. PICK g : g = [Top EXCEPT !.todo = Tail(@)]
      OBVIOUS
    <3>2. g \in Body /\ Head(Top.todo) \in Event
      BY <1>r, <2>2, <3>1, RowGoesOn
    <3>3. g = [Top EXCEPT !.todo = Tail(Top.todo)]
      BY <3>1
    <3>4. Excused(g)' /\ g.at # "walk"
      BY <1>e, <1>r, <2>1, <3>3, RowKeeps
    <3>5. QED
      BY <1>n, <2>2, <3>1, <3>2, <3>4
  <2>3. CASE Drains(InProgress) /\ GoTo([Top EXCEPT !.at = "drain"])
    <3>1. PICK g : g = [Top EXCEPT !.at = "drain"]
      OBVIOUS
    <3>2. g \in Body /\ g.at = "drain"
      BY <1>r, <2>1, <2>3, <3>1, RowGoesOn DEF Frame
    <3>3. Excused(g)'
      BY <1>e, <1>r, <2>1, <3>1, RowKeeps
    <3>4. Spent(g)'
      BY <3>2 DEF Spent
    <3>5. QED
      BY <1>r, <2>3, <3>1, <3>2, <3>3, <3>4, PeaceGoes
  <2>4. QED
    BY <1>1, <1>d, <2>1, <2>2, <2>3 DEF ProcessNext
<1>2. CASE ProcessDone \/ DrainDone
  <2>1. /\ ret \in Results
        /\ \/ GoTo(Top) /\ failed' = failed
           \/ ret # "ok" /\ Throw(ret, Place) /\ Blame(Place, {})
    BY <1>2, TypesNow DEF ProcessDone, DrainDone, Resumed, Dropped
  <2>2. QED
    BY <1>k, <1>t, <2>1
<1>3. CASE DrainNext
  <2>1. failed' = failed
    BY <1>3 DEF DrainNext
  <2>2. CASE deferred # << >>
    <3>1. Nest(Top, Head(deferred), "retry") /\ Head(deferred) \in Event
      BY <1>3, <1>r, <2>2 DEF DrainNext
    <3>2. PICK g : g = Top
      OBVIOUS
    <3>3. Excused(g)' /\ g.at # "walk" /\ g \in Body
      BY <1>e, <1>r, <2>1, <3>2, RowKeeps
    <3>4. QED
      BY <1>n, <3>1, <3>2, <3>3
  <2>3. QED
    BY <1>3, <1>d, <2>1, <2>2 DEF DrainNext
<1>4. QED
  BY <1>1, <1>2, <1>3

\* The end of a walk of the function the owner called: where nothing was taken
\* and nothing is left to try, the tree is stable.
LEMMA EndPeaceful ==
    ASSUME TreeInv, Owed, Peaceful, Len(stack) = 1, EventEnds \/ CompletionEnds \/ ExceptionEnds
    PROVE  Peaceful'
<1>r. /\ Running /\ Top.at = "walk" /\ Ahead = {} /\ tree \in Trees /\ stack \in Seq(Body)
      /\ Top \in Frame /\ Shaped(Top) /\ tree' = tree /\ slot' = slot /\ call' = call
      /\ failed' = failed
  BY TypesNow, StackTyped
     DEF EventEnds, CompletionEnds, ExceptionEnds, WalkEnds, Walking, StateKeeps, slotVars
<1>b. Top = Bottom
  BY <1>r, StackTyped DEF Bottom
<1>e. Excused(Top) /\ Spent(Top) /\ Leaving(Top) = {}
  BY <1>r, <1>b DEF Peaceful, Leaving
<1>w. /\ Top.event \in Event \union {Wild} /\ Top.origin \in Event \union {Wild}
      /\ Wild \in Event \union {Wild} /\ {} \in SUBSET Site /\ Top.settled \in SUBSET Site
  BY <1>r DEF Frame
<1>s. ASSUME NEW o \in Event \union {Wild}, NEW S \in SUBSET Site, GoTo(Restart(Top, o, S)),
             ~tree.tracks => S = {}, S \subseteq failed
      PROVE  Peaceful'
  <2>1. PICK g : g = Restart(Top, o, S)
    OBVIOUS
  <2>2. /\ g \in Body /\ g.walk = "completion" /\ g.took = {} /\ g.pos = 1 /\ g.settled = S
    BY <1>r, <2>1, Restarts
  <2>3. Excused(g)'
    BY <1>r, <1>s, <2>2, ExcusedBy
  <2>4. Spent(g)'
    <3>1. 1..(g.pos - 1) = {}
      BY <2>2
    <3>2. QED
      BY <3>1 DEF Spent
  <2>5. QED
    BY <1>r, <1>s, <2>1, <2>2, <2>3, <2>4, PeaceGoes
<1>1. CASE EventEnds
  <2>1. Return("InvalidEvent") \/ GoTo(Restart(Top, Top.event, {}))
    BY <1>1 DEF EventEnds
  <2>2. QED
    BY <1>r, <1>w, <1>s, <2>1, PeaceReturns
<1>2. CASE CompletionEnds
  <2>1. Top.walk = "completion"
    BY <1>2 DEF CompletionEnds
  <2>2. CASE Top.took = {} /\ Return("ok")
    <3>1. ASSUME NEW s \in Site, Pending(s) PROVE s \in failed
      <4>1. PICK q \in DOMAIN tree.others : tree.others[q] = s
        BY <1>r, RegionFits
      <4>2. q \notin Ahead
        BY <1>r
      <4>3. QED
        BY <1>e, <1>r, <2>1, <2>2, <3>1, <4>1, <4>2, Behind
    <3>2. \A s : Pending(s)' <=> Pending(s)
      BY <1>r, PendingKept
    <3>3. Quiet'
      BY <1>r, <3>1, <3>2 DEF Quiet, Site
    <3>4. QED
      BY <1>r, <2>2, <3>3, PeaceReturns
  <2>3. CASE GoTo(Restart(Top, Top.origin, Top.settled))
    <3>1. (~tree.tracks => Top.settled = {}) /\ Top.settled \subseteq failed
      BY <1>e, <2>1 DEF Excused
    <3>2. QED
      BY <1>w, <1>s, <2>3, <3>1
  <2>4. QED
    BY <1>2, <2>2, <2>3 DEF CompletionEnds
<1>3. CASE ExceptionEnds
  <2>1. Top.walk = "exception" /\ Top.error \in Failures
    BY <1>3, <1>r DEF ExceptionEnds, Shaped
  <2>2. CASE Return(Top.error)
    BY <1>r, <2>1, <2>2, PeaceReturns DEF Failures
  <2>3. CASE GoTo(Restart(Top, Wild, {}))
    BY <1>w, <1>s, <2>3
  <2>4. ASSUME Top.phase = "completion", tree.tracks, Top.recovery # "none",
               NEW o \in {Wild, Top.origin}, GoTo(Restart(Top, o, Settled(Top)))
        PROVE  Peaceful'
    <3>1. Top.settled \ Top.exited \subseteq failed
      BY <1>e, <2>1, <2>4 DEF Excused
    <3>2. Top.recovery # "moved" => Top.faulting \in failed
      BY <1>e, <1>r, <2>1, <2>4 DEF Excused
    <3>3. Top.faulting \in Site
      BY <1>r, <2>1, <2>4 DEF Shaped
    <3>4. Settled(Top) \subseteq failed /\ Settled(Top) \in SUBSET Site
      BY <1>w, <3>1, <3>2, <3>3 DEF Settled
    <3>5. o \in Event \union {Wild}
      BY <1>w
    <3>6. QED
      BY <1>s, <2>4, <3>4, <3>5
  <2>5. CASE ~tree.tracks /\ Return("ok")
    <3>1. "fault" \in call.did
      <4>1. Top = stack[1] /\ 1 \in 1..Len(stack)
        BY <1>r, StackTyped
      <4>2. QED
        BY <2>1, <4>1 DEF Owed, Calm
    <3>2. Quiet'
      BY <1>r, <2>5, <3>1 DEF Quiet
    <3>3. QED
      BY <1>r, <2>5, <3>2, PeaceReturns
  <2>6. QED
    BY <1>3, <2>2, <2>3, <2>4, <2>5 DEF ExceptionEnds
<1>4. QED
  BY <1>1, <1>2, <1>3

\* What a step does to the call stack.
LEMMA StepMoves ==
    ASSUME TreeInv, Step
    PROVE  \/ \E g \in Body : GoTo(g)
           \/ \E g, c \in Body : Enter(g, c)
           \/ \E v : Return(v)
<1>r. /\ Running /\ tree \in Trees /\ stack \in Seq(Body) /\ Top \in Body /\ Top \in Frame
      /\ Shaped(Top)
  BY StepFoot, TypesNow, StackTyped
<1>t. ASSUME NEW v, NEW s \in Site, Throw(v, s)
      PROVE  (\E g \in Body : GoTo(g)) \/ (\E w : Return(w))
  BY <1>r, <1>t, ThrowsTo DEF Throw
<1>1. ASSUME Walking, NEW p \in Stops, Try(p)
      PROVE  (\E g \in Body : GoTo(g)) \/ (\E w : Return(w))
  <2>1. Here(p) \in Site /\ p \in Nat \ {0} /\ Top.at = "walk"
    BY <1>1, <1>r, StopTyped DEF Walking
  <2>2. CASE Miss(p)
    <3>1. PICK g : g = [Top EXCEPT !.pos = p + 1]
      OBVIOUS
    <3>2. g \in Body
      BY <1>r, <2>1, <3>1, GoesBehind
    <3>3. GoTo(g)
      BY <2>2, <3>1 DEF Miss
    <3>4. QED
      BY <3>2, <3>3
  <2>3. CASE GuardFails(p)
    BY <1>t, <2>1, <2>3 DEF GuardFails
  <2>4. ASSUME NEW i \in DOMAIN Rows(Here(p)),
               \/ TakeInternal(p, i) \/ ActionFails(p, i) \/ Move(p, i)
               \/ \E v \in Site : ExitFails(p, i, v) \/ EntryFails(p, i, v)
        PROVE  (\E g \in Body : GoTo(g)) \/ (\E w : Return(w))
    <3>1. (\E v \in Broken : Throw(v, Here(p))) \/ Proceed(p, i)
      BY <2>4, TakenBlames
    <3>2. CASE Proceed(p, i)
      <4>1. PICK g : g = [Top EXCEPT !.pos = p, !.row = i, !.at = "process",
                                     !.todo = Rows(Here(p))[i].process]
        OBVIOUS
      <4>2. g \in Body
        BY <1>1, <1>r, <2>4, <4>1, InRow
      <4>3. GoTo(g)
        BY <3>2, <4>1 DEF Proceed
      <4>4. QED
        BY <4>2, <4>3
    <3>3. QED
      BY <1>t, <2>1, <3>1, <3>2
  <2>5. QED
    BY <1>1, <2>2, <2>3, <2>4, TryCases
<1>2. CASE EventEnds \/ CompletionEnds \/ ExceptionEnds
  <2>1. Top.at = "walk"
    BY <1>2 DEF EventEnds, CompletionEnds, ExceptionEnds, WalkEnds, Walking
  <2>2. /\ Top.event \in Event \union {Wild} /\ Top.origin \in Event \union {Wild}
        /\ Wild \in Event \union {Wild} /\ {} \in SUBSET Site /\ Top.settled \in SUBSET Site
    BY <1>r DEF Frame
  <2>3. ASSUME NEW o \in Event \union {Wild}, NEW S \in SUBSET Site, GoTo(Restart(Top, o, S))
        PROVE  \E g \in Body : GoTo(g)
    <3>1. Restart(Top, o, S) \in Body
      BY <1>r, <2>1, Restarts
    <3>2. QED
      BY <2>3, <3>1
  <2>4. CASE EventEnds \/ CompletionEnds
    BY <2>2, <2>3, <2>4 DEF EventEnds, CompletionEnds
  <2>5. CASE ExceptionEnds
    <3>1. \/ \E v : Return(v)
          \/ GoTo(Restart(Top, Wild, {}))
          \/ Top.phase = "completion" /\ \E o \in {Wild, Top.origin} : GoTo(Restart(Top, o, Settled(Top)))
      BY <2>5 DEF ExceptionEnds
    <3>2. Top.phase = "completion" => Settled(Top) \in SUBSET Site
      BY <1>r, <2>2, <2>5 DEF ExceptionEnds, Shaped, Settled
    <3>3. QED
      BY <2>2, <2>3, <3>1, <3>2
  <2>6. QED
    BY <1>2, <2>4, <2>5
<1>3. CASE ProcessNext \/ ProcessDone \/ DrainNext \/ DrainDone
  <2>1. Top.at # "walk" /\ Place \in Site /\ deferred \in Seq(Event)
    BY <1>3, <1>r, TypesNow, PlaceOfRow
       DEF ProcessNext, ProcessDone, DrainNext, DrainDone, Idle, Resumed
  <2>2. CASE RowDone
    <3>1. PICK g : g = [Handled(Top, Place) EXCEPT !.row = 0]
      OBVIOUS
    <3>2. g \in Body
      BY <1>r, <2>1, <3>1, RowEnds
    <3>3. GoTo(g)
      BY <2>2, <3>1 DEF RowDone
    <3>4. QED
      BY <3>2, <3>3
  <2>3. ASSUME NEW g \in Body, NEW e \in Event, NEW via \in {"process", "retry"}, Nest(g, e, via)
        PROVE  \E f, c \in Body : Enter(f, c)
    <3>1. NewFrame(e, via) \in Body
      BY FrameMade
    <3>2. QED
      BY <2>3, <3>1 DEF Nest
  <2>4. CASE ProcessNext
    <3>1. CASE Top.todo # << >> /\ Nest([Top EXCEPT !.todo = Tail(@)], Head(Top.todo), "process")
      BY <1>r, <2>1, <2>3, <3>1, RowGoesOn
    <3>2. CASE Drains(InProgress) /\ GoTo([Top EXCEPT !.at = "drain"])
      <4>1. [Top EXCEPT !.at = "drain"] \in Body
        BY <1>r, <2>1, <2>4, <3>2, RowGoesOn DEF ProcessNext, Idle
      <4>2. QED
        BY <3>2, <4>1
    <3>3. QED
      BY <2>2, <2>4, <3>1, <3>2 DEF ProcessNext
  <2>5. CASE ProcessDone \/ DrainDone
    <3>1. GoTo(Top) \/ Throw(ret, Place)
      BY <2>5 DEF ProcessDone, DrainDone
    <3>2. QED
      BY <1>r, <1>t, <2>1, <3>1
  <2>6. CASE DrainNext
    <3>1. RowDone \/ (deferred # << >> /\ Nest(Top, Head(deferred), "retry"))
      BY <2>6 DEF DrainNext
    <3>2. deferred # << >> => Head(deferred) \in Event
      BY <2>1
    <3>3. QED
      BY <1>r, <2>2, <2>3, <3>1, <3>2
  <2>7. QED
    BY <1>3, <2>4, <2>5, <2>6
<1>4. QED
  BY <1>1, <1>2, <1>3 DEF Step

\* Every step leaves the function the owner called at peace.
LEMMA StepPeaceful ==
    ASSUME TreeInv, Placed, Owed, Peaceful, [Next]_vars
    PROVE  Peaceful'
<1>1. CASE UNCHANGED vars
  <2>1. /\ stack' = stack /\ ret' = ret /\ call' = call /\ failed' = failed /\ slot' = slot
        /\ tree' = tree
    BY <1>1 DEF vars, slotVars
  <2>2. PICK b : b = Bottom
    OBVIOUS
  <2>3. Bottom' = b
    BY <2>1, <2>2 DEF Bottom
  <2>4. \A s : Pending(s)' <=> Pending(s)
    BY <2>1, PendingKept
  <2>5. Quiet'
    BY <2>1, <2>4 DEF Peaceful, Quiet, Running, Site
  <2>6. ASSUME Running PROVE Excused(Bottom)' /\ Spent(Bottom)'
    <3>1. Excused(b) /\ Spent(b)
      BY <2>2, <2>6 DEF Peaceful
    <3>2. Excused(b)'
      BY <2>1, <3>1, ExcusedGrows
    <3>3. Spent(b)'
      BY <2>1, <2>4, <3>1 DEF Spent
    <3>4. QED
      BY <2>3, <3>2, <3>3 DEF Excused, Spent, Leaving, RowOf, PlaceOf, Progress
  <2>7. Len(stack') >= 2 => Bottom'.at # "walk"
    BY <2>1, <2>2, <2>3 DEF Peaceful
  <2>8. QED
    BY <2>1, <2>5, <2>6, <2>7 DEF Peaceful, Running
<1>f. ASSUME NEW g, stack' = <<g>>, ret' = "none", tree' = tree,
             g.walk # "exception", g.settled = {}, g.pos = 1
      PROVE  Peaceful'
  <2>1. Len(stack') = 1 /\ Bottom' = g /\ Running'
    BY <1>f DEF Bottom, Running
  <2>2. Excused(g)'
    BY <1>f, ExcusedBy
  <2>3. 1..(g.pos - 1) = {}
    BY <1>f
  <2>4. Spent(g)'
    BY <2>3 DEF Spent
  <2>5. Excused(Bottom)' /\ Spent(Bottom)'
    BY <2>1, <2>2, <2>4 DEF Excused, Spent, Leaving, RowOf, PlaceOf, Progress
  <2>6. QED
    BY <2>1, <2>5 DEF Peaceful, Quiet
<1>2. ASSUME NEW e \in Event, process_event(e) PROVE Peaceful'
  <2>1. PICK g : g = NewFrame(e, "call")
    OBVIOUS
  <2>2. g.walk # "exception" /\ g.settled = {} /\ g.pos = 1
    BY <2>1 DEF NewFrame
  <2>3. stack' = <<g>> /\ ret' = "none" /\ tree' = tree
    BY <1>2, <2>1 DEF process_event
  <2>4. QED
    BY <1>f, <2>2, <2>3
<1>3. CASE initialize
  <2>1. CASE stack' = << >> /\ ret' = "ActionFailed"
    BY <2>1 DEF Peaceful, Quiet, Running
  <2>2. CASE stack' = <<Stabilize(Wild, "call")>> /\ ret' = "none"
    <3>1. PICK g : g = Stabilize(Wild, "call")
      OBVIOUS
    <3>2. g.walk = "completion" /\ g.settled = {} /\ g.pos = 1
      BY <3>1, FrameMade
    <3>3. tree' = tree
      BY <1>3 DEF initialize
    <3>4. QED
      BY <1>f, <2>2, <3>1, <3>2, <3>3
  <2>3. QED
    BY <1>3, <2>1, <2>2 DEF initialize
<1>4. CASE \E n \in DOMAIN tree.rows : set_states(n)
  <2>1. stack = << >> /\ stack' = stack /\ ret' = "none"
    BY <1>4 DEF set_states, Running
  <2>2. QED
    BY <2>1 DEF Peaceful, Quiet, Running
<1>5. CASE Step
  <2>1. /\ Running /\ tree' = tree /\ stack \in Seq(Body) /\ Len(stack) \in Nat
        /\ Len(stack) >= 1 /\ Len(Under1) = Len(stack) - 1
    BY <1>5, StepFoot, TypesNow, StackTyped
  <2>2. CASE Len(stack) = 1
    BY <1>5, <2>2, StopPeaceful, EndPeaceful, RowPeaceful DEF Step
  <2>3. CASE Len(stack) >= 2
    <3>1. Under1 # << >>
      BY <2>1, <2>3
    <3>2. failed \subseteq failed'
      BY <1>5, <3>1, FailedGrows
    <3>3. QED
      BY <1>5, <2>1, <2>3, <3>2, StepMoves, BottomWaits
  <2>4. QED
    BY <2>1, <2>2, <2>3
<1>6. QED
  BY <1>1, <1>2, <1>3, <1>4, <1>5 DEF Next

\* The comment on recovering_stabilize_body, "every peer region still runs its
\* pending completions until the whole machine is stable", for every tree:
\* when a call succeeds, a completion waits only at a site whose own completion
\* failed in the call and that no exception row of the call moved since,
\* through any nesting of calls and any order of failures and recoveries.
THEOREM PeersAreStable == Spec => []StabilizesPeers
<1>1. Init => Peaceful
  BY DEF Init, Peaceful, Quiet, Running
<1>2. TreeInv /\ Placed /\ Owed /\ Peaceful /\ [Next]_vars => Peaceful'
  BY StepPeaceful
<1>3. Peaceful => StabilizesPeers
  BY DEF Peaceful, Quiet, StabilizesPeers, AtRest
<1>4. QED
  BY <1>1, <1>2, <1>3, AlwaysTyped, AlwaysPlaced, AlwaysOwed, PTL DEF Spec

-----------------------------------------------------------------------------
(* Every region of the root sees the event.                                *)

\* The regions of the root part the tree.
LEMMA RootFits ==
    ASSUME tree \in Trees, NEW r \in Site, tree.node[r] = tree.root, NEW s \in RegionPath(r)
    PROVE  /\ s \in Site
           /\ \A q \in Site : tree.node[q] = tree.root /\ s \in RegionPath(q) => q = r
           /\ tree.nested[s] \subseteq tree.nested[r]
           /\ \A p \in tree.path[tree.node[s]] : p[1] \in RegionPath(r)
           /\ \A u \in Site : s \in tree.nested[r] /\ tree.node[u] = tree.node[s]
                                => u \in tree.nested[r]
<1>1. RegionsPart(tree)
  BY TreeAssumption DEF WellFormed
<1>2. s \in Site /\ tree.nested[r] \subseteq Site
  BY TreeFits DEF RegionPath
<1>3. \A p \in tree.path[tree.node[s]] : p[1] \in RegionPath(r)
  BY <1>1 DEF RegionsPart, Site, RegionPath
<1>4. QED
  BY <1>1, <1>2, <1>3 DEF RegionsPart, Site, RegionPath

\* Every site belongs to a region of the root, and the dispatch visits it.
LEMMA RootOf ==
    ASSUME tree \in Trees, NEW s \in Site
    PROVE  /\ \E r \in Site : tree.node[r] = tree.root /\ s \in RegionPath(r)
           /\ \E q \in DOMAIN tree.events : tree.events[q] = s
<1>1. RegionsPart(tree)
  BY TreeAssumption DEF WellFormed
<1>2. s \in UNION {{r} \union tree.nested[r] : r \in {q \in Site : tree.node[q] = tree.root}}
  BY <1>1 DEF RegionsPart, Site
<1>3. QED
  BY <1>1, <1>2 DEF RegionsPart, Site, RegionPath

\* A site has to take the event: no guard can hold it back.
Ready(s, e) == Active(tree.node[s]) /\ \E i \in EventRows(s, e) : ~Rows(s)[i].guard

\* A region of the root has taken the event of the call, or a site in it is to
\* take it that the walk has still to come to.
Served(r) == RegionPath(r) \intersect call.took # {}
Waits(r, from) ==
    \E q \in DOMAIN tree.events :
        q >= from /\ tree.events[q] \in RegionPath(r) /\ Ready(tree.events[q], call.event)

\* A call without faults and nested calls; how far its dispatch has come.
Plain == "fault" \notin call.did /\ "nested" \notin call.did
Dispatching(g) ==
    /\ g.took \subseteq call.took /\ g.event = call.event
    /\ \A r \in call.offered :
         \/ Served(r)
         \/ Waits(r, IF g.at = "walk" THEN g.pos ELSE g.pos + 1)
         \/ g.at # "walk" /\ PlaceOf(g) \in RegionPath(r)

\* Every region that was to take the event has, unless the dispatch still runs.
Heard ==
    /\ ~begun => call.offered = {}
    /\ \A r \in call.offered : r \in Site /\ tree.node[r] = tree.root
    /\ Plain /\ Running => Len(stack) = 1 /\ Top.via = "call" /\ ret = "none"
    /\ Plain /\ Running /\ Top.walk = "event" => Dispatching(Top)
    /\ Plain /\ (Running => Top.walk # "event") /\ (Running \/ ret = "ok") =>
         \A r \in call.offered : Served(r)

\* Rows of one region leave the sites of another as they are.
LEMMA Undisturbed ==
    ASSUME tree \in Trees, Placed, tree' = tree, NEW s \in Site, NEW i \in DOMAIN Rows(s),
           Rows(s)[i].from = slot[s], NEW upto, Install(s, Rows(s)[i], upto),
           NEW r \in Site, tree.node[r] = tree.root, s \notin RegionPath(r),
           NEW u \in RegionPath(r), NEW e, Ready(u, e)
    PROVE  Ready(u, e)'
<1> DEFINE entered == Entered(s, Rows(s)[i], upto)
           reset   == {w \in Site : \E v \in entered \ {s} : tree.node[w] = tree.node[v]}
<1>1. PICK q \in Site : tree.node[q] = tree.root /\ s \in RegionPath(q)
  BY RootOf
<1>2. ASSUME NEW w \in RegionPath(r) PROVE slot'[w] = slot[w]
  <2>1. w \in Site /\ w # s
    BY <1>2, RootFits
  <2>2. ASSUME w \in reset PROVE FALSE
    <3>1. PICK v \in entered : v # s /\ tree.node[w] = tree.node[v]
      BY <2>2
    <3>2. v \in tree.nested[s]
      BY <3>1, EntersPath DEF RegionPath
    <3>3. v \in tree.nested[q]
      BY <1>1, <3>2, RootFits
    <3>4. w \in tree.nested[q]
      BY <1>1, <2>1, <3>1, <3>3, RootFits DEF RegionPath
    <3>5. w \in RegionPath(q)
      BY <3>4 DEF RegionPath
    <3>6. q = r
      BY <1>1, <1>2, <3>5, RootFits
    <3>7. QED
      BY <1>1, <3>6
  <2>3. slot' = [x \in Site |-> IF x = s THEN Rows(s)[i].to
                                ELSE IF x \in reset THEN OnEntry(x) ELSE slot[x]]
    BY DEF Install
  <2> HIDE DEF reset
  <2>4. QED
    BY <2>1, <2>2, <2>3
<1>3. \A p \in tree.path[tree.node[u]] : slot'[p[1]] = slot[p[1]]
  BY <1>2, RootFits
<1>4. slot'[u] = slot[u]
  BY <1>2
<1>5. Active(tree.node[u])'
  BY <1>3 DEF Ready, Active, Holds
<1>6. EventRows(u, e)' = EventRows(u, e)
  BY <1>4 DEF EventRows, Picks, First, Rows
<1>7. QED
  BY <1>5, <1>6 DEF Ready, Rows

\* A site that has to take the event is tried, unless its region was served.
LEMMA Reaches ==
    ASSUME tree \in Trees, Top \in Frame, Top.walk = "event", Top.took \subseteq call.took,
           Top.event = call.event, NEW r \in Site, tree.node[r] = tree.root,
           Waits(r, Top.pos)
    PROVE  \/ Served(r)
           \/ \E q \in Ahead : /\ q \in DOMAIN tree.events /\ tree.events[q] \in RegionPath(r)
                               /\ Ready(tree.events[q], call.event)
<1>1. PICK q \in DOMAIN tree.events :
          q >= Top.pos /\ tree.events[q] \in RegionPath(r) /\ Ready(tree.events[q], call.event)
  BY DEF Waits
<1>2. Top.pos \in Nat \ {0} /\ tree.events \in Seq(Site)
  BY TreeFits DEF Frame
<1>3. q \in Top.pos..Len(tree.events) /\ tree.events[q] \in Site
  BY <1>1, <1>2
<1>4. Order(Top.walk) = tree.events
  BY DEF Order
<1>5. CASE q \in Ahead
  BY <1>1, <1>5
<1>6. CASE q \notin Ahead
  <2>1. ~Due(Top, q)
    BY <1>3, <1>4, <1>6 DEF Ahead
  <2>2. Candidates(Top, tree.events[q]) # {}
    BY <1>1 DEF Candidates, Ready
  <2>3. Admitted(Top, q)
    BY <1>1, <1>4 DEF Admitted, Ready
  <2>4. ~Open(Top, tree.events[q])
    BY <1>4, <2>1, <2>2, <2>3 DEF Due
  <2>5. tree.nested[tree.events[q]] \intersect Top.took # {}
    BY <2>4 DEF Open
  <2>6. tree.nested[tree.events[q]] \subseteq RegionPath(r)
    BY <1>1, RootFits DEF RegionPath
  <2>7. QED
    BY <2>5, <2>6 DEF Served
<1>7. QED
  BY <1>5, <1>6

\* The function goes on and the call is still without faults and nested calls.
LEMMA HeardGoes ==
    ASSUME TreeInv, Heard, Running, Len(stack) = 1, tree' = tree, begun' = begun,
           call'.offered = call.offered, NEW g \in Body, GoTo(g), g.via = "call",
           Plain' => IF g.walk = "event" THEN Dispatching(g)' ELSE \A r \in call.offered : Served(r)'
    PROVE  Heard'
<1>1. Len(stack') = 1 /\ Top' = g /\ ret' = "none" /\ Running' /\ Site' = Site
  BY TypesNow, GoesTo DEF Site
<1>2. Plain' /\ g.walk = "event" => Dispatching(Top)'
  BY <1>1 DEF Dispatching, PlaceOf, Served, Waits
<1>3. QED
  BY <1>1, <1>2 DEF Heard

\* The slots tell who waits.
LEMMA WaitsKept ==
    ASSUME tree' = tree, slot' = slot, call'.event = call.event, NEW r, NEW n, Waits(r, n)
    PROVE  Waits(r, n)'
<1>1. PICK q \in DOMAIN tree.events :
          q >= n /\ tree.events[q] \in RegionPath(r) /\ Ready(tree.events[q], call.event)
  BY DEF Waits
<1>2. PICK u : u = tree.events[q]
  OBVIOUS
<1>3. PICK e : e = call.event
  OBVIOUS
<1>4. Ready(u, e)
  BY <1>1, <1>2, <1>3
<1>5. Active(tree.node[u])'
  BY <1>4 DEF Ready, Active, Holds
<1>6. EventRows(u, e)' = EventRows(u, e)
  BY DEF EventRows, Picks, First, Rows
<1>7. Ready(u, e)'
  BY <1>4, <1>5, <1>6 DEF Ready, Rows
<1>8. tree'.events[q] = u /\ call'.event = e /\ q \in DOMAIN tree'.events /\ u \in RegionPath(r)'
  BY <1>1, <1>2, <1>3 DEF RegionPath
<1>9. QED
  BY <1>1, <1>7, <1>8 DEF Waits

\* A stop of a walk: the sites passed over have no row that must take the
\* event, and a row leaves the regions it is not in as they were.
LEMMA StopHeard ==
    ASSUME TreeInv, Placed, Heard, Walking, NEW p \in Stops, Try(p)
    PROVE  Heard'
<1>r. /\ Running /\ ret = "none" /\ Top.at = "walk" /\ tree \in Trees /\ stack \in Seq(Body)
      /\ Top \in Frame /\ Top \in Body /\ call \in Calls /\ tree' = tree /\ begun' = begun
      /\ p \in Nat \ {0} /\ Here(p) \in Site /\ Site' = Site
  <2>1. Step
    BY DEF Step
  <2>2. tree' = tree /\ begun' = begun /\ Running
    BY <2>1, StepFoot
  <2>3. QED
    BY <2>2, TypesNow, StackTyped, StopTyped DEF Walking, Site
<1>m. ASSUME NEW what \in SUBSET {"took", "changed", "fault"}, Mark(what)
      PROVE  /\ what \subseteq call'.did /\ call.did \subseteq call'.did
             /\ call'.event = call.event /\ call'.offered = call.offered /\ call'.took = call.took
  BY <1>m, MarkTyped
<1>f. ASSUME NEW what \in SUBSET {"took", "changed", "fault"}, Mark(what), "fault" \in what
      PROVE  Heard'
  <2>1. ~Plain'
    BY <1>f, <1>m DEF Plain
  <2>2. QED
    BY <1>f, <1>m, <1>r, <2>1 DEF Heard
<1>g. ASSUME NEW g \in Body, GoTo(g), g.walk = Top.walk, g.via = Top.via, g.event = Top.event,
             g.took = Top.took,
             call'.offered = call.offered, call.did \subseteq call'.did, call'.took = call.took,
             call'.event = call.event,
             \A r \in call.offered :
                Plain /\ Dispatching(Top) /\ Top.walk = "event" =>
                 \/ Served(r)
                 \/ Waits(r, IF g.at = "walk" THEN g.pos ELSE g.pos + 1)'
                 \/ g.at # "walk" /\ PlaceOf(g) \in RegionPath(r)
      PROVE  Heard'
  <2>1. CASE ~Plain
    <3>1. ~Plain'
      BY <1>g, <2>1 DEF Plain
    <3>2. QED
      BY <1>g, <1>r, <3>1 DEF Heard
  <2>2. CASE Plain
    <3>1. Len(stack) = 1 /\ Top.via = "call"
      BY <1>r, <2>2 DEF Heard
    <3>2. \A r : Served(r)' <=> Served(r)
      BY <1>g, <1>r DEF Served, RegionPath
    <3>3. CASE Top.walk = "event"
      <4>1. Dispatching(Top)
        BY <1>r, <2>2, <3>3 DEF Heard
      <4>2. \A r : (PlaceOf(g) \in RegionPath(r))' <=> PlaceOf(g) \in RegionPath(r)
        BY <1>r DEF PlaceOf, Order, RegionPath
      <4>3. Dispatching(g)'
        BY <1>g, <2>2, <3>2, <3>3, <4>1, <4>2 DEF Dispatching
      <4>4. QED
        BY <1>g, <1>r, <3>1, <3>3, <4>3, HeardGoes
    <3>4. CASE Top.walk # "event"
      <4>1. \A r \in call.offered : Served(r)
        BY <1>r, <2>2, <3>4 DEF Heard
      <4>2. QED
        BY <1>g, <1>r, <3>1, <3>2, <3>4, <4>1, HeardGoes
    <3>5. QED
      BY <3>3, <3>4
  <2>3. QED
    BY <2>1, <2>2
<1>k. ASSUME Plain, Dispatching(Top), Top.walk = "event", NEW r \in call.offered
      PROVE  \/ Served(r) \/ Waits(r, p + 1)
             \/ Here(p) \in RegionPath(r) /\ Ready(Here(p), call.event)
  <2>1. r \in Site /\ tree.node[r] = tree.root
    BY <1>k DEF Heard
  <2>2. CASE Served(r)
    BY <2>2
  <2>3. CASE ~Served(r)
    <3>1. Waits(r, Top.pos)
      BY <1>k, <1>r, <2>3 DEF Dispatching
    <3>2. PICK q \in Ahead : /\ q \in DOMAIN tree.events /\ tree.events[q] \in RegionPath(r)
                             /\ Ready(tree.events[q], call.event)
      BY <1>k, <1>r, <2>1, <2>3, <3>1, Reaches DEF Dispatching
    <3>3. p <= q /\ q \in Nat
      <4>1. tree.events \in Seq(Site)
        BY <1>r, TreeFits
      <4>2. QED
        BY <3>2, <4>1 DEF Stops
    <3>4. CASE q = p
      BY <1>k, <3>2, <3>4 DEF Here, Order
    <3>5. CASE q # p
      <4>1. q >= p + 1
        BY <1>r, <3>3, <3>5
      <4>2. QED
        BY <3>2, <4>1 DEF Waits
    <3>6. QED
      BY <3>4, <3>5
  <2>4. QED
    BY <2>2, <2>3
<1>t. ASSUME call'.event = call.event, NEW r, NEW q \in DOMAIN tree.events, NEW u, NEW e,
             q >= p + 1, u = tree.events[q], e = call.event, u \in RegionPath(r), Ready(u, e)'
      PROVE  Waits(r, p + 1)'
  <2>1. tree'.events[q] = u /\ call'.event = e /\ q \in DOMAIN tree'.events /\ u \in RegionPath(r)'
    BY <1>r, <1>t DEF RegionPath
  <2>2. QED
    BY <1>t, <2>1 DEF Waits
<1>w. ASSUME slot' = slot, call'.event = call.event, NEW r, Waits(r, p + 1)
      PROVE  Waits(r, p + 1)'
  <2>1. PICK n : n = p + 1
    OBVIOUS
  <2>2. QED
    BY <1>r, <1>w, <2>1, WaitsKept
<1>1. CASE Miss(p)
  <2>1. PICK g : g = [Top EXCEPT !.pos = p + 1]
    OBVIOUS
  <2>2. /\ g \in Body /\ g.walk = Top.walk /\ g.via = Top.via /\ g.event = Top.event
        /\ g.took = Top.took /\ g.at = "walk" /\ g.pos = p + 1
    BY <1>r, <2>1, GoesBehind
  <2>3. GoTo(g) /\ call' = call /\ slot' = slot
    BY <1>1, <2>1 DEF Miss, slotVars
  <2>4. ASSUME NEW r \in call.offered, Plain, Dispatching(Top), Top.walk = "event"
        PROVE  Served(r) \/ Waits(r, p + 1)'
    <3>1. ~Ready(Here(p), call.event)
      <4>1. \A i \in EventRows(Here(p), call.event) : Rows(Here(p))[i].guard
        BY <1>1, <2>4 DEF Miss, MayPass, Candidates, Dispatching
      <4>2. QED
        BY <4>1 DEF Ready
    <3>2. QED
      BY <1>k, <1>w, <2>3, <2>4, <3>1
  <2>5. QED
    BY <1>g, <2>2, <2>3, <2>4
<1>2. CASE GuardFails(p)
  <2>1. Mark({"fault"}) /\ {"fault"} \in SUBSET {"took", "changed", "fault"}
    BY <1>2 DEF GuardFails
  <2>2. QED
    BY <1>f, <2>1
<1>3. ASSUME NEW i \in DOMAIN Rows(Here(p)), i \in Candidates(Top, Here(p)),
             \/ TakeInternal(p, i) \/ ActionFails(p, i) \/ Move(p, i)
             \/ \E v \in Site : ExitFails(p, i, v) \/ EntryFails(p, i, v)
      PROVE  Heard'
  <2> DEFINE row == Rows(Here(p))[i]
  <2>1. CASE \E v \in Broken, what \in SUBSET {"took", "changed", "fault"} :
                 Throw(v, Here(p)) /\ Mark(what) /\ "fault" \in what
    BY <1>f, <2>1
  <2>2. ASSUME NEW what \in SUBSET {"took", "changed", "fault"}, Proceed(p, i), Mark(what),
               \A r \in call.offered :
                  Waits(r, p + 1) => Waits(r, p + 1)' \/ Here(p) \in RegionPath(r)
        PROVE  Heard'
    <3>1. PICK g : g = [Top EXCEPT !.pos = p, !.row = i, !.at = "process", !.todo = row.process]
      OBVIOUS
    <3>2. g \in Body
      BY <1>r, <1>3, <3>1, InRow
    <3>3. /\ g.walk = Top.walk /\ g.via = Top.via /\ g.event = Top.event /\ g.took = Top.took
          /\ g.at = "process" /\ g.pos = p
      BY <1>r, <3>1 DEF Frame
    <3>4. PlaceOf(g) = Here(p)
      BY <3>3 DEF PlaceOf, Here
    <3>5. GoTo(g)
      BY <2>2, <3>1 DEF Proceed
    <3>6. /\ call.did \subseteq call'.did /\ call'.event = call.event
          /\ call'.offered = call.offered /\ call'.took = call.took
      BY <1>m, <2>2
    <3>7. ASSUME NEW r \in call.offered, Plain, Dispatching(Top), Top.walk = "event"
          PROVE  Served(r) \/ Waits(r, p + 1)' \/ Here(p) \in RegionPath(r)
      BY <1>k, <2>2, <3>7
    <3>8. QED
      BY <1>g, <3>2, <3>3, <3>4, <3>5, <3>6, <3>7
  <2>3. CASE Proceed(p, i) /\ Mark({"took"}) /\ UNCHANGED slotVars
    <3>1. slot' = slot /\ {"took"} \in SUBSET {"took", "changed", "fault"}
      BY <2>3 DEF slotVars
    <3>2. call'.event = call.event
      BY <1>m, <2>3, <3>1
    <3>3. QED
      BY <1>w, <2>2, <2>3, <3>1, <3>2
  <2>4. CASE Proceed(p, i) /\ Mark({"took", "changed"}) /\ Move(p, i)
    <3>1. {"took", "changed"} \in SUBSET {"took", "changed", "fault"}
      OBVIOUS
    <3>2. call'.event = call.event
      BY <1>m, <2>4, <3>1
    <3>3. PICK upto : Install(Here(p), row, upto)
      BY <2>4 DEF Move
    <3>4. row.from = slot[Here(p)]
      BY <1>r, <1>3, CandidateFrom
    <3>5. ASSUME NEW r \in call.offered, Waits(r, p + 1), Here(p) \notin RegionPath(r)
          PROVE  Waits(r, p + 1)'
      <4>1. PICK q \in DOMAIN tree.events :
                q >= p + 1 /\ tree.events[q] \in RegionPath(r) /\ Ready(tree.events[q], call.event)
        BY <3>5 DEF Waits
      <4>2. PICK u : u = tree.events[q]
        OBVIOUS
      <4>3. PICK e : e = call.event
        OBVIOUS
      <4>4. r \in Site /\ tree.node[r] = tree.root /\ u \in RegionPath(r) /\ Ready(u, e)
        BY <4>1, <4>2, <4>3 DEF Heard
      <4>5. Ready(u, e)'
        BY <1>r, <3>3, <3>4, <3>5, <4>4, Undisturbed
      <4>6. QED
        BY <1>t, <3>2, <4>1, <4>2, <4>3, <4>4, <4>5
    <3>6. QED
      BY <2>2, <2>4, <3>1, <3>5
  <2>5. QED
    BY <1>3, <2>1, <2>3, <2>4, Taken
<1>4. QED
  BY <1>1, <1>2, <1>3, TryCases

\* The steps after a row: a region is served when its row is done.
LEMMA RowHeard ==
    ASSUME TreeInv, Heard, ProcessNext \/ ProcessDone \/ DrainNext \/ DrainDone
    PROVE  Heard'
<1>r. /\ Running /\ Top.at # "walk" /\ tree \in Trees /\ stack \in Seq(Body) /\ Top \in Body
      /\ Top \in Frame /\ call \in Calls /\ tree' = tree /\ begun' = begun /\ slot' = slot
      /\ Place \in Site /\ Site' = Site
  <2>1. /\ Running /\ Top.at # "walk" /\ tree' = tree /\ begun' = begun /\ slot' = slot
    BY DEF ProcessNext, ProcessDone, DrainNext, DrainDone, Idle, Resumed, StateKeeps, slotVars
  <2>2. QED
    BY <2>1, TypesNow, StackTyped, PlaceOfRow DEF Site
<1>p. Plain => Len(stack) = 1 /\ Top.via = "call" /\ ret = "none"
  BY <1>r DEF Heard
<1>x. ASSUME ~Plain', call'.offered = call.offered PROVE Heard'
  BY <1>r, <1>x DEF Heard
<1>n. ASSUME NEW g, NEW e, NEW via, Nest(g, e, via) PROVE Heard'
  <2>1. call'.offered = call.offered /\ "nested" \in call'.did
    BY <1>n, <1>r DEF Nest, Calls
  <2>2. QED
    BY <1>x, <2>1 DEF Plain
<1>w. ASSUME NEW g \in Body, GoTo(g), Plain, g.walk = Top.walk, g.via = Top.via,
             g.event = Top.event, call'.offered = call.offered, call'.event = call.event,
             call'.did = call.did, call.took \subseteq call'.took,
             Dispatching(Top) /\ Top.walk = "event" =>
                /\ g.took \subseteq call'.took
                /\ \/ g.at # "walk" /\ g.pos = Top.pos
                   \/ g.at = "walk" /\ g.pos = Top.pos + 1 /\ Place \in call'.took
      PROVE  Heard'
  <2>1. ASSUME NEW r, Served(r) PROVE Served(r)'
    BY <1>r, <1>w, <2>1 DEF Served, RegionPath
  <2>2. CASE Top.walk # "event"
    <3>1. \A r \in call.offered : Served(r)
      BY <1>r, <1>w, <2>2 DEF Heard
    <3>2. QED
      BY <1>p, <1>r, <1>w, <2>1, <2>2, <3>1, HeardGoes
  <2>3. CASE Top.walk = "event"
    <3>1. Dispatching(Top)
      BY <1>r, <1>w, <2>3 DEF Heard
    <3>2. ASSUME NEW r \in call.offered
          PROVE  \/ Served(r)'
                 \/ Waits(r, IF g.at = "walk" THEN g.pos ELSE g.pos + 1)'
                 \/ g.at # "walk" /\ PlaceOf(g)' \in RegionPath(r)'
      <4>1. PICK n : n = Top.pos + 1
        OBVIOUS
      <4>2. Served(r) \/ Waits(r, n) \/ PlaceOf(Top) \in RegionPath(r)
        BY <1>r, <3>1, <4>1 DEF Dispatching
      <4>3. CASE Served(r)
        BY <2>1, <4>3
      <4>4. CASE Waits(r, n)
        <5>1. Waits(r, n)'
          BY <1>r, <1>w, <4>4, WaitsKept
        <5>2. n = IF g.at = "walk" THEN g.pos ELSE g.pos + 1
          BY <1>w, <2>3, <3>1, <4>1
        <5>3. QED
          BY <5>1, <5>2 DEF Waits
      <4>5. CASE PlaceOf(Top) \in RegionPath(r)
        <5>1. PlaceOf(Top) = Place
          BY DEF PlaceOf, Place, Here
        <5>2. CASE g.at = "walk"
          BY <1>r, <1>w, <2>3, <3>1, <4>5, <5>1, <5>2 DEF Served, RegionPath
        <5>3. CASE g.at # "walk"
          <6>1. g.pos = Top.pos
            BY <1>w, <2>3, <3>1, <5>3
          <6>2. PlaceOf(g)' = PlaceOf(Top) /\ RegionPath(r)' = RegionPath(r)
            BY <1>r, <1>w, <6>1 DEF PlaceOf, Order, RegionPath
          <6>3. QED
            BY <4>5, <5>3, <6>2
        <5>4. QED
          BY <5>2, <5>3
      <4>6. QED
        BY <4>2, <4>3, <4>4, <4>5
    <3>3. g.took \subseteq call'.took /\ g.event = call'.event /\ call'.offered = call.offered
      BY <1>w, <2>3, <3>1 DEF Dispatching
    <3>4. Dispatching(g)'
      BY <3>2, <3>3 DEF Dispatching
    <3>5. QED
      BY <1>p, <1>r, <1>w, <2>3, <3>4, HeardGoes
  <2>4. QED
    BY <2>2, <2>3
<1>d. ASSUME RowDone PROVE Heard'
  <2>1. PICK g : g = [Handled(Top, Place) EXCEPT !.row = 0]
    OBVIOUS
  <2>2. /\ g \in Body /\ g.at = "walk" /\ g.walk = Top.walk /\ g.via = Top.via
        /\ g.event = Top.event /\ g.pos = Top.pos + 1
        /\ Top.walk # "exception" => g.took = Top.took \union {Place}
    BY <1>r, <2>1, RowEnds
  <2>3. GoTo(g)
    BY <1>d, <2>1 DEF RowDone
  <2>4. /\ call'.offered = call.offered /\ call'.event = call.event /\ call'.did = call.did
        /\ call.took \subseteq call'.took
        /\ Top.via = "call" /\ Top.walk = "event" => call'.took = call.took \union {Place}
    BY <1>d, <1>r DEF RowDone, Calls
  <2>5. CASE ~Plain
    BY <1>x, <2>4, <2>5 DEF Plain
  <2>6. CASE Plain
    <3>1. Dispatching(Top) /\ Top.walk = "event" =>
             g.took \subseteq call'.took /\ Place \in call'.took
      BY <1>p, <2>2, <2>4, <2>6 DEF Dispatching
    <3>2. QED
      BY <1>w, <2>2, <2>3, <2>4, <2>6, <3>1
  <2>7. QED
    BY <2>5, <2>6
<1>1. CASE ProcessNext
  <2>1. CASE Drains(InProgress) /\ GoTo([Top EXCEPT !.at = "drain"]) /\ UNCHANGED call
    <3>1. PICK g : g = [Top EXCEPT !.at = "drain"]
      OBVIOUS
    <3>2. g \in Body
      BY <1>1, <1>r, <2>1, <3>1, RowGoesOn DEF ProcessNext, Idle
    <3>3. /\ g.at = "drain" /\ g.walk = Top.walk /\ g.via = Top.via /\ g.event = Top.event
          /\ g.pos = Top.pos /\ g.took = Top.took
      BY <1>r, <3>1 DEF Frame
    <3>4. GoTo(g) /\ call' = call
      BY <2>1, <3>1
    <3>5. CASE ~Plain
      BY <1>x, <3>4, <3>5 DEF Plain
    <3>6. CASE Plain
      <4>1. Dispatching(Top) => g.took \subseteq call'.took
        BY <3>3, <3>4 DEF Dispatching
      <4>2. QED
        BY <1>w, <3>2, <3>3, <3>4, <3>6, <4>1
    <3>7. QED
      BY <3>5, <3>6
  <2>2. QED
    BY <1>1, <1>d, <1>n, <2>1 DEF ProcessNext
<1>2. CASE ProcessDone \/ DrainDone
  <2>1. ret # "none" /\ call' = call
    BY <1>2 DEF ProcessDone, DrainDone, Resumed
  <2>2. ~Plain'
    BY <1>p, <2>1 DEF Plain
  <2>3. QED
    BY <1>x, <2>1, <2>2
<1>3. CASE DrainNext
  BY <1>3, <1>d, <1>n DEF DrainNext
<1>4. QED
  BY <1>1, <1>2, <1>3

\* The end of a walk: nothing is left to take, so every region was served.
LEMMA EndHeard ==
    ASSUME TreeInv, Heard, EventEnds \/ CompletionEnds \/ ExceptionEnds
    PROVE  Heard'
<1>r. /\ Running /\ Top.at = "walk" /\ Ahead = {} /\ tree \in Trees /\ stack \in Seq(Body)
      /\ Top \in Frame /\ tree' = tree /\ slot' = slot /\ call' = call /\ begun' = begun
      /\ Site' = Site
  BY TypesNow, StackTyped
     DEF EventEnds, CompletionEnds, ExceptionEnds, WalkEnds, Walking, StateKeeps, slotVars, Site
<1>w. /\ Top.event \in Event \union {Wild} /\ Top.origin \in Event \union {Wild}
      /\ Wild \in Event \union {Wild} /\ {} \in SUBSET Site /\ Top.settled \in SUBSET Site
  BY <1>r DEF Frame
<1>x. ASSUME ~Plain PROVE Heard'
  BY <1>r, <1>x DEF Heard, Plain
<1>p. Plain => Len(stack) = 1 /\ Top.via = "call"
  BY <1>r DEF Heard
<1>a. ASSUME Plain, NEW r \in call.offered, Top.walk = "event" \/ \A q \in call.offered : Served(q)
      PROVE  Served(r)
  <2>1. CASE Top.walk = "event"
    <3>1. Dispatching(Top) /\ r \in Site /\ tree.node[r] = tree.root
      BY <1>a, <1>r, <2>1 DEF Heard
    <3>2. Served(r) \/ Waits(r, Top.pos)
      BY <1>r, <3>1 DEF Dispatching
    <3>3. QED
      BY <1>r, <2>1, <3>1, <3>2, Reaches DEF Dispatching
  <2>2. QED
    BY <1>a, <2>1
<1>b. Plain => \A r \in call.offered : Served(r)
  BY <1>a, <1>r DEF Heard
<1>c. \A r : Served(r)' <=> Served(r)
  BY <1>r DEF Served, RegionPath
<1>s. ASSUME NEW o \in Event \union {Wild}, NEW S \in SUBSET Site, GoTo(Restart(Top, o, S))
      PROVE  Heard'
  <2>1. PICK g : g = Restart(Top, o, S)
    OBVIOUS
  <2>2. g \in Body /\ g.walk = "completion" /\ g.via = Top.via
    BY <1>r, <2>1, Restarts
  <2>3. CASE Plain
    BY <1>b, <1>c, <1>p, <1>r, <1>s, <2>1, <2>2, <2>3, HeardGoes
  <2>4. QED
    BY <1>x, <2>3
<1>v. ASSUME NEW v, Return(v) PROVE Heard'
  <2>1. ASSUME Plain, Running' PROVE FALSE
    <3>1. Len(stack) >= 2
      BY <1>r, <1>v, <2>1, Returns
    <3>2. Len(stack) = 1
      BY <1>p, <2>1
    <3>3. QED
      BY <3>1, <3>2
  <2>2. Plain' <=> Plain
    BY <1>r DEF Plain
  <2>3. QED
    BY <1>b, <1>c, <1>r, <2>1, <2>2 DEF Heard
<1>1. CASE EventEnds \/ CompletionEnds
  BY <1>1, <1>s, <1>v, <1>w DEF EventEnds, CompletionEnds
<1>2. CASE ExceptionEnds
  <2>1. Top.phase = "completion" /\ Top.walk = "exception" => Settled(Top) \in SUBSET Site
    BY <1>r, <1>w, StackTyped DEF Shaped, Settled
  <2>2. QED
    BY <1>2, <1>s, <1>v, <1>w, <2>1 DEF ExceptionEnds
<1>3. QED
  BY <1>1, <1>2

\* The steps of the machine's owner: who is to take the event waits for it.
LEMMA OwnerHeard ==
    ASSUME TreeInv, Placed, Heard, \/ \E e \in Event : process_event(e)
                                   \/ initialize
                                   \/ \E n \in DOMAIN tree.rows : set_states(n)
    PROVE  Heard'
<1>1. ASSUME NEW e \in Event, process_event(e) PROVE Heard'
  <2>1. PICK g : g = NewFrame(e, "call")
    OBVIOUS
  <2>2. g.walk = "event" /\ g.at = "walk" /\ g.event = e /\ g.via = "call" /\ g.took = {} /\ g.pos = 1
    BY <2>1 DEF NewFrame
  <2>3. /\ stack' = <<g>> /\ ret' = "none" /\ tree' = tree /\ begun' = TRUE /\ slot' = slot
        /\ call'.event = e /\ call'.offered = Offered(e) /\ call'.took = {}
    BY <1>1, <2>1 DEF process_event, slotVars
  <2>4. Top' = g /\ Len(stack') = 1 /\ Running'
    BY <2>3 DEF Top, Running
  <2>5. tree \in Trees
    BY TypesNow
  <2>6. ASSUME NEW r \in Offered(e)
        PROVE  r \in Site /\ tree.node[r] = tree.root /\ Waits(r, 1)'
    <3>1. /\ r \in Site /\ tree.node[r] = tree.root
          /\ \E s \in RegionPath(r) : Ready(s, e)
      BY <2>6 DEF Offered, Ready, RegionPath
    <3>2. PICK s \in RegionPath(r) : Ready(s, e)
      BY <3>1
    <3>3. s \in Site
      BY <2>5, <3>1, RootFits
    <3>4. PICK q \in DOMAIN tree.events : tree.events[q] = s
      BY <2>5, <3>3, RootOf
    <3>5. q \in Nat /\ q >= 1
      <4>1. tree.events \in Seq(Site)
        BY <2>5, TreeFits
      <4>2. QED
        BY <4>1
    <3>6. Active(tree.node[s])'
      BY <2>3, <3>2 DEF Ready, Active, Holds
    <3>7. EventRows(s, e)' = EventRows(s, e)
      BY <2>3 DEF EventRows, Picks, First, Rows
    <3>8. Ready(s, e)'
      BY <2>3, <3>2, <3>6, <3>7 DEF Ready, Rows
    <3>9. /\ tree'.events[q] = s /\ call'.event = e /\ q \in DOMAIN tree'.events
          /\ s \in RegionPath(r)'
      BY <2>3, <3>2, <3>4 DEF RegionPath
    <3>10. Waits(r, 1)'
      BY <3>5, <3>8, <3>9 DEF Waits
    <3>11. QED
      BY <3>1, <3>10
  <2>7. Dispatching(g)'
    BY <2>2, <2>3, <2>6 DEF Dispatching
  <2>8. Dispatching(Top)'
    BY <2>4, <2>7 DEF Dispatching, PlaceOf, Served, Waits
  <2>9. \A r \in call'.offered : r \in Site' /\ tree'.node[r] = tree'.root
    BY <2>3, <2>6 DEF Site
  <2>10. QED
    BY <2>2, <2>3, <2>4, <2>8, <2>9 DEF Heard
<1>2. CASE initialize
  <2>1. call.offered = {} /\ call'.offered = call.offered
    BY <1>2, TypesNow DEF initialize, Heard, Calls
  <2>2. begun' = TRUE
    BY <1>2 DEF initialize
  <2>3. CASE stack' = << >> /\ ret' = "ActionFailed"
    BY <2>1, <2>2, <2>3 DEF Heard, Running
  <2>4. CASE stack' = <<Stabilize(Wild, "call")>> /\ ret' = "none"
    <3>1. PICK g : g = Stabilize(Wild, "call")
      OBVIOUS
    <3>2. g.walk = "completion" /\ g.via = "call"
      BY <3>1, FrameMade
    <3>3. Len(stack') = 1 /\ Top' = g
      BY <2>4, <3>1 DEF Top
    <3>4. QED
      BY <2>1, <2>2, <2>4, <3>2, <3>3 DEF Heard
  <2>5. QED
    BY <1>2, <2>3, <2>4 DEF initialize
<1>3. CASE \E n \in DOMAIN tree.rows : set_states(n)
  <2>1. /\ stack' = << >> /\ ret' = "none" /\ begun' = TRUE /\ tree' = tree /\ call' = call
    BY <1>3 DEF set_states, Running
  <2>2. QED
    BY <2>1 DEF Heard, Running, Site
<1>4. QED
  BY <1>1, <1>2, <1>3

\* docs/dsl.md, an event is "broadcast to every active region", for every tree:
\* when a call without faults and nested calls succeeds, each region of the
\* root in which some active table had to take the event took it, whatever the
\* other regions did with it first and wherever their rows led.
THEOREM RegionsHear == Spec => []Broadcast
<1>1. Init => Heard
  BY DEF Init, Heard, Running
<1>2. TreeInv /\ Placed /\ Heard /\ [Next]_vars => Heard'
  <2> SUFFICES ASSUME TreeInv, Placed, Heard, [Next]_vars PROVE Heard'
    OBVIOUS
  <2>1. CASE UNCHANGED vars
    <3>1. /\ stack' = stack /\ ret' = ret /\ call' = call /\ slot' = slot /\ tree' = tree
          /\ begun' = begun
      BY <2>1 DEF vars, slotVars
    <3>2. (Running /\ Plain /\ Top.walk = "event" => Dispatching(Top))'
      <4>1. PICK g : g = Top
        OBVIOUS
      <4>2. Top' = g /\ Site' = Site
        BY <3>1, <4>1 DEF Top, Site
      <4>3. \A r, n : Waits(r, n) => Waits(r, n)'
        BY <3>1, WaitsKept
      <4>4. Running /\ Plain /\ g.walk = "event" => Dispatching(g)
        BY <4>1 DEF Heard
      <4>5. Running /\ Plain /\ g.walk = "event" => Dispatching(g)'
        BY <3>1, <4>3, <4>4 DEF Dispatching, Served, PlaceOf, Order, RegionPath
      <4>6. QED
        BY <3>1, <4>2, <4>5 DEF Dispatching, PlaceOf, Served, Waits, Running, Plain
    <3>3. QED
      BY <3>1, <3>2 DEF Heard, Running, Plain, Top, Served, RegionPath, Site
  <2>2. CASE Step
    BY <2>2, StopHeard, EndHeard, RowHeard DEF Step
  <2>3. QED
    BY <2>1, <2>2, OwnerHeard DEF Next
<1>3. Heard => Broadcast
  BY DEF Heard, Broadcast, Clean, AtRest, Plain, Served
<1>4. QED
  BY <1>1, <1>2, <1>3, AlwaysTyped, AlwaysPlaced, PTL DEF Spec

-----------------------------------------------------------------------------
(* No state is left without its exit.                                      *)

\* The path of a site: the composite states above it.
LEMMA PathFits ==
    ASSUME tree \in Trees, NEW u \in Site, NEW p \in tree.path[tree.node[u]]
    PROVE  /\ p[1] \in Site /\ p[2] \in tree.states[p[1]] /\ Composite(p[2])
           /\ u \in tree.subtree[p[2]]
           /\ tree.path[tree.node[p[1]]] \subseteq tree.path[tree.node[u]]
           /\ tree.exits[u] < tree.exits[p[1]] /\ tree.entries[p[1]] < tree.entries[u]
<1>1. PathsNest(tree)
  BY TreeAssumption DEF WellFormed
<1>2. QED
  BY <1>1 DEF PathsNest, Site, Composite

\* A site with its ranks and its table.
LEMMA RankFits ==
    ASSUME tree \in Trees, NEW u \in Site
    PROVE  /\ tree.exits[u] \in Nat /\ tree.entries[u] \in Nat
           /\ u \in tree.subtree[tree.node[u]] /\ tree.node[u] \in DOMAIN tree.rows
           /\ LastRank \in Nat
<1>1. PathsNest(tree) /\ RegionsPart(tree) /\ tree.node[u] \in DOMAIN tree.rows
  BY TreeAssumption, TreeFits DEF WellFormed
<1>2. IsFiniteSet(Site) /\ tree.exits[u] \in Nat /\ tree.entries[u] \in Nat
  BY <1>1 DEF PathsNest, Site
<1>3. u \in tree.subtree[tree.node[u]]
  BY <1>1 DEF RegionsPart, Site
<1>4. LastRank \in Nat
  BY <1>2, FS_CardinalityType DEF LastRank
<1>5. QED
  BY <1>1, <1>2, <1>3, <1>4

\* A site below a composite state m of w.
LEMMA BelowFits ==
    ASSUME tree \in Trees, NEW w \in Site, NEW m \in tree.states[w], Composite(m),
           NEW u \in tree.subtree[m]
    PROVE  /\ u \in Site /\ <<w, m>> \in tree.path[tree.node[u]]
           /\ \A p \in tree.path[tree.node[u]] :
                p \in tree.path[tree.node[w]] \/ p = <<w, m>> \/ p[1] \in tree.subtree[m]
<1>1. PathsNest(tree)
  BY TreeAssumption DEF WellFormed
<1>2. m \in DOMAIN tree.rows
  BY DEF Composite
<1>3. u \in Site
  BY <1>2, TreeFits
<1>4. QED
  BY <1>1, <1>2, <1>3 DEF PathsNest, Site

\* A subtree has its tables whole, and what is nested in them.
LEMMA SubtreeFits ==
    ASSUME tree \in Trees, NEW n \in DOMAIN tree.rows, NEW u \in tree.subtree[n]
    PROVE  /\ u \in Site
           /\ \A w \in Site : tree.node[w] = tree.node[u] => w \in tree.subtree[n]
           /\ \A m \in tree.states[u] : Composite(m) => tree.subtree[m] \subseteq tree.subtree[n]
<1>1. PathsNest(tree)
  BY TreeAssumption DEF WellFormed
<1>2. u \in Site
  BY TreeFits
<1>3. QED
  BY <1>1, <1>2 DEF PathsNest, Site, Composite

\* What is nested in a table is in its subtree.
LEMMA SubtreeOf ==
    ASSUME tree \in Trees, NEW u \in Site, NEW p \in tree.path[tree.node[u]],
           NEW n \in DOMAIN tree.rows, p[1] \in tree.subtree[n]
    PROVE  u \in tree.subtree[n]
<1>1. p[2] \in tree.states[p[1]] /\ Composite(p[2]) /\ u \in tree.subtree[p[2]]
  BY PathFits
<1>2. QED
  BY <1>1, SubtreeFits

\* The sites below s, and those below them.
LEMMA UnderFits ==
    ASSUME tree \in Trees, Placed, NEW s \in Site, NEW u \in Under(s)
    PROVE  /\ Composite(slot[s]) /\ slot[s] \in tree.states[s] /\ slot[s] \in DOMAIN tree.rows
           /\ u \in tree.subtree[slot[s]] /\ u \in Site
           /\ \A p \in tree.path[tree.node[u]] :
                p[1] \in tree.subtree[slot[s]] => slot[p[1]] = p[2]
           /\ <<s, slot[s]>> \in tree.path[tree.node[u]]
           /\ tree.exits[u] < tree.exits[s]
<1>1. /\ Composite(slot[s]) /\ slot[s] \in tree.states[s] /\ slot[s] \in DOMAIN tree.rows
      /\ u \in tree.subtree[slot[s]]
      /\ \A p \in tree.path[tree.node[u]] :
           p[1] \in tree.subtree[slot[s]] => slot[p[1]] = p[2]
  BY DEF Under, Holds, Placed, Composite
<1>2. u \in Site /\ <<s, slot[s]>> \in tree.path[tree.node[u]]
  BY <1>1, BelowFits
<1>3. tree.exits[u] < tree.exits[s]
  <2>1. PICK p : p = <<s, slot[s]>>
    OBVIOUS
  <2>2. tree.exits[u] < tree.exits[p[1]]
    BY <1>2, <2>1, PathFits
  <2>3. QED
    BY <2>1, <2>2
<1>4. QED
  BY <1>1, <1>2, <1>3

\* What is below a site below s is below s.
LEMMA UnderUnder ==
    ASSUME tree \in Trees, Placed, NEW s \in Site, NEW w \in Under(s), NEW u \in Under(w)
    PROVE  u \in Under(s)
<1>1. w \in Site
  BY UnderFits
<1>2. tree.subtree[slot[w]] \subseteq tree.subtree[slot[s]]
  BY <1>1, UnderFits, SubtreeFits
<1>3. ASSUME NEW p \in tree.path[tree.node[u]], p[1] \in tree.subtree[slot[s]]
      PROVE  slot[p[1]] = p[2]
  <2>1. p \in tree.path[tree.node[w]] \/ p = <<w, slot[w]>> \/ p[1] \in tree.subtree[slot[w]]
    BY <1>1, UnderFits, BelowFits
  <2>2. CASE p \in tree.path[tree.node[w]]
    BY <1>3, <2>2, UnderFits
  <2>3. CASE p = <<w, slot[w]>>
    BY <2>3
  <2>4. CASE p[1] \in tree.subtree[slot[w]]
    BY <1>1, <2>4, UnderFits
  <2>5. QED
    BY <2>1, <2>2, <2>3, <2>4
<1>4. u \in tree.subtree[slot[s]] /\ Composite(slot[s])
  BY <1>1, <1>2, UnderFits
<1>5. QED
  BY <1>3, <1>4 DEF Under, Holds

\* A site between the two.
LEMMA UnderPath ==
    ASSUME tree \in Trees, Placed, NEW s \in Site, NEW u \in Under(s),
           NEW p \in tree.path[tree.node[u]], p[1] \in tree.subtree[slot[s]]
    PROVE  p[1] \in Site /\ u \in Under(p[1])
<1>1. /\ u \in Site /\ slot[p[1]] = p[2] /\ slot[s] \in DOMAIN tree.rows
      /\ \A q \in tree.path[tree.node[u]] : q[1] \in tree.subtree[slot[s]] => slot[q[1]] = q[2]
  BY UnderFits
<1>2. p[1] \in Site /\ p[2] \in tree.states[p[1]] /\ Composite(p[2]) /\ u \in tree.subtree[p[2]]
  BY <1>1, PathFits
<1>3. tree.subtree[p[2]] \subseteq tree.subtree[slot[s]]
  BY <1>1, <1>2, SubtreeFits
<1>4. QED
  BY <1>1, <1>2, <1>3 DEF Under, Holds

\* A site that has its exit behind has that of what is active below it behind,
\* except where a site was not entered by the row that led to it.
Strays == \A w \in Site : skip[w] => \A u \in Under(w) : skip[u] \/ u \in astray

\* A row that leaves a composite state runs the exits below it.
LEMMA LeavesBehind ==
    ASSUME tree \in Trees, Placed, Strays, NEW s \in Site, NEW row, row.from = slot[s],
           NEW w \in Outgoing(s, row), NEW u \in Under(w), ~skip[u]
    PROVE  \/ u \in Outgoing(s, row) /\ u # s
           \/ u \in astray
           \/ w = s /\ u \in PassedBy(row)
<1>1. ~skip[s] /\ (w = s \/ (Leaves(row) /\ w \in ToExit(s)))
  BY DEF Outgoing
<1>2. u \in Under(s)
  <2>1. CASE w = s
    BY <2>1
  <2>2. CASE w \in ToExit(s)
    BY <2>2, UnderUnder DEF ToExit
  <2>3. QED
    BY <1>1, <2>1, <2>2
<1>3. CASE ~Leaves(row)
  <2>1. Composite(row.to) /\ Composite(row.from) /\ w = s
    BY <1>1, <1>2, <1>3, UnderFits DEF Leaves
  <2>2. u \in PassedBy(row)
    BY <1>2, <2>1, UnderFits DEF PassedBy, Below
  <2>3. QED
    BY <2>1, <2>2
<1>4. CASE Leaves(row) /\ u \in ToExit(s)
  <2>1. tree.exits[u] < tree.exits[s] /\ tree.exits[s] \in Nat
    BY <1>2, UnderFits, RankFits
  <2>2. u # s
    BY <2>1
  <2>3. QED
    BY <1>1, <1>4, <2>2 DEF Outgoing
<1>5. CASE u \notin ToExit(s)
  <2>1. PICK v \in {u} \union {p[1] : p \in tree.path[tree.node[u]]} :
            v \in tree.subtree[slot[s]] /\ skip[v]
    BY <1>2, <1>5 DEF ToExit
  <2>2. PICK p \in tree.path[tree.node[u]] : v = p[1]
    BY <2>1
  <2>3. v \in Site /\ u \in Under(v)
    BY <1>2, <2>1, <2>2, UnderPath
  <2>4. QED
    BY <2>1, <2>3 DEF Strays
<1>6. QED
  BY <1>3, <1>4, <1>5

\* A row that replaces a state leaves nothing there without its exit.
LEMMA LeftInstalled ==
    ASSUME tree \in Trees, Placed, ExitToken, Strays, NEW s \in Site, NEW row,
           row.from = slot[s], NEW upto, Install(s, row, upto)
    PROVE  LeftExited'
<1> SUFFICES ASSUME NEW u \in unexited' PROVE u \in astray'
  BY DEF LeftExited
<1>1. u \in {s} \union Under(s) /\ exits[u] = 0 /\ u \notin Outgoing(s, row)
  BY DEF Install
<1>2. u \in Site
  BY <1>1, UnderFits
<1>3. ~skip[u]
  BY <1>1, <1>2 DEF ExitToken
<1>4. u # s
  BY <1>1, <1>3 DEF Outgoing
<1>5. u \in Under(s) /\ Composite(row.from)
  BY <1>1, <1>4, UnderFits
<1>6. u \in astray \/ u \in PassedBy(row)
  <2>1. CASE skip[s]
    BY <1>3, <1>5, <2>1 DEF Strays
  <2>2. CASE ~skip[s]
    <3>1. s \in Outgoing(s, row)
      BY <2>2 DEF Outgoing
    <3>2. QED
      BY <1>1, <1>3, <1>5, <3>1, LeavesBehind
  <2>3. QED
    BY <2>1, <2>2
<1>7. u \notin Entered(s, row, upto)
  BY <1>4, <1>5 DEF Entered, Enters
<1>8. astray' = LET strays == astray \union Below(row.to) \union PassedBy(row)
                IN  IF {p \in tree.path[tree.node[s]] : skip[p[1]] \/ slot[p[1]] # p[2]} # {}
                    THEN strays \union Entered(s, row, upto) ELSE strays \ Entered(s, row, upto)
  BY DEF Install
<1>9. QED
  BY <1>6, <1>7, <1>8

\* The sites a row exits, from the inside out.
LEMMA OutRank ==
    ASSUME tree \in Trees, Placed, NEW s \in Site, NEW row, NEW w \in Outgoing(s, row)
    PROVE  /\ w \in Site
           /\ w = s \/ (w \in Under(s) /\ Leaves(row) /\ tree.exits[w] < tree.exits[s])
<1>1. w = s \/ (w \in Under(s) /\ Leaves(row))
  BY DEF Outgoing, ToExit
<1>2. QED
  BY <1>1, UnderFits

\* Sites are marked as exited, with what is active below them.
LEMMA StraysMarked ==
    ASSUME tree \in Trees, Placed, Strays, tree' = tree, slot' = slot, NEW before,
           skip' = [x \in Site |-> skip[x] \/ x \in before], astray \subseteq astray',
           \A w \in before : \A u \in Under(w) : u \in before \/ skip[u] \/ u \in astray'
    PROVE  Strays'
<1> SUFFICES ASSUME NEW w \in Site, skip'[w], NEW u \in Under(w) PROVE skip'[u] \/ u \in astray'
  <2>1. \A w : Under(w)' = Under(w)
    BY DEF Under, Holds, Composite
  <2>2. QED
    BY <2>1 DEF Strays, Site
<1>1. skip[w] \/ w \in before
  OBVIOUS
<1>2. skip[u] \/ u \in before \/ u \in astray'
  BY <1>1 DEF Strays
<1>3. u \in Site
  BY UnderFits
<1>4. QED
  BY <1>2, <1>3

\* A state is installed and entered.
LEMMA StraysInstalled ==
    ASSUME tree \in Trees, tree' = tree, Placed, Placed', Strays, NEW s \in Site, NEW row,
           row.from = slot[s], row.to \in tree.states[s], NEW upto \in Nat,
           Install(s, row, upto)
    PROVE  Strays'
<1> SUFFICES ASSUME NEW w \in Site, skip'[w], NEW u \in Under(w)', ~skip'[u] PROVE u \in astray'
  BY DEF Strays, Site
<1>0. PICK m : m = slot'[w]
  OBVIOUS
<1>1. /\ m \in tree.states[w] /\ Composite(m) /\ m \in DOMAIN tree.rows /\ u \in tree.subtree[m]
      /\ \A p \in tree.path[tree.node[u]] : p[1] \in tree.subtree[m] => slot'[p[1]] = p[2]
  BY <1>0 DEF Under, Holds, Placed, Composite, Site
<1>2. u \in Site /\ <<w, m>> \in tree.path[tree.node[u]]
  BY <1>1, BelowFits
<1>e. PICK entered : entered = Entered(s, row, upto)
  OBVIOUS
<1>g. PICK gone : gone = Outgoing(s, row)
  OBVIOUS
<1>r. PICK reset : reset = {x \in Site : \E v \in entered \ {s} : tree.node[x] = tree.node[v]}
  OBVIOUS
<1>s. PICK strays : strays = astray \union Below(row.to) \union PassedBy(row)
  OBVIOUS
<1>3. /\ slot' = [x \in Site |-> IF x = s THEN row.to
                                 ELSE IF x \in reset THEN OnEntry(x) ELSE slot[x]]
      /\ skip' = [x \in Site |-> x \notin entered /\ (skip[x] \/ x \in gone)]
      /\ astray' = IF {p \in tree.path[tree.node[s]] : skip[p[1]] \/ slot[p[1]] # p[2]} # {}
                   THEN strays \union entered ELSE strays \ entered
  BY <1>e, <1>g, <1>r, <1>s DEF Install
<1>4. /\ s \in entered
      /\ \A x \in entered \ {s} : /\ Enters(row) /\ Composite(row.to) /\ x \in tree.subtree[row.to]
                                  /\ x \in Incoming(row.to) /\ tree.entries[x] <= upto
  BY <1>e DEF Entered, Enters, Incoming
<1>5. w \notin entered /\ (skip[w] \/ w \in gone) /\ w # s
  BY <1>3, <1>4
<1>6. CASE u \in entered
  <2>1. CASE {p \in tree.path[tree.node[s]] : skip[p[1]] \/ slot[p[1]] # p[2]} # {}
    BY <1>3, <1>6, <2>1
  <2>2. CASE {p \in tree.path[tree.node[s]] : skip[p[1]] \/ slot[p[1]] # p[2]} = {}
    <3>1. <<w, m>> \in tree.path[tree.node[s]] => ~skip[w]
      <4>1. PICK p : p = <<w, m>>
        OBVIOUS
      <4>2. p \in tree.path[tree.node[s]] => ~skip[p[1]]
        BY <2>2
      <4>3. QED
        BY <4>1, <4>2
    <3>2. CASE u = s
      <4>1. w \in gone
        BY <1>2, <1>5, <3>1, <3>2
      <4>2. tree.exits[w] < tree.exits[s]
        BY <1>5, <1>g, <4>1, OutRank
      <4>3. tree.exits[s] < tree.exits[w]
        <5>1. PICK p : p = <<w, m>>
          OBVIOUS
        <5>2. tree.exits[s] < tree.exits[p[1]]
          BY <1>2, <3>2, <5>1, PathFits
        <5>3. QED
          BY <5>1, <5>2
      <4>4. tree.exits[w] \in Nat /\ tree.exits[s] \in Nat
        BY RankFits
      <4>5. QED
        BY <4>2, <4>3, <4>4
    <3>3. CASE u # s
      <4>1. /\ Enters(row) /\ Composite(row.to) /\ u \in tree.subtree[row.to]
            /\ u \in Incoming(row.to) /\ tree.entries[u] <= upto
        BY <1>4, <1>6, <3>3
      <4>2. skip[w]
        <5>1. ~Leaves(row)
          BY <4>1 DEF Enters, Leaves
        <5>2. QED
          BY <1>5, <1>g, <5>1, OutRank
      <4>3. w \in tree.subtree[row.to]
        <5>1. PICK p : p = <<w, m>>
          OBVIOUS
        <5>2. p \in tree.path[tree.node[s]] \/ p = <<s, row.to>> \/ p[1] \in tree.subtree[row.to]
          BY <1>2, <4>1, <5>1, BelowFits
        <5>3. p \notin tree.path[tree.node[s]]
          BY <3>1, <4>2, <5>1
        <5>4. p[1] = w /\ p # <<s, row.to>>
          BY <1>5, <5>1
        <5>5. QED
          BY <5>2, <5>3, <5>4
      <4>4. /\ tree.path[tree.node[w]] \subseteq tree.path[tree.node[u]]
            /\ tree.entries[w] < tree.entries[u]
        <5>1. PICK p : p = <<w, m>>
          OBVIOUS
        <5>2. /\ tree.path[tree.node[p[1]]] \subseteq tree.path[tree.node[u]]
              /\ tree.entries[p[1]] < tree.entries[u]
          BY <1>2, <5>1, PathFits
        <5>3. p[1] = w
          BY <5>1
        <5>4. QED
          BY <5>2, <5>3
      <4>5. w \in Incoming(row.to)
        BY <4>1, <4>3, <4>4 DEF Incoming
      <4>6. tree.entries[w] <= upto
        <5>1. tree.entries[w] \in Nat /\ tree.entries[u] \in Nat
          BY <1>2, RankFits
        <5>2. QED
          BY <4>1, <4>4, <5>1
      <4>7. w \in entered
        BY <1>e, <4>1, <4>5, <4>6 DEF Entered
      <4>8. QED
        BY <1>5, <4>7
    <3>4. QED
      BY <3>2, <3>3
  <2>3. QED
    BY <2>1, <2>2
<1>7. CASE u \notin entered
  <2>1. ~skip[u] /\ u \notin gone
    BY <1>2, <1>3, <1>7
  <2>2. CASE u \in Below(row.to)
    BY <1>3, <1>7, <1>s, <2>2
  <2>3. CASE u \notin Below(row.to)
    <3>1. ASSUME NEW x \in reset PROVE Composite(row.to) /\ x \in tree.subtree[row.to]
      <4>1. x \in Site /\ \E v \in entered \ {s} : tree.node[x] = tree.node[v]
        BY <1>r, <3>1
      <4>2. PICK v \in entered \ {s} : tree.node[x] = tree.node[v]
        BY <4>1
      <4>3. Composite(row.to) /\ v \in tree.subtree[row.to]
        BY <1>4, <4>2
      <4>4. QED
        BY <4>1, <4>2, <4>3, SubtreeFits DEF Composite
    <3>2. ASSUME NEW p \in tree.path[tree.node[u]], p[1] \in reset PROVE FALSE
      <4>1. Composite(row.to) /\ p[1] \in tree.subtree[row.to]
        BY <3>1, <3>2
      <4>2. u \in tree.subtree[row.to]
        BY <1>2, <4>1, SubtreeOf DEF Composite
      <4>3. QED
        BY <2>3, <4>1, <4>2 DEF Below
    <3>3. slot[w] = m
      <4>1. PICK p : p = <<w, m>>
        OBVIOUS
      <4>2. p[1] \notin reset
        BY <1>2, <3>2, <4>1
      <4>3. w \notin reset
        BY <4>1, <4>2
      <4>4. QED
        BY <1>0, <1>3, <1>5, <4>3
    <3>4. ASSUME NEW p \in tree.path[tree.node[u]], p[1] \in tree.subtree[m]
          PROVE  slot[p[1]] = p[2]
      <4>1. slot'[p[1]] = p[2] /\ p[1] \in Site /\ Composite(p[2]) /\ u \in tree.subtree[p[2]]
        BY <1>1, <1>2, <3>4, PathFits
      <4>2. p[1] # s
        <5>1. ASSUME p[1] = s PROVE FALSE
          <6>1. p[2] = row.to
            BY <1>3, <4>1, <5>1
          <6>2. QED
            BY <2>3, <4>1, <6>1 DEF Below
        <5>2. QED
          BY <5>1
      <4>3. QED
        BY <1>3, <3>2, <3>4, <4>1, <4>2
    <3>5. u \in Under(w)
      BY <1>1, <3>3, <3>4 DEF Under, Holds
    <3>6. u \in astray
      BY <1>5, <1>g, <2>1, <3>5, LeavesBehind DEF Strays
    <3>7. QED
      BY <1>3, <1>7, <1>s, <3>6
  <2>4. QED
    BY <2>2, <2>3
<1>8. QED
  BY <1>6, <1>7

\* A test sets the states of a table.
LEMMA StraysSet ==
    ASSUME tree \in Trees, Placed, Placed', Strays, NEW n \in DOMAIN tree.rows, set_states(n)
    PROVE  Strays'
<1>0. /\ tree' = tree
      /\ \A x \in Site : tree.node[x] # n => slot'[x] = slot[x]
      /\ skip' = [x \in Site |-> skip[x] /\ tree.node[x] # n]
      /\ astray' = astray \union tree.subtree[n]
  BY DEF set_states
<1> SUFFICES ASSUME NEW w \in Site, skip'[w], NEW u \in Under(w)' PROVE skip'[u] \/ u \in astray'
  BY <1>0 DEF Strays, Site
<1>1. skip[w] /\ tree.node[w] # n /\ slot'[w] = slot[w]
  BY <1>0
<1>2. /\ Composite(slot[w]) /\ u \in tree.subtree[slot[w]] /\ slot[w] \in tree.states[w]
      /\ \A p \in tree.path[tree.node[u]] : p[1] \in tree.subtree[slot[w]] => slot'[p[1]] = p[2]
  BY <1>0, <1>1 DEF Under, Holds, Placed, Composite
<1>3. u \in Site
  BY <1>2, BelowFits
<1>4. CASE u \notin tree.subtree[n]
  <2>1. ASSUME NEW p \in tree.path[tree.node[u]] PROVE p[1] \in Site /\ tree.node[p[1]] # n
    <3>1. p[1] \in Site
      BY <1>3, PathFits
    <3>2. p[1] \in tree.subtree[tree.node[p[1]]]
      BY <3>1, RankFits
    <3>3. QED
      BY <1>3, <1>4, <3>1, <3>2, SubtreeOf
  <2>2. u \in Under(w)
    BY <1>0, <1>2, <2>1 DEF Under, Holds
  <2>3. tree.node[u] # n
    BY <1>3, <1>4, RankFits
  <2>4. QED
    BY <1>0, <1>1, <1>3, <2>2, <2>3 DEF Strays
<1>5. QED
  BY <1>0, <1>4

\* What a row does to the sites.
LEMMA TakenStrays ==
    ASSUME tree \in Trees, Placed, Placed', ExitToken, Strays, LeftExited,
           NEW p, Here(p) \in Site, NEW i \in DOMAIN Rows(Here(p)),
           Rows(Here(p))[i].from = slot[Here(p)],
           \/ TakeInternal(p, i) \/ ActionFails(p, i) \/ Move(p, i)
           \/ \E v \in Site : ExitFails(p, i, v) \/ EntryFails(p, i, v)
    PROVE  Strays' /\ LeftExited'
<1>0. PICK s \in Site : s = Here(p)
  OBVIOUS
<1>1. PICK row : row = Rows(s)[i]
  OBVIOUS
<1>2. row.from = slot[s] /\ row.to \in tree.states[s] /\ tree' = tree
  BY <1>0, <1>1, EntersPath DEF TakeInternal, ActionFails, Move, ExitFails, EntryFails
<1>g. PICK gone : gone = Outgoing(s, row)
  OBVIOUS
<1>3. CASE TakeInternal(p, i)
  BY <1>2, <1>3 DEF TakeInternal, slotVars, Strays, LeftExited, Site, Under, Holds, Composite
<1>4. CASE ActionFails(p, i)
  <2>1. /\ slot' = slot /\ unexited' = unexited
        /\ skip' = [x \in Site |-> skip[x] \/ x \in gone]
        /\ astray' = astray \union PassedBy(row)
    BY <1>0, <1>1, <1>4, <1>g DEF ActionFails
  <2>2. ASSUME NEW w \in gone, NEW u \in Under(w) PROVE u \in gone \/ skip[u] \/ u \in astray'
    BY <1>2, <1>g, <2>1, <2>2, LeavesBehind
  <2>3. Strays'
    BY <1>2, <2>1, <2>2, StraysMarked
  <2>4. QED
    BY <2>1, <2>3 DEF LeftExited
<1>5. ASSUME NEW v \in Site, ExitFails(p, i, v) PROVE Strays' /\ LeftExited'
  <2>1. PICK before : before = {x \in gone : tree.exits[x] < tree.exits[v]}
    OBVIOUS
  <2>2. /\ slot' = slot /\ unexited' = unexited /\ astray' = astray /\ v \in gone
        /\ skip' = [x \in Site |-> skip[x] \/ x \in before]
    BY <1>0, <1>1, <1>5, <1>g, <2>1 DEF ExitFails
  <2>3. ASSUME NEW w \in before, NEW u \in Under(w), ~skip[u], u \notin astray PROVE u \in before
    <3>1. w \in gone /\ tree.exits[w] < tree.exits[v] /\ w \in Site
      BY <1>2, <1>g, <2>1, OutRank
    <3>2. u \in Site /\ tree.exits[u] < tree.exits[w]
      BY <3>1, UnderFits
    <3>3. /\ tree.exits[u] \in Nat /\ tree.exits[w] \in Nat /\ tree.exits[v] \in Nat
          /\ tree.exits[s] \in Nat
      BY <3>1, <3>2, RankFits
    <3>4. v = s \/ tree.exits[v] < tree.exits[s]
      BY <1>g, <2>2, OutRank
    <3>5. w # s
      BY <3>1, <3>3, <3>4
    <3>6. u \in gone
      BY <1>2, <1>g, <2>3, <3>1, <3>5, LeavesBehind
    <3>7. tree.exits[u] < tree.exits[v]
      BY <3>1, <3>2, <3>3
    <3>8. QED
      BY <2>1, <3>6, <3>7
  <2>4. Strays'
    BY <1>2, <2>2, <2>3, StraysMarked
  <2>5. QED
    BY <2>2, <2>4 DEF LeftExited
<1>6. ASSUME NEW upto \in Nat, Install(s, row, upto) PROVE Strays' /\ LeftExited'
  BY <1>2, <1>6, StraysInstalled, LeftInstalled
<1>7. CASE Move(p, i)
  <2>1. Install(s, row, LastRank)
    BY <1>0, <1>1, <1>7 DEF Move
  <2>2. QED
    BY <1>6, <2>1, RankFits
<1>8. ASSUME NEW v \in Site, EntryFails(p, i, v) PROVE Strays' /\ LeftExited'
  <2>1. Install(s, row, 0) \/ Install(s, row, tree.entries[v])
    BY <1>0, <1>1, <1>8 DEF EntryFails
  <2>2. 0 \in Nat /\ tree.entries[v] \in Nat
    BY RankFits
  <2>3. QED
    BY <1>6, <2>1, <2>2
<1>9. QED
  BY <1>3, <1>4, <1>5, <1>7, <1>8

\* Every step.
LEMMA StepStrays ==
    ASSUME TreeInv, Placed, ExitToken, Strays, LeftExited, [Next]_vars
    PROVE  Strays' /\ LeftExited'
<1>p. Placed' /\ tree \in Trees
  BY StepPlaced, TypesNow
<1>k. ASSUME UNCHANGED <<tree, slotVars>> PROVE Strays' /\ LeftExited'
  BY <1>k DEF slotVars, Strays, LeftExited, Site, Under, Holds, Composite
<1>1. CASE UNCHANGED vars
  BY <1>1, <1>k DEF vars
<1>2. CASE (\E e \in Event : process_event(e)) \/ initialize
  BY <1>2, <1>k DEF process_event, initialize
<1>3. ASSUME NEW n \in DOMAIN tree.rows, set_states(n) PROVE Strays' /\ LeftExited'
  <2>1. unexited' = unexited /\ astray \subseteq astray'
    BY <1>3 DEF set_states
  <2>2. QED
    BY <1>3, <1>p, <2>1, StraysSet DEF LeftExited
<1>4. ASSUME Walking, NEW p \in Stops, Try(p) PROVE Strays' /\ LeftExited'
  <2>1. Top \in Frame /\ Here(p) \in Site
    BY <1>4, TypesNow, StackTyped, StopTyped DEF Walking
  <2>2. CASE Miss(p) \/ GuardFails(p)
    BY <2>2, <1>k DEF Miss, GuardFails
  <2>3. ASSUME NEW i \in DOMAIN Rows(Here(p)), i \in Candidates(Top, Here(p)),
               \/ TakeInternal(p, i) \/ ActionFails(p, i) \/ Move(p, i)
               \/ \E v \in Site : ExitFails(p, i, v) \/ EntryFails(p, i, v)
        PROVE  Strays' /\ LeftExited'
    <3>1. Rows(Here(p))[i].from = slot[Here(p)]
      BY <2>1, <2>3, CandidateFrom
    <3>2. QED
      BY <1>p, <2>1, <2>3, <3>1, TakenStrays
  <2>4. QED
    BY <1>4, <2>2, <2>3, TryCases
<1>5. CASE Step
  <2>1. CASE EventEnds \/ CompletionEnds \/ ExceptionEnds
    BY <2>1, <1>k DEF EventEnds, CompletionEnds, ExceptionEnds, StateKeeps
  <2>2. CASE ProcessNext \/ ProcessDone \/ DrainNext \/ DrainDone
    BY <2>2, <1>k DEF ProcessNext, ProcessDone, DrainNext, DrainDone, StateKeeps
  <2>3. QED
    BY <1>4, <1>5, <2>1, <2>2 DEF Step
<1>6. QED
  BY <1>1, <1>2, <1>3, <1>5 DEF Next

\* The other half of "each entry gets exactly one exit", for every tree: no row
\* leaves a state without its exit, whatever guards, actions, entries and exits
\* fail on the way, except the states that no row entered where they are.
THEOREM EachIsExited == Spec => []LeftExited
<1>1. Init => Strays /\ LeftExited
  BY DEF Init, Strays, LeftExited
<1>2. TreeInv /\ Placed /\ ExitToken /\ Strays /\ LeftExited /\ [Next]_vars => Strays' /\ LeftExited'
  BY StepStrays
<1>3. QED
  BY <1>1, <1>2, AlwaysTyped, AlwaysPlaced, TokensTell, PTL DEF Spec
=============================================================================
