-------------------------- MODULE EventQueueProofs --------------------------
(***************************************************************************)
(* For every capacity N, zero included, and every width of usize: the ring *)
(* buffer keeps its window exact and implements the bounded deque.         *)
(***************************************************************************)
EXTENDS EventQueue, SequenceTheorems, TLAPS

\* The inductive invariant: the fields are in range and exactly the window
\* of len slots from head is occupied.
Inv == TypeOK /\ WindowOccupied

\* Index j lies in the window of l slots from h on: the window ends before
\* the ring does, or wraps.
InWindow(h, l, j) ==
    IF h + l <= N THEN h <= j /\ j < h + l
                  ELSE h <= j \/ j < h + l - N

\* The same set of indices, by enumeration.
LEMMA WindowIsInterval ==
    ASSUME NEW h \in Nat, NEW l \in Nat, NEW j \in Index, h < N, l <= N
    PROVE  (\E i \in 0..(l - 1) : j = IF h + i >= N THEN h + i - N ELSE h + i)
           <=> InWindow(h, l, j)
<1> USE RingAssumption DEF InWindow, Index
<1>1. ASSUME NEW i \in 0..(l - 1), j = IF h + i >= N THEN h + i - N ELSE h + i
      PROVE  InWindow(h, l, j)
  BY <1>1
<1>2. ASSUME InWindow(h, l, j)
      PROVE  \E i \in 0..(l - 1) : j = IF h + i >= N THEN h + i - N ELSE h + i
  <2>1. CASE h <= j
    <3>1. j - h \in 0..(l - 1) BY <1>2, <2>1
    <3>2. j = IF h + (j - h) >= N THEN h + (j - h) - N ELSE h + (j - h) OBVIOUS
    <3> QED BY <3>1, <3>2
  <2>2. CASE j < h
    <3>1. j - h + N \in 0..(l - 1) BY <1>2, <2>2
    <3>2. j = IF h + (j - h + N) >= N THEN h + (j - h + N) - N ELSE h + (j - h + N)
      BY <2>2
    <3> QED BY <3>1, <3>2
  <2> QED BY <2>1, <2>2
<1> QED BY <1>1, <1>2

LEMMA OccupiedIsInterval ==
    ASSUME TypeOK
    PROVE  WindowOccupied
           <=> \A j \in Index : slots[j] # Vacant <=> InWindow(head, len, j)
<1>1. ASSUME NEW j \in Index
      PROVE  (\E i \in 0..(len - 1) : j = SlotAt(i)) <=> InWindow(head, len, j)
  <2>1. head \in Nat /\ len \in Nat /\ head < N /\ len <= N
    BY RingAssumption DEF TypeOK, Index
  <2> QED BY <2>1, WindowIsInterval, Zenon DEF SlotAt
<1> QED BY <1>1, Zenon DEF WindowOccupied

LEMMA OccupiedIsIntervalNext ==
    ASSUME TypeOK'
    PROVE  WindowOccupied'
           <=> \A j \in Index : slots'[j] # Vacant <=> InWindow(head', len', j)
<1>1. ASSUME NEW j \in Index
      PROVE  (\E i \in 0..(len' - 1) : j = SlotAt(i)') <=> InWindow(head', len', j)
  <2>1. head' \in Nat /\ len' \in Nat /\ head' < N /\ len' <= N
    BY RingAssumption DEF TypeOK, Index
  <2> QED BY <2>1, WindowIsInterval, Zenon DEF SlotAt
<1> QED BY <1>1, Zenon DEF WindowOccupied

\* Both saturating operations are exact where the source uses them.
LEMMA SaturationIsExact ==
    ASSUME TypeOK
    PROVE  /\ SatSub(N, len) = N - len
           /\ len < N => SatAdd(len, 1) = len + 1
           /\ len # N /\ N # 0 => TailIndex = SlotAt(len) /\ TailIndex \in Index
           /\ len # N /\ N # 0 => FrontIndex \in Index
           /\ len # 0 => AfterHead \in Index /\ head \in Index
  BY RingAssumption DEF TypeOK, SatSub, SatAdd, TailIndex, SlotAt, FrontIndex,
                        AfterHead, Index

\* The initial ring is empty.
LEMMA InitInv == Init => Inv
  BY RingAssumption DEF Init, Inv, TypeOK, WindowOccupied, Index, SlotAt

LEMMA DeferInv ==
    ASSUME NEW e \in Event, Inv, defer(e)
    PROVE  Inv'
<1>1. CASE Refuse
  BY <1>1 DEF Refuse, Inv, TypeOK, WindowOccupied, SlotAt
<1>2. CASE ~Refuse
  <2>1. /\ len # N /\ N # 0 /\ TailIndex \in Index /\ TailIndex = SlotAt(len)
        /\ slots' = [slots EXCEPT ![TailIndex] = e]
        /\ len' = len + 1 /\ head' = head
    BY <1>2, SaturationIsExact, RingAssumption DEF defer, Inv, TypeOK
  <2>2. TypeOK'
    BY <2>1, RingAssumption DEF Inv, TypeOK
  <2>3. WindowOccupied'
    BY <2>1, <2>2, OccupiedIsInterval, OccupiedIsIntervalNext, RingAssumption
    DEF Inv, TypeOK, SlotAt, Index, InWindow
  <2> QED BY <2>2, <2>3 DEF Inv
<1> QED BY <1>1, <1>2

LEMMA ProcessInv ==
    ASSUME NEW e \in Event, Inv, process(e)
    PROVE  Inv'
<1>1. CASE Refuse
  BY <1>1 DEF Refuse, Inv, TypeOK, WindowOccupied, SlotAt
<1>2. CASE ~Refuse
  <2>1. /\ len # N /\ N # 0 /\ FrontIndex \in Index
        /\ slots' = [slots EXCEPT ![FrontIndex] = e]
        /\ len' = len + 1 /\ head' = FrontIndex
    BY <1>2, SaturationIsExact, RingAssumption DEF process, Inv, TypeOK
  <2>2. TypeOK'
    BY <2>1, RingAssumption DEF Inv, TypeOK, Index
  <2>3. WindowOccupied'
    BY <2>1, <2>2, OccupiedIsInterval, OccupiedIsIntervalNext, RingAssumption
    DEF Inv, TypeOK, Index, InWindow, FrontIndex, SatSub
  <2> QED BY <2>2, <2>3 DEF Inv
<1> QED BY <1>1, <1>2

LEMMA PopInv ==
    ASSUME Inv, pop
    PROVE  Inv'
<1>1. CASE PopNothing
  BY <1>1 DEF PopNothing, Inv, TypeOK, WindowOccupied, SlotAt
<1>2. CASE PopEvent
  <2>1. /\ len # 0 /\ head \in Index
        /\ slots' = [slots EXCEPT ![head] = Vacant]
        /\ len' = len - 1 /\ head' = AfterHead /\ AfterHead \in Index
    BY <1>2, SaturationIsExact, RingAssumption DEF PopEvent, Inv, TypeOK, SatSub
  <2>2. TypeOK'
    BY <2>1, RingAssumption DEF Inv, TypeOK, Index
  <2>3. WindowOccupied'
    BY <2>1, <2>2, OccupiedIsInterval, OccupiedIsIntervalNext, RingAssumption
    DEF Inv, TypeOK, Index, InWindow, AfterHead, SatSub, SatAdd
  <2> QED BY <2>2, <2>3 DEF Inv
<1> QED BY <1>1, <1>2 DEF pop

LEMMA ClearInv ==
    ASSUME Inv, clear
    PROVE  Inv'
  BY RingAssumption
  DEF clear, Inv, TypeOK, WindowOccupied, SlotAt, Index, TailIndex, SatSub, SatAdd

\* Every step keeps the invariant.
LEMMA NextInv ==
    ASSUME Inv, [Next]_vars
    PROVE  Inv'
<1>1. CASE UNCHANGED vars
  BY <1>1 DEF vars, Inv, TypeOK, WindowOccupied, SlotAt
<1>2. CASE Next
  BY <1>2, DeferInv, ProcessInv, PopInv, ClearInv DEF Next
<1> QED BY <1>1, <1>2

\* utility::EventQueue never leaves its index range and never counts past its
\* capacity, for every N.
THEOREM RingTyped == Spec => []TypeOK
<1>1. Init => Inv BY InitInv
<1>2. Inv /\ [Next]_vars => Inv' BY NextInv
<1>3. Inv => TypeOK BY DEF Inv
<1> QED BY <1>1, <1>2, <1>3, PTL DEF Spec

\* For every N, exactly the window of queued slots is occupied: `defer` and
\* `process` never overwrite a queued event and `pop` leaves none behind.
THEOREM RingWindowExact == Spec => []WindowOccupied
<1>1. Init => Inv BY InitInv
<1>2. Inv /\ [Next]_vars => Inv' BY NextInv
<1>3. Inv => WindowOccupied BY DEF Inv
<1> QED BY <1>1, <1>2, <1>3, PTL DEF Spec

-----------------------------------------------------------------------------
(* The refinement.                                                         *)

\* The ring as values, so that one lemma speaks of it before and after a step.
Slot(h, i) == IF h + i >= N THEN h + i - N ELSE h + i
InRange(s, h, l) ==
    /\ s \in [Index -> Event \union {Vacant}]
    /\ h \in Nat /\ l \in Nat
    /\ h < N \/ (N = 0 /\ h = 0)
    /\ l <= N
Occupied(s, h, l) ==
    \A j \in Index : s[j] # Vacant <=> \E i \in 0..(l - 1) : j = Slot(h, i)
Queue(s, h, l) == [i \in 1..l |-> s[Slot(h, i - 1)]]

LEMMA WindowIsSeq ==
    ASSUME NEW s, NEW h, NEW l, InRange(s, h, l), Occupied(s, h, l)
    PROVE  /\ Queue(s, h, l) \in Seq(Event)
           /\ Len(Queue(s, h, l)) = l
           /\ \A i \in 1..l : Queue(s, h, l)[i] = s[Slot(h, i - 1)]
<1> USE DEF InRange
<1>1. ASSUME NEW i \in 1..l
      PROVE  s[Slot(h, i - 1)] \in Event
  <2>1. Slot(h, i - 1) \in Index /\ i - 1 \in 0..(l - 1)
    BY RingAssumption DEF Index, Slot
  <2> QED BY <2>1 DEF Occupied
<1> QED BY <1>1 DEF Queue

LEMMA ContentsIsSeq ==
    ASSUME Inv
    PROVE  /\ Contents \in Seq(Event)
           /\ Len(Contents) = len
           /\ \A i \in 1..len : Contents[i] = slots[SlotAt(i - 1)]
<1>1. InRange(slots, head, len) BY DEF InRange, Inv, TypeOK
<1>2. Occupied(slots, head, len)
  BY Zenon DEF Occupied, Slot, Inv, WindowOccupied, SlotAt
<1>3. Contents = Queue(slots, head, len)
  BY Zenon DEF Contents, Queue, Slot, SlotAt
<1>4. \A i \in 1..len : Slot(head, i - 1) = SlotAt(i - 1)
  BY Zenon DEF Slot, SlotAt
<1>5. /\ Queue(slots, head, len) \in Seq(Event)
      /\ Len(Queue(slots, head, len)) = len
      /\ \A i \in 1..len :
            Queue(slots, head, len)[i] = slots[Slot(head, i - 1)]
  BY <1>1, <1>2, WindowIsSeq
<1>6. \A i \in 1..len : Contents[i] = slots[SlotAt(i - 1)]
  BY <1>3, <1>4, <1>5, Zenon
<1> QED BY <1>3, <1>5, <1>6, Zenon

LEMMA ContentsIsSeqNext ==
    ASSUME Inv'
    PROVE  /\ Contents' \in Seq(Event)
           /\ Len(Contents') = len'
           /\ \A i \in 1..len' : Contents'[i] = slots'[SlotAt(i - 1)']
<1>1. InRange(slots', head', len') BY DEF InRange, Inv, TypeOK
<1>2. Occupied(slots', head', len')
  BY Zenon DEF Occupied, Slot, Inv, WindowOccupied, SlotAt
<1>3. Contents' = Queue(slots', head', len')
  BY Zenon DEF Contents, Queue, Slot, SlotAt
<1>4. \A i \in 1..len' : Slot(head', i - 1) = SlotAt(i - 1)'
  BY Zenon DEF Slot, SlotAt
<1>5. /\ Queue(slots', head', len') \in Seq(Event)
      /\ Len(Queue(slots', head', len')) = len'
      /\ \A i \in 1..len' :
            Queue(slots', head', len')[i] = slots'[Slot(head', i - 1)]
  BY <1>1, <1>2, WindowIsSeq
<1>6. \A i \in 1..len' : Contents'[i] = slots'[SlotAt(i - 1)']
  BY <1>3, <1>4, <1>5, Zenon
<1> QED BY <1>3, <1>5, <1>6, Zenon

LEMMA DeferRefines ==
    ASSUME NEW e \in Event, Inv, defer(e), Inv'
    PROVE  Deque!PushBack(e)
<1> USE RingAssumption
<1>1. CASE len = N
  BY <1>1, ContentsIsSeq, SaturationIsExact
  DEF defer, Refuse, Deque!PushBack, Full, Deque!Full, Contents, SlotAt, Inv, TypeOK
<1>2. CASE len # N
  <2>1. N # 0 /\ len < N BY <1>2 DEF Inv, TypeOK
  <2>2. /\ TailIndex = SlotAt(len) /\ TailIndex \in Index
        /\ slots' = [slots EXCEPT ![SlotAt(len)] = e]
        /\ len' = len + 1 /\ head' = head /\ ret' = Ok
    BY <2>1, SaturationIsExact DEF defer, Inv
  <2>3. ASSUME NEW i \in 1..len
        PROVE  Contents'[i] = Contents[i]
    <3>1. i \in 1..len' BY <2>2 DEF Inv, TypeOK
    <3>2. SlotAt(i - 1)' = SlotAt(i - 1) BY <2>2 DEF SlotAt
    <3>3. SlotAt(i - 1) \in Index /\ SlotAt(i - 1) # SlotAt(len)
      BY <2>1 DEF SlotAt, Inv, TypeOK, Index
    <3>4. slots'[SlotAt(i - 1)] = slots[SlotAt(i - 1)]
      BY <2>2, <3>3 DEF Inv, TypeOK
    <3>5. Contents'[i] = slots'[SlotAt(i - 1)'] BY <3>1, ContentsIsSeqNext
    <3> QED BY <3>2, <3>4, <3>5, ContentsIsSeq
  <2>4. Contents'[len + 1] = e
    <3>1. PICK k \in 1..len' : k = len + 1 BY <2>2 DEF Inv, TypeOK
    <3>2. SlotAt(k - 1)' = SlotAt(len) BY <2>2, <3>1 DEF SlotAt, Inv, TypeOK
    <3>3. Contents'[k] = slots'[SlotAt(k - 1)'] BY <3>1, ContentsIsSeqNext
    <3>4. slots'[SlotAt(len)] = e BY <2>2 DEF Inv, TypeOK
    <3> QED BY <3>1, <3>2, <3>3, <3>4
  <2>5. Contents' = Append(Contents, e)
    BY <2>2, <2>3, <2>4, ContentsIsSeq, ContentsIsSeqNext DEF Inv, TypeOK
  <2> QED BY <2>1, <2>2, <2>5, ContentsIsSeq DEF Deque!PushBack, Ok, Deque!Ok
<1> QED BY <1>1, <1>2

LEMMA ProcessRefines ==
    ASSUME NEW e \in Event, Inv, process(e), Inv'
    PROVE  Deque!PushFront(e)
<1> USE RingAssumption
<1>1. CASE len = N
  BY <1>1, ContentsIsSeq, SaturationIsExact
  DEF process, Refuse, Deque!PushFront, Full, Deque!Full, Contents, SlotAt, Inv, TypeOK
<1>2. CASE len # N
  <2>1. N # 0 /\ len < N BY <1>2 DEF Inv, TypeOK
  <2>2. /\ FrontIndex \in Index /\ head' = FrontIndex
        /\ slots' = [slots EXCEPT ![FrontIndex] = e]
        /\ len' = len + 1 /\ ret' = Ok
    BY <2>1, SaturationIsExact DEF process, Inv
  <2>3. ASSUME NEW i \in 1..len
        PROVE  Contents'[i + 1] = Contents[i]
    <3>1. i + 1 \in 1..len' /\ (i + 1) - 1 = i BY <2>2 DEF Inv, TypeOK
    <3>2. /\ SlotAt(i)' = SlotAt(i - 1)
          /\ SlotAt(i - 1) \in Index /\ SlotAt(i - 1) # FrontIndex
      BY <2>1, <2>2 DEF SlotAt, Inv, TypeOK, Index, FrontIndex, SatSub
    <3>3. Contents'[i + 1] = slots'[SlotAt(i)'] BY <3>1, ContentsIsSeqNext
    <3>4. slots'[SlotAt(i - 1)] = slots[SlotAt(i - 1)]
      BY <2>2, <3>2 DEF Inv, TypeOK
    <3> QED BY <3>2, <3>3, <3>4, ContentsIsSeq
  <2>4. Contents'[1] = e
    <3>1. 1 \in 1..len' /\ 1 - 1 = 0 BY <2>2 DEF Inv, TypeOK
    <3>2. SlotAt(0)' = FrontIndex BY <2>1, <2>2 DEF SlotAt, Index
    <3>3. Contents'[1] = slots'[SlotAt(0)'] BY <3>1, ContentsIsSeqNext
    <3>4. slots'[FrontIndex] = e BY <2>2 DEF Inv, TypeOK
    <3> QED BY <3>2, <3>3, <3>4
  <2>5. Contents' = <<e>> \o Contents
    <3>1. <<e>> \in Seq(Event) /\ Len(<<e>>) = 1 /\ <<e>>[1] = e OBVIOUS
    <3>2. Contents \in Seq(Event) /\ Len(Contents) = len /\ len \in Nat
      BY ContentsIsSeq DEF Inv, TypeOK
    <3>3. Contents' \in Seq(Event) /\ Len(Contents') = len + 1
      BY <2>2, ContentsIsSeqNext
    <3>4. /\ <<e>> \o Contents \in Seq(Event)
          /\ Len(<<e>> \o Contents) = len + 1
          /\ \A i \in 1..(len + 1) : (<<e>> \o Contents)[i] =
                IF i <= 1 THEN <<e>>[i] ELSE Contents[i - 1]
      BY <3>1, <3>2, ConcatProperties
    <3>5. ASSUME NEW i \in 1..(len + 1)
          PROVE  Contents'[i] = (<<e>> \o Contents)[i]
      <4>1. CASE i = 1 BY <4>1, <2>4, <3>1, <3>4
      <4>2. CASE i # 1
        <5>1. i - 1 \in 1..len /\ (i - 1) + 1 = i BY <4>2, <3>2
        <5> QED BY <4>2, <5>1, <2>3, <3>4
      <4> QED BY <4>1, <4>2
    <3> QED BY <3>3, <3>4, <3>5, SeqEqual
  <2> QED BY <2>1, <2>2, <2>5, ContentsIsSeq DEF Deque!PushFront, Ok, Deque!Ok
<1> QED BY <1>1, <1>2

LEMMA PopRefines ==
    ASSUME Inv, pop, Inv'
    PROVE  Deque!PopFront
<1> USE RingAssumption
<1>1. CASE len = 0
  BY <1>1, ContentsIsSeq
  DEF pop, PopNothing, PopEvent, Deque!PopFront, None, Deque!None, Contents, SlotAt
<1>2. CASE len # 0
  <2>1. head \in Index /\ slots[head] = Contents[1] /\ slots[head] # Vacant
    BY <1>2, ContentsIsSeq DEF Inv, TypeOK, SlotAt, Index
  <2>2. /\ slots' = [slots EXCEPT ![head] = Vacant] /\ ret' = Some(Contents[1])
        /\ head' = AfterHead /\ len' = len - 1
    BY <1>2, <2>1 DEF pop, PopNothing, PopEvent, SatSub, Inv, TypeOK
  <2>3. ASSUME NEW i \in 1..(len - 1)
        PROVE  Contents'[i] = Contents[i + 1]
    <3>1. i \in 1..len' /\ i + 1 \in 1..len /\ (i + 1) - 1 = i
      BY <2>2 DEF Inv, TypeOK
    <3>2. /\ SlotAt(i - 1)' = SlotAt(i)
          /\ SlotAt(i) \in Index /\ SlotAt(i) # head
      BY <1>2, <2>1, <2>2
      DEF SlotAt, Inv, TypeOK, Index, AfterHead, SatSub, SatAdd
    <3>3. Contents[i + 1] = slots[SlotAt(i)] BY <3>1, ContentsIsSeq
    <3>4. slots'[SlotAt(i)] = slots[SlotAt(i)]
      BY <2>2, <3>2 DEF Inv, TypeOK
    <3> QED BY <3>1, <3>2, <3>3, <3>4, ContentsIsSeqNext
  <2>4. Contents' = Tail(Contents)
    BY <1>2, <2>2, <2>3, ContentsIsSeq, ContentsIsSeqNext DEF Inv, TypeOK
  <2> QED BY <1>2, <2>2, <2>4, ContentsIsSeq DEF Deque!PopFront, Some, Deque!Some
<1> QED BY <1>1, <1>2

LEMMA ClearRefines ==
    ASSUME Inv, clear, Inv'
    PROVE  Deque!Empty
  BY ContentsIsSeqNext DEF clear, Deque!Empty, None, Deque!None

\* utility::EventQueue is a bounded double-ended queue for every capacity:
\* each call changes the queued sequence and returns exactly as BoundedDeque
\* says.
THEOREM RingImplementsDeque == Spec => ImplementsDeque
<1>1. Init => Inv BY InitInv
<1>2. Inv /\ [Next]_vars => Inv' BY NextInv
<1>3. Init => Deque!Init
  BY DEF Init, Deque!Init, Contents, None, Deque!None
<1>4. ASSUME Inv, [Next]_vars, Inv'
      PROVE  [Deque!Next]_(Deque!vars)
  <2>1. CASE UNCHANGED vars
    BY <2>1 DEF vars, Deque!vars, Contents, SlotAt
  <2>2. CASE Next
    BY <1>4, <2>2, DeferRefines, ProcessRefines, PopRefines, ClearRefines
    DEF Next, Deque!Next
  <2> QED BY <1>4, <2>1, <2>2
<1> QED BY <1>1, <1>2, <1>3, <1>4, PTL DEF Spec, ImplementsDeque, Deque!Spec
=============================================================================
