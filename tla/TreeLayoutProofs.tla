--------------------------- MODULE TreeLayoutProofs ---------------------------
(* For every block of tables: the breadth-first walk refuses exactly the     *)
(* blocks whose tables form no tree, and meets each table of the others once *)
(* under its owner; discover_regions refuses exactly the tables whose rows   *)
(* do not fall apart into one part per initial state, and passes on these    *)
(* parts.                                                                    *)
EXTENDS TreeLayout, SelectionsProofs

-----------------------------------------------------------------------------
(* Graphs.                                                                   *)

\* A node reaches itself and whatever an edge leads to from what it reaches.
LEMMA ReachedGrows ==
    ASSUME NEW graph, NEW s \in graph.node, \A e \in graph.edge : e[2] \in graph.node
    PROVE  s \in Reached(graph, s) /\ Closed(graph, Reached(graph, s))
BY DEF Reached, Closed

\* It reaches no more than any set that has it and that no edge leaves.
LEMMA ReachedLeast ==
    ASSUME NEW graph, NEW s, NEW S \in SUBSET graph.node, s \in S, Closed(graph, S)
    PROVE  Reached(graph, s) \subseteq S
BY DEF Reached

-----------------------------------------------------------------------------
(* The tables of a block.                                                    *)

\* T is a sequence of tables, and each of them one of rows.
Tables(T) ==
    /\ T \in Seq(Range(T)) /\ T # << >>
    /\ \A i \in DOMAIN T : T[i].rows \in Seq(Range(T[i].rows))

\* No element comes twice.
Plain(seq) == \A i, j \in DOMAIN seq : seq[i] = seq[j] => i = j

\* The rows of a table are a sequence.
LEMMA RowsAre ==
    ASSUME NEW T, Tables(T), NEW n \in Names(T)
    PROVE  RowsOf(T, n) \in Seq(Range(RowsOf(T, n)))
<1>1. \E i \in DOMAIN T : T[i].name = n
  BY DEF Names
<1>2. PICK i \in DOMAIN T : i = CHOOSE j \in DOMAIN T : T[j].name = n
  BY <1>1
<1>3. RowsOf(T, n) = T[i].rows
  BY <1>2 DEF RowsOf
<1>. QED BY <1>3 DEF Tables

\* A table mentions each table that it owns once.
LEMMA ReferencesAre ==
    ASSUME NEW T, Tables(T), NEW n \in Names(T)
    PROVE  References(T, n) \in Seq(Names(T)) /\ Plain(References(T, n))
<1>. DEFINE rows == RowsOf(T, n)
            names == Mentioned(rows)
            places == {k \in DOMAIN names : names[k] \in Names(T) /\ \A j \in 1..(k - 1) : names[j] # names[k]}
<1>1. PICK c \in Nat : c = 2 * Len(rows)
  <2>1. Len(rows) \in Nat
    BY RowsAre
  <2>. QED BY <2>1
<1>2. DOMAIN names = 1..c
  BY <1>1 DEF Mentioned
<1>3. places \in SUBSET (1..c)
  BY <1>2
<1>4. PICK t : t = References(T, n)
  OBVIOUS
<1>5. t = Those(names, places)
  BY <1>4 DEF References
<1>6. \A i \in places : names[i] \in Names(T) /\ \A j \in places : j < i => names[j] # names[i]
  BY <1>2
<1>. HIDE DEF names, places
<1>7. Selects(t, names, places)
  BY <1>3, <1>5, ThoseAre
<1>8. t \in Seq(Names(T))
  <2>1. \A k \in DOMAIN t : t[k] \in Names(T)
    BY <1>6, <1>7 DEF Selects
  <2>2. Range(t) \subseteq Names(T)
    BY <2>1 DEF Range
  <2>3. t \in Seq(Range(t))
    BY <1>7 DEF Selects
  <2>. QED BY <2>2, <2>3, SeqMonotonic
<1>9. \A k, l \in DOMAIN t : l < k => t[k] # t[l]
  <2>1. \A k, l \in DOMAIN t : l < k => \E i, j \in places : j < i /\ t[k] = names[i] /\ t[l] = names[j]
    BY <1>7, Zenon DEF Selects
  <2>2. SUFFICES ASSUME NEW k \in DOMAIN t, NEW l \in DOMAIN t, l < k PROVE t[k] # t[l]
    OBVIOUS
  <2>3. PICK i \in places, j \in places : j < i /\ t[k] = names[i] /\ t[l] = names[j]
    BY <2>1, <2>2, Zenon
  <2>4. names[j] # names[i]
    BY <2>3, <1>6, Zenon
  <2>. QED BY <2>3, <2>4
<1>10. Plain(t)
  <2>1. \A i, j \in DOMAIN t : i < j \/ j < i \/ i = j
    BY <1>8
  <2>. QED BY <2>1, <1>9 DEF Plain
<1>. QED BY <1>4, <1>8, <1>10

\* The root is one of the tables.
LEMMA RootIsTable ==
    ASSUME NEW T, Tables(T)
    PROVE  Root(T) \in Names(T)
<1>1. DOMAIN T \in SUBSET Nat /\ 1 \in DOMAIN T
  BY DEF Tables
<1>2. \A S \in SUBSET DOMAIN T : S # {} => Min(S) \in S
  <2>1. SUFFICES ASSUME NEW S \in SUBSET DOMAIN T, S # {} PROVE Min(S) \in S
    OBVIOUS
  <2>2. \E n \in S : \A m \in S : n <= m
    BY <1>1, <2>1, Least
  <2>. QED BY <2>2 DEF Min
<1>. DEFINE owners == {i \in DOMAIN T : References(T, T[i].name) # << >>}
            free   == {i \in owners :
                         \A j \in DOMAIN T : ~Contains(References(T, T[j].name), T[i].name)}
<1>3. owners \subseteq DOMAIN T /\ free \subseteq DOMAIN T
  OBVIOUS
<1>4. RootIndex(T) = CASE free # {} -> Min(free) [] owners # {} -> Min(owners) [] OTHER -> 1
  BY DEF RootIndex
<1>. HIDE DEF owners, free
<1>5. RootIndex(T) \in DOMAIN T
  BY <1>1, <1>2, <1>3, <1>4
<1>. QED BY <1>5 DEF Root, Names

\* The initial states of a table are states of it.
LEMMA InitialsAre ==
    ASSUME NEW rows, rows \in Seq(Range(rows))
    PROVE  Initials(rows) \in Seq(States(rows))
<1>1. PICK c \in Nat : DOMAIN rows = 1..c
  OBVIOUS
<1>2. PICK places : places = {i \in DOMAIN rows : rows[i].start}
  OBVIOUS
<1>3. PICK t : t = Those(rows, places)
  OBVIOUS
<1>4. Selects(t, rows, places)
  <2>1. places \in SUBSET (1..c)
    BY <1>1, <1>2
  <2>. QED BY <2>1, <1>3, ThoseAre
<1>5. Initials(rows) = [k \in DOMAIN t |-> t[k].from]
  BY <1>2, <1>3 DEF Initials
<1>6. \A k \in DOMAIN t : t[k].from \in States(rows)
  BY <1>2, <1>4 DEF Selects, States
<1>7. DOMAIN t = 1..Len(t) /\ Len(t) \in Nat
  BY <1>4 DEF Selects
<1>. QED BY <1>5, <1>6, <1>7

-----------------------------------------------------------------------------
(* The walk.                                                                 *)

\* n is nested in p.
Child(p, n) == Contains(References(tables, p), n)
\* The tables visited, without the root.
Visited == Range(references)
\* The tables met.
Expanded == {root} \union Visited

\* n waits in the queue under the owner p.
Awaits(p, n) == \E i \in DOMAIN queue : queue[i][1] = n /\ queue[i][2] = p

\* No table waits twice for one owner, or for the owner it was visited under.
Once ==
    /\ \A i, j \in DOMAIN queue : queue[i][1] = queue[j][1] /\ queue[i][2] = queue[j][2] => i = j
    /\ \A n \in Visited : ~Awaits(parents[n], n)

\* Each table is one level below its owner.
Level(p) == IF p = root THEN 0 ELSE depths[p]
Levels ==
    /\ \A i \in DOMAIN queue : queue[i][3] = Level(queue[i][2]) + 1
    /\ \A n \in Visited : depths[n] = Level(parents[n]) + 1

\* Some table in the queue will be met for the second time.
Doomed ==
    \E i \in DOMAIN queue :
        queue[i][1] \in Visited \/ \E j \in DOMAIN queue : j < i /\ queue[j][1] = queue[i][1]

\* Who was visited, and who waits, does so under an owner met before; of those
\* met, everything they own is there.  The root is met again only below itself,
\* and then its tables come a second time.
Walking ==
    stage = "walk" =>
        /\ References(tables, root) # << >>
        /\ queue \in Seq(Range(queue))
        /\ references \in Seq(Names(tables)) /\ Plain(references)
        /\ DOMAIN parents = Visited /\ DOMAIN depths = Visited
        /\ \A i \in DOMAIN queue : queue[i][2] \in Expanded /\ Child(queue[i][2], queue[i][1])
        /\ \A n \in Visited : parents[n] \in Expanded /\ Child(parents[n], n)
        /\ \A p \in Expanded : \A n \in Names(tables) : Child(p, n) => Awaits(p, n) \/ (n \in Visited /\ parents[n] = p)
        /\ Expanded \subseteq Reached(Ownership, root)
        /\ root \in Visited => Doomed
        /\ root \notin Visited => Once /\ Levels

\* The stages of the walk, and what they leave alone.
Started ==
    /\ tables \in Blocks
    /\ stage \in {"choose", "walk", "regions", "done"}
    /\ stage # "done" => fault = "none"
    /\ stage = "choose" => references = << >> /\ parents = << >> /\ depths = << >>

\* The walk starts once, and finds no fault without stopping.
LEMMA StartedInductive == Started /\ [Next]_vars => Started'
BY DEF Started, Next, vars, walk, split, Choose, Visit, Walked, Claim, NextInitial, SplitDone,
       StartRegions, Stop

\* A block is a sequence of tables.
LEMMA BlocksAreTables == tables \in Blocks => Tables(tables)
BY BlocksAssumption DEF Tables

\* t is q once its first entry is gone and those of b are behind the rest.
Requeues(t, q, b) ==
    /\ t \in Seq(Range(t))
    /\ \A i \in DOMAIN t :
         \/ i + 1 \in DOMAIN q /\ t[i] = q[i + 1]
         \/ i - (Len(q) - 1) \in DOMAIN b /\ i > Len(q) - 1 /\ t[i] = b[i - (Len(q) - 1)]
    /\ \A i \in DOMAIN q : i > 1 => i - 1 \in DOMAIN t /\ t[i - 1] = q[i]
    /\ \A i \in DOMAIN b : i + (Len(q) - 1) \in DOMAIN t /\ t[i + (Len(q) - 1)] = b[i]

\* A round of the walk's loop drops the head of the queue and adds at its end.
LEMMA Requeued ==
    ASSUME NEW q, q \in Seq(Range(q)), q # << >>, NEW b, b \in Seq(Range(b))
    PROVE  Requeues(Tail(q) \o b, q, b)
<1>0. PICK t : t = Tail(q) \o b
  OBVIOUS
<1>. DEFINE S == Range(q) \union Range(b)
<1>1. q \in Seq(S) /\ b \in Seq(S)
  BY SeqMonotonic
<1>. HIDE DEF S
<1>2. Tail(q) \in Seq(S) /\ Len(Tail(q)) = Len(q) - 1 /\ \A i \in 1..(Len(q) - 1) : Tail(q)[i] = q[i + 1]
  BY <1>1
<1>3. t \in Seq(S) /\ Len(t) = Len(q) - 1 + Len(b)
  BY <1>0, <1>1, <1>2
<1>4. \A i \in 1..Len(t) : t[i] = IF i <= Len(q) - 1 THEN Tail(q)[i] ELSE b[i - (Len(q) - 1)]
  BY <1>0, <1>1, <1>2
<1>5. Len(q) \in Nat /\ Len(b) \in Nat /\ Len(q) >= 1
  BY <1>1
<1>6. DOMAIN t = 1..Len(t) /\ DOMAIN q = 1..Len(q) /\ DOMAIN b = 1..Len(b)
  BY <1>1, <1>3
<1>7. \A i \in DOMAIN t :
         \/ i + 1 \in DOMAIN q /\ t[i] = q[i + 1]
         \/ i - (Len(q) - 1) \in DOMAIN b /\ i > Len(q) - 1 /\ t[i] = b[i - (Len(q) - 1)]
  BY <1>2, <1>3, <1>4, <1>5, <1>6
<1>8. \A i \in DOMAIN q : i > 1 => i - 1 \in DOMAIN t /\ t[i - 1] = q[i]
  BY <1>2, <1>3, <1>4, <1>5, <1>6
<1>9. \A i \in DOMAIN b : i + (Len(q) - 1) \in DOMAIN t /\ t[i + (Len(q) - 1)] = b[i]
  BY <1>2, <1>3, <1>4, <1>5, <1>6
<1>10. t \in Seq(Range(t))
  BY <1>3, SeqOfRange
<1>. QED BY <1>0, <1>7, <1>8, <1>9, <1>10, Zenon DEF Requeues

\* The references of a table are its children, each once.
LEMMA KidsAre ==
    ASSUME tables \in Blocks, NEW p \in Names(tables)
    PROVE  /\ References(tables, p) \in Seq(Names(tables)) /\ Plain(References(tables, p))
           /\ \A n : Child(p, n) <=> \E i \in DOMAIN References(tables, p) : References(tables, p)[i] = n
<1>1. References(tables, p) \in Seq(Names(tables)) /\ Plain(References(tables, p))
  BY BlocksAreTables, ReferencesAre
<1>2. DOMAIN References(tables, p) = 1..Len(References(tables, p))
  BY <1>1
<1>. QED BY <1>1, <1>2 DEF Child, Contains

\* The root is a table of the block.
LEMMA RootIsHere == tables \in Blocks => root \in Names(tables)
BY BlocksAreTables, RootIsTable DEF root

\* What is met is owned by what leads back to the root.
LEMMA OwnedGrows ==
    ASSUME tables \in Blocks
    PROVE  /\ root \in Reached(Ownership, root)
           /\ Reached(Ownership, root) \subseteq Names(tables)
           /\ \A p \in Reached(Ownership, root) : \A n \in Names(tables) :
                Child(p, n) => n \in Reached(Ownership, root)
<1>1. /\ Ownership.node = Names(tables)
      /\ Ownership.edge = {e \in Names(tables) \X Names(tables) : Child(e[1], e[2])}
  BY DEF Ownership, Child
<1>2. root \in Ownership.node /\ \A e \in Ownership.edge : e[2] \in Ownership.node
  BY <1>1, RootIsHere
<1>3. root \in Reached(Ownership, root) /\ Closed(Ownership, Reached(Ownership, root))
  BY <1>2, ReachedGrows
<1>4. Reached(Ownership, root) \subseteq Names(tables)
  BY <1>1 DEF Reached
<1>5. ASSUME NEW p \in Reached(Ownership, root), NEW n \in Names(tables), Child(p, n)
      PROVE  n \in Reached(Ownership, root)
  <2>1. <<p, n>> \in Ownership.edge
    BY <1>1, <1>4, <1>5
  <2>. QED BY <1>3, <1>5, <2>1 DEF Closed
<1>. QED BY <1>3, <1>4, <1>5

\* Who owns whom does not change.
LEMMA StaysOwned ==
    ASSUME UNCHANGED tables
    PROVE  /\ root' = root /\ Ownership' = Ownership
           /\ \A p, n : Child(p, n)' <=> Child(p, n)
BY DEF root, Ownership, Child

\* The walk starts with the tables of the root.
LEMMA WalkingChosen == ASSUME Started, Choose PROVE Walking'
<1>. DEFINE children == References(tables, root)
<1>1. SUFFICES ASSUME stage' = "walk" PROVE Walking'
  BY DEF Walking
<1>2. /\ children # << >> /\ UNCHANGED <<tables, references, parents, depths>>
      /\ queue' = [i \in DOMAIN children |-> <<children[i], root, 1>>]
  <2>1. \A names : StartRegions(names) => stage' \in {"done", "regions"}
    BY DEF StartRegions
  <2>. QED BY <1>1, <2>1 DEF Choose, Stop
<1>3. references' = << >> /\ parents' = << >> /\ depths' = << >> /\ tables \in Blocks
  <2>1. references = << >> /\ parents = << >> /\ depths = << >> /\ tables \in Blocks
    BY DEF Started, Choose
  <2>. QED BY <1>2, <2>1
<1>4. root' = root /\ Ownership' = Ownership /\ \A p, n : Child(p, n)' <=> Child(p, n)
  BY <1>2, StaysOwned
<1>5. /\ children \in Seq(Names(tables)) /\ Plain(children)
      /\ \A n : Child(root, n) <=> \E i \in DOMAIN children : children[i] = n
  BY <1>3, RootIsHere, KidsAre
<1>6. Visited' = {} /\ Expanded' = {root}
  BY <1>3, <1>4 DEF Visited, Expanded, Range
<1>. HIDE DEF children
<1>7. queue' \in Seq(Range(queue'))
  <2>1. children \in [1..Len(children) -> Names(tables)] /\ Len(children) \in Nat
    BY <1>5
  <2>2. queue' \in Seq({<<children[i], root, 1>> : i \in DOMAIN children})
    BY <1>2, <2>1
  <2>. QED BY <2>2, SeqOfRange
<1>8. /\ DOMAIN queue' = DOMAIN children
      /\ \A i \in DOMAIN queue' : queue'[i][1] = children[i] /\ queue'[i][2] = root /\ queue'[i][3] = 1
  BY <1>2
<1>9. \A i \in DOMAIN queue' : queue'[i][2] = root /\ Child(root, queue'[i][1])
  BY <1>5, <1>8
<1>10. \A n \in Names(tables) : Child(root, n) => Awaits(root, n)'
  BY <1>4, <1>5, <1>8 DEF Awaits
<1>11. Once' /\ Levels'
  <2>1. Once'
    BY <1>5, <1>6, <1>8 DEF Once, Plain
  <2>2. Levels'
    BY <1>4, <1>6, <1>8 DEF Levels, Level
  <2>. QED BY <2>1, <2>2
<1>12. root \in Reached(Ownership, root)
  BY <1>3, OwnedGrows
<1>13. References(tables, root)' # << >>
  BY <1>2, <1>4 DEF children
<1>14. references' \in Seq(Names(tables)') /\ Plain(references')
  BY <1>3 DEF Plain
<1>15. DOMAIN parents' = Visited' /\ DOMAIN depths' = Visited'
  BY <1>3, <1>6
<1>. QED BY <1>2, <1>4, <1>6, <1>7, <1>9, <1>10, <1>11, <1>12, <1>13, <1>14, <1>15 DEF Walking

\* A round of the walk: the head of the queue was met for the first time.
LEMMA WalkingVisited ==
    ASSUME Started, Walking, Visit, stage' = "walk"
    PROVE  Walking'
<1>. DEFINE name == queue[1][1]
            from == queue[1][2]
            direct == References(tables, name)
            below == Below(name, Head(queue)[3])
            last == Len(queue) - 1
<1>1. /\ stage = "walk" /\ queue # << >> /\ tables \in Blocks /\ UNCHANGED tables
      /\ queue \in Seq(Range(queue))
  BY DEF Started, Visit, Walking
<1>2. 1 \in DOMAIN queue /\ Head(queue) = queue[1] /\ Len(queue) \in Nat /\ DOMAIN queue = 1..Len(queue)
  BY <1>1
<1>3. /\ ~Contains(references, name)
      /\ queue' = Tail(queue) \o below
      /\ references' = Append(references, name)
      /\ parents' = With(parents, name, from)
      /\ depths' = With(depths, name, Head(queue)[3])
  BY <1>2 DEF Visit, Stop
<1>4. /\ references \in Seq(Names(tables)) /\ Plain(references) /\ DOMAIN parents = Visited /\ DOMAIN depths = Visited
      /\ \A i \in DOMAIN queue : queue[i][2] \in Expanded /\ Child(queue[i][2], queue[i][1])
      /\ \A n \in Visited : parents[n] \in Expanded /\ Child(parents[n], n)
      /\ \A p \in Expanded : \A n \in Names(tables) :
           Child(p, n) => Awaits(p, n) \/ (n \in Visited /\ parents[n] = p)
      /\ Expanded \subseteq Reached(Ownership, root)
      /\ root \in Visited => Doomed
      /\ root \notin Visited => Once /\ Levels
      /\ References(tables, root) # << >>
  BY <1>1 DEF Walking
<1>5. root' = root /\ Ownership' = Ownership /\ \A p, n : Child(p, n)' <=> Child(p, n)
  BY <1>1, StaysOwned
<1>6. root \in Names(tables) /\ Visited \subseteq Names(tables) /\ Expanded \subseteq Names(tables)
  <2>1. Visited \subseteq Names(tables)
    BY <1>4 DEF Visited, Range
  <2>. QED BY <2>1, <1>1, RootIsHere DEF Expanded
<1>7. from \in Expanded /\ Child(from, name) /\ name \in Names(tables)
  <2>1. from \in Expanded /\ Child(from, name)
    BY <1>2, <1>4
  <2>2. name \in Names(tables)
    BY <2>1, <1>1, <1>6, KidsAre
  <2>. QED BY <2>1, <2>2
<1>8. name \notin Visited
  <2>1. DOMAIN references = 1..Len(references)
    BY <1>4
  <2>. QED BY <2>1, <1>3 DEF Contains, Visited, Range
<1>9. /\ direct \in Seq(Names(tables)) /\ Plain(direct)
      /\ \A n : Child(name, n) <=> \E i \in DOMAIN direct : direct[i] = n
  BY <1>1, <1>7, KidsAre
<1>10. /\ below \in Seq(Range(below)) /\ DOMAIN below = DOMAIN direct
       /\ \A i \in DOMAIN direct :
            below[i][1] = direct[i] /\ below[i][2] = name /\ below[i][3] = Head(queue)[3] + 1
  <2>. DEFINE d == Head(queue)[3] + 1
  <2>1. below = [i \in DOMAIN direct |-> <<direct[i], name, d>>]
    BY DEF Below
  <2>2. DOMAIN direct = 1..Len(direct) /\ Len(direct) \in Nat
    BY <1>9
  <2>. HIDE DEF below, d, direct, name
  <2>3. below \in Seq({<<direct[i], name, d>> : i \in DOMAIN direct})
    BY <2>1, <2>2
  <2>4. below \in Seq(Range(below))
    BY <2>3, SeqOfRange
  <2>. QED BY <2>1, <2>4 DEF d
<1>. HIDE DEF below, direct
<1>11. /\ queue' \in Seq(Range(queue'))
       /\ \A i \in DOMAIN queue' :
            \/ i + 1 \in DOMAIN queue /\ queue'[i] = queue[i + 1]
            \/ i - last \in DOMAIN below /\ i > last /\ queue'[i] = below[i - last]
       /\ \A i \in DOMAIN queue : i > 1 => i - 1 \in DOMAIN queue' /\ queue'[i - 1] = queue[i]
       /\ \A i \in DOMAIN below : i + last \in DOMAIN queue' /\ queue'[i + last] = below[i]
  <2>1. Requeues(queue', queue, below)
    BY <1>1, <1>3, <1>10, Requeued
  <2>. QED BY <2>1 DEF Requeues
<1>12. /\ DOMAIN queue' \subseteq Nat /\ last \in Nat
       /\ DOMAIN direct \subseteq Nat \ {0}
  BY <1>2, <1>9, <1>11
<1>. HIDE DEF last
<1>13. /\ Visited' = Visited \union {name} /\ Expanded' = Expanded \union {name}
       /\ references' \in Seq(Names(tables)) /\ Plain(references')
  <2>1. PICK c \in Nat : c = Len(references)
    BY <1>4
  <2>2. /\ references' \in Seq(Names(tables)) /\ DOMAIN references' = 1..(c + 1)
        /\ \A i \in 1..c : references'[i] = references[i]
        /\ references'[c + 1] = name /\ DOMAIN references = 1..c
    BY <2>1, <1>3, <1>4, <1>7
  <2>3. \A i \in 1..(c + 1) : i \in 1..c \/ i = c + 1
    OBVIOUS
  <2>4. Visited' = Visited \union {name}
    BY <2>2, <2>3 DEF Visited, Range
  <2>5. Expanded' = Expanded \union {name}
    BY <2>4, <1>5 DEF Expanded
  <2>6. Plain(references')
    BY <2>2, <2>3, <1>4, <1>8 DEF Plain, Visited, Range
  <2>. QED BY <2>2, <2>4, <2>5, <2>6
<1>14. /\ DOMAIN parents' = Visited' /\ DOMAIN depths' = Visited'
       /\ depths'[name] = Head(queue)[3] /\ \A n \in Visited : depths'[n] = depths[n]
       /\ parents'[name] = from /\ \A n \in Visited : parents'[n] = parents[n]
  BY <1>3, <1>4, <1>8, <1>13 DEF With
<1>. HIDE DEF name, from
\* Where the entries of the queue come from.
<1>15. \A i \in DOMAIN queue' :
          \/ i + 1 \in DOMAIN queue /\ queue'[i] = queue[i + 1]
          \/ i > last /\ i - last \in DOMAIN direct /\ queue'[i][1] = direct[i - last]
             /\ queue'[i][2] = name /\ queue'[i][3] = Head(queue)[3] + 1
  BY <1>10, <1>11
<1>16. \A i \in DOMAIN queue' : queue'[i][2] \in Expanded' /\ Child(queue'[i][2], queue'[i][1])
  BY <1>4, <1>9, <1>13, <1>15
<1>17. \A n \in Visited' : parents'[n] \in Expanded' /\ Child(parents'[n], n)
  BY <1>4, <1>7, <1>13, <1>14
<1>18. ASSUME NEW p \in Expanded', NEW n \in Names(tables), Child(p, n)
       PROVE  Awaits(p, n)' \/ (n \in Visited' /\ parents'[n] = p)
  <2>1. CASE p = name
    <3>1. PICK i \in DOMAIN direct : direct[i] = n
      BY <2>1, <1>9, <1>18
    <3>2. i + last \in DOMAIN queue' /\ queue'[i + last][1] = n /\ queue'[i + last][2] = p
      BY <2>1, <3>1, <1>10, <1>11
    <3>. QED BY <3>2 DEF Awaits
  <2>2. CASE p \in Expanded /\ n \in Visited /\ parents[n] = p
    BY <2>2, <1>13, <1>14
  <2>3. CASE p \in Expanded /\ Awaits(p, n)
    <3>1. PICK i \in DOMAIN queue : queue[i][1] = n /\ queue[i][2] = p
      BY <2>3 DEF Awaits
    <3>2. CASE i = 1
      BY <3>1, <3>2, <1>13, <1>14 DEF name, from
    <3>3. CASE i > 1
      <4>1. i - 1 \in DOMAIN queue' /\ queue'[i - 1][1] = n /\ queue'[i - 1][2] = p
        BY <3>1, <3>3, <1>11
      <4>. QED BY <4>1 DEF Awaits
    <3>. QED BY <3>2, <3>3, <1>2
  <2>. QED BY <2>1, <2>2, <2>3, <1>4, <1>13, <1>18
<1>19. Expanded' \subseteq Reached(Ownership, root)
  BY <1>1, <1>4, <1>7, <1>13, OwnedGrows
<1>20. root \notin Visited' => Once' /\ Levels'
  <2>1. SUFFICES ASSUME root \notin Visited' PROVE Once' /\ Levels'
    OBVIOUS
  <2>2. Once /\ Levels /\ name \notin Expanded
    BY <2>1, <1>4, <1>8, <1>13 DEF Expanded
  <2>3. ASSUME NEW i \in DOMAIN queue', NEW j \in DOMAIN queue',
               queue'[i][1] = queue'[j][1], queue'[i][2] = queue'[j][2]
        PROVE  i = j
    <3>1. CASE queue'[i][2] = name
      <4>1. /\ i - last \in DOMAIN direct /\ queue'[i][1] = direct[i - last]
            /\ j - last \in DOMAIN direct /\ queue'[j][1] = direct[j - last]
        BY <3>1, <2>2, <2>3, <1>4, <1>15
      <4>2. i - last = j - last
        BY <4>1, <2>3, <1>9 DEF Plain
      <4>. QED BY <4>2, <1>12
    <3>2. CASE queue'[i][2] # name
      <4>1. /\ i + 1 \in DOMAIN queue /\ queue'[i] = queue[i + 1]
            /\ j + 1 \in DOMAIN queue /\ queue'[j] = queue[j + 1]
        BY <3>2, <2>3, <1>15
      <4>2. i + 1 = j + 1
        BY <4>1, <2>2, <2>3 DEF Once
      <4>. QED BY <4>2, <1>12
    <3>. QED BY <3>1, <3>2
  <2>4. ASSUME NEW n \in Visited', Awaits(parents[n], n)' PROVE FALSE
    <3>1. PICK i \in DOMAIN queue' : queue'[i][1] = n /\ queue'[i][2] = parents'[n]
      BY <2>4 DEF Awaits
    <3>2. parents'[n] \in Expanded
      BY <1>4, <1>7, <1>13, <1>14
    <3>3. i + 1 \in DOMAIN queue /\ queue'[i] = queue[i + 1]
      BY <3>1, <3>2, <2>2, <1>15
    <3>4. CASE n = name
      <4>1. i + 1 = 1
        BY <3>1, <3>3, <3>4, <2>2, <1>2, <1>14 DEF Once, name, from
      <4>2. i # 0
        BY <1>11
      <4>. QED BY <4>1, <4>2, <1>12
    <3>5. CASE n \in Visited
      <4>1. Awaits(parents[n], n)
        BY <3>1, <3>3, <3>5, <1>14 DEF Awaits
      <4>. QED BY <4>1, <3>5, <2>2 DEF Once
    <3>. QED BY <3>4, <3>5, <1>13
  <2>5. /\ \A p \in Expanded : Level(p)' = Level(p)
        /\ \A p : p = name => Level(p)' = Head(queue)[3]
    <3>1. \A p : Level(p)' = IF p = root THEN 0 ELSE depths'[p]
      BY <1>5 DEF Level
    <3>2. \A p : Level(p) = IF p = root THEN 0 ELSE depths[p]
      BY DEF Level
    <3>3. \A p \in Expanded : p = root \/ p \in Visited
      BY DEF Expanded
    <3>4. root \in Expanded
      BY DEF Expanded
    <3>. QED BY <3>1, <3>2, <3>3, <3>4, <2>2, <1>14
  <2>6. \A i \in DOMAIN queue' : queue'[i][3] = Level(queue[i][2])' + 1
    <3>1. SUFFICES ASSUME NEW i \in DOMAIN queue' PROVE queue'[i][3] = Level(queue[i][2])' + 1
      OBVIOUS
    <3>2. \A p : p = queue'[i][2] => Level(queue[i][2])' = Level(p)'
      BY Zenon
    <3>3. CASE i + 1 \in DOMAIN queue /\ queue'[i] = queue[i + 1]
      <4>1. PICK p : p = queue'[i][2]
        OBVIOUS
      <4>2. queue'[i][3] = Level(p) + 1 /\ p \in Expanded
        BY <4>1, <3>3, <2>2, <1>4 DEF Levels
      <4>. QED BY <4>1, <4>2, <3>2, <2>5
    <3>4. CASE queue'[i][2] = name /\ queue'[i][3] = Head(queue)[3] + 1
      <4>1. PICK p : p = queue'[i][2]
        OBVIOUS
      <4>. QED BY <4>1, <3>2, <3>4, <2>5
    <3>. QED BY <3>3, <3>4, <1>15
  <2>7. \A n \in Visited' : depths'[n] = Level(parents[n])' + 1
    <3>1. ASSUME NEW n \in Visited PROVE depths'[n] = Level(parents[n])' + 1
      <4>1. PICK p : p = parents[n] /\ p = parents'[n]
        BY <1>14
      <4>2. depths'[n] = Level(p) + 1 /\ p \in Expanded
        BY <4>1, <2>2, <1>4, <1>14 DEF Levels
      <4>. QED BY <4>1, <4>2, <2>5
    <3>2. Head(queue)[3] = Level(from) + 1
      BY <2>2, <1>2 DEF Levels, from
    <3>3. ASSUME NEW n, n = name PROVE depths'[n] = Level(parents[n])' + 1
      <4>1. PICK p : p = from /\ p = parents'[n]
        BY <3>3, <1>14
      <4>2. depths'[n] = Level(p) + 1 /\ p \in Expanded
        BY <4>1, <3>2, <3>3, <1>7, <1>14
      <4>. QED BY <4>1, <4>2, <2>5
    <3>. QED BY <3>1, <3>3, <1>13
  <2>. QED BY <2>3, <2>4, <2>6, <2>7 DEF Once, Levels
<1>21. root \in Visited' => Doomed'
  <2>1. CASE root \in Visited
    <3>1. PICK i \in DOMAIN queue :
             queue[i][1] \in Visited \/ \E j \in DOMAIN queue : j < i /\ queue[j][1] = queue[i][1]
      BY <2>1, <1>4 DEF Doomed
    <3>2. i > 1
      BY <3>1, <1>2, <1>8 DEF name
    <3>3. i - 1 \in DOMAIN queue' /\ queue'[i - 1] = queue[i]
      BY <3>2, <1>11
    <3>4. CASE queue[i][1] \in Visited
      BY <3>3, <3>4, <1>13 DEF Doomed
    <3>5. CASE \E j \in DOMAIN queue : j < i /\ queue[j][1] = queue[i][1]
      <4>1. PICK j \in DOMAIN queue : j < i /\ queue[j][1] = queue[i][1]
        BY <3>5
      <4>2. CASE j = 1
        BY <4>1, <4>2, <3>3, <1>13 DEF Doomed, name
      <4>3. CASE j > 1
        <5>1. j - 1 \in DOMAIN queue' /\ queue'[j - 1] = queue[j]
          BY <4>3, <1>11
        <5>2. j - 1 < i - 1
          BY <4>1, <1>2
        <5>. QED BY <5>1, <5>2, <4>1, <3>3 DEF Doomed
      <4>. QED BY <4>1, <4>2, <4>3, <1>2
    <3>. QED BY <3>1, <3>4, <3>5
  <2>2. CASE root = name
    <3>1. direct # << >>
      BY <2>2, <1>4 DEF direct
    <3>2. PICK c : 1 \in DOMAIN direct /\ c = direct[1] /\ c \in Names(tables) /\ Child(root, c)
      BY <2>2, <3>1, <1>9
    <3>3. 1 + last \in DOMAIN queue' /\ queue'[1 + last][1] = c
      BY <3>2, <1>10, <1>11
    <3>4. CASE c \in Visited'
      BY <3>3, <3>4 DEF Doomed
    <3>5. CASE c \notin Visited'
      <4>1. Awaits(root, c)
        BY <3>2, <3>5, <1>4, <1>13 DEF Expanded
      <4>2. PICK i \in DOMAIN queue : queue[i][1] = c
        BY <4>1 DEF Awaits
      <4>3. i > 1
        BY <4>2, <3>5, <1>2, <1>13 DEF name
      <4>4. i - 1 \in DOMAIN queue' /\ queue'[i - 1][1] = c /\ i - 1 < 1 + last
        BY <4>2, <4>3, <1>2, <1>11 DEF last
      <4>. QED BY <4>4, <3>3 DEF Doomed
    <3>. QED BY <3>4, <3>5
  <2>. QED BY <2>1, <2>2, <1>13
<1>22. References(tables, root)' # << >>
  BY <1>1, <1>4, <1>5
<1>. QED
  BY <1>1, <1>5, <1>11, <1>13, <1>14, <1>16, <1>17, <1>18, <1>19, <1>20, <1>21, <1>22 DEF Walking

\* Every step keeps the walk right.
LEMMA WalkingInductive == Started /\ Walking /\ [Next]_vars => Walking'
<1>1. SUFFICES ASSUME Started, Walking, [Next]_vars, stage' = "walk" PROVE Walking'
  BY DEF Walking
<1>2. CASE Choose
  BY <1>1, <1>2, WalkingChosen
<1>3. CASE Visit
  BY <1>1, <1>3, WalkingVisited
<1>4. ~Walked /\ ~Claim /\ ~NextInitial /\ ~SplitDone
  BY <1>1 DEF Walked, StartRegions, Claim, NextInitial, SplitDone, Stop, split
<1>5. CASE UNCHANGED vars
  <2>1. UNCHANGED <<tables, stage, queue, references, parents, depths>>
    BY <1>5 DEF vars, walk
  <2>2. root' = root /\ Ownership' = Ownership /\ \A p, n : Child(p, n)' <=> Child(p, n)
    BY <2>1, StaysOwned
  <2>3. Visited' = Visited /\ Expanded' = Expanded /\ \A p, n : Awaits(p, n)' <=> Awaits(p, n)
    BY <2>1, <2>2 DEF Visited, Expanded, Awaits
  <2>4. (Doomed' <=> Doomed) /\ (Once' <=> Once) /\ (Levels' <=> Levels)
    BY <2>1, <2>2, <2>3 DEF Doomed, Once, Levels, Level
  <2>. QED BY <1>1, <2>1, <2>2, <2>3, <2>4 DEF Walking
<1>. QED BY <1>1, <1>2, <1>3, <1>4, <1>5 DEF Next

\* The walk is right in every state.
LEMMA AlwaysWalking == Spec => []Started /\ []Walking
<1>1. Init => Started
  BY DEF Init, Started
<1>2. Init => Walking
  BY DEF Init, Walking
<1>. QED BY <1>1, <1>2, StartedInductive, WalkingInductive, PTL DEF Spec

-----------------------------------------------------------------------------
(* The verdict of the walk.                                                  *)

\* Nobody owns anything but from within a set that owns no table beyond it.
LEMMA OwnedWithin ==
    ASSUME tables \in Blocks, NEW S \in SUBSET Names(tables), root \in S,
           \A p \in S : \A n \in Names(tables) : Child(p, n) => n \in S
    PROVE  \A e \in Owned : e[1] \in S /\ e[2] \in S /\ Child(e[1], e[2]) /\ e = <<e[1], e[2]>>
<1>1. /\ Ownership.node = Names(tables)
      /\ Ownership.edge = {e \in Names(tables) \X Names(tables) : Child(e[1], e[2])}
  BY DEF Ownership, Child
<1>2. Closed(Ownership, S)
  BY <1>1 DEF Closed
<1>3. Reached(Ownership, root) \subseteq S
  BY <1>1, <1>2, ReachedLeast
<1>. QED BY <1>1, <1>3 DEF Owned

\* What a table that the root leads to owns is owned.
LEMMA OwnedAre ==
    ASSUME tables \in Blocks, NEW p \in Reached(Ownership, root), NEW n, Child(p, n)
    PROVE  <<p, n>> \in Owned
<1>1. p \in Names(tables)
  BY OwnedGrows
<1>2. n \in Names(tables)
  BY <1>1, KidsAre
<1>. QED BY <1>1, <1>2 DEF Owned, Ownership, Child

\* A root without references is a tree.
LEMMA LoneRoot ==
    ASSUME tables \in Blocks, References(tables, root) = << >>
    PROVE  IsForest /\ Owned = {}
<1>1. root \in Names(tables) /\ \A n : ~Child(root, n)
  BY RootIsHere, KidsAre
<1>2. \A e \in Owned : e[1] \in {root} /\ Child(e[1], e[2])
  BY <1>1, OwnedWithin
<1>. QED BY <1>1, <1>2 DEF IsForest

\* So is a root with one child that owns nothing.
LEMMA OneChild ==
    ASSUME tables \in Blocks, SingleChild(tables)
    PROVE  /\ IsForest
           /\ LET c == References(tables, root)[1] IN c # root /\ Owned = {<<root, c>>}
<1>1. PICK c : c = References(tables, root)[1]
  OBVIOUS
<1>2. Len(References(tables, root)) = 1 /\ References(tables, c) = << >>
  BY <1>1 DEF SingleChild, root
<1>3. root \in Names(tables)
  BY RootIsHere
<1>4. c \in Names(tables) /\ \A n : Child(root, n) <=> n = c
  BY <1>1, <1>2, <1>3, KidsAre
<1>5. \A n : ~Child(c, n)
  BY <1>2, <1>4, KidsAre
<1>6. c # root
  BY <1>4, <1>5
<1>7. \A e \in Owned : e[1] \in {root, c} /\ Child(e[1], e[2]) /\ e = <<e[1], e[2]>>
  BY <1>3, <1>4, <1>5, OwnedWithin
<1>8. \A e \in Owned : e = <<root, c>>
  BY <1>4, <1>5, <1>7
<1>9. <<root, c>> \in Owned
  BY <1>3, <1>4, OwnedGrows, OwnedAre
<1>10. Owned = {<<root, c>>}
  BY <1>8, <1>9
<1>11. IsForest
  BY <1>6, <1>8 DEF IsForest
<1>. QED BY <1>1, <1>6, <1>10, <1>11

\* A table that is met again has two owners, or is the root.
LEMMA MetAgain ==
    ASSUME Started, Walking, stage = "walk", queue # << >>, Contains(references, Head(queue)[1])
    PROVE  ~IsForest
<1>. DEFINE n == queue[1][1]
            p == queue[1][2]
<1>1. tables \in Blocks /\ 1 \in DOMAIN queue /\ Head(queue) = queue[1]
  BY DEF Started, Walking
<1>2. n \in Visited
  <2>1. DOMAIN references = 1..Len(references)
    BY DEF Walking
  <2>. QED BY <1>1, <2>1 DEF Contains, Visited, Range
<1>3. /\ p \in Expanded /\ Child(p, n)
      /\ \A m \in Visited : parents[m] \in Expanded /\ Child(parents[m], m)
      /\ Expanded \subseteq Reached(Ownership, root)
      /\ root \notin Visited => Once
  BY <1>1 DEF Walking
<1>4. \A m \in Visited : <<parents[m], m>> \in Owned
  BY <1>1, <1>3, OwnedAre
<1>5. <<p, n>> \in Owned
  BY <1>1, <1>3, OwnedAre
<1>6. CASE root \in Visited
  BY <1>4, <1>6 DEF IsForest
<1>7. CASE root \notin Visited
  <2>1. Awaits(p, n)
    BY <1>1 DEF Awaits
  <2>2. parents[n] # p
    BY <1>2, <1>3, <1>7, <2>1 DEF Once
  <2>. HIDE DEF p, n
  <2>. QED BY <1>2, <1>4, <1>5, <2>2 DEF IsForest
<1>. QED BY <1>6, <1>7

\* Once the queue is empty each table below the root was met under its owner.
LEMMA WalkedAll ==
    ASSUME Started, Walking, stage = "walk", queue = << >>
    PROVE  /\ IsForest /\ root \notin Visited
           /\ Visited = {e[2] : e \in Owned}
           /\ \A e \in Owned : parents[e[2]] = e[1] /\ depths[e[2]] = Level(e[1]) + 1
<1>1. tables \in Blocks /\ DOMAIN queue = {}
  BY DEF Started
<1>2. /\ \A n \in Visited : parents[n] \in Expanded /\ Child(parents[n], n)
      /\ \A p \in Expanded : \A n \in Names(tables) : Child(p, n) => n \in Visited /\ parents[n] = p
      /\ Expanded \subseteq Reached(Ownership, root)
      /\ root \notin Visited /\ \A n \in Visited : depths[n] = Level(parents[n]) + 1
  BY <1>1 DEF Walking, Awaits, Doomed, Levels
<1>3. Expanded \subseteq Names(tables) /\ root \in Expanded /\ Visited \subseteq Expanded
  BY <1>1, <1>2, OwnedGrows DEF Expanded
<1>4. \A e \in Owned : e[1] \in Expanded /\ e[2] \in Expanded /\ Child(e[1], e[2]) /\ e = <<e[1], e[2]>>
  BY <1>1, <1>2, <1>3, OwnedWithin
<1>5. \A e \in Owned : e[2] \in Visited /\ parents[e[2]] = e[1]
  BY <1>2, <1>3, <1>4
<1>6. \A n \in Visited : <<parents[n], n>> \in Owned
  BY <1>1, <1>2, OwnedAre
<1>7. IsForest
  BY <1>2, <1>4, <1>5 DEF IsForest
<1>8. Visited = {e[2] : e \in Owned}
  <2>1. \A n \in Visited : \E e \in Owned : e[2] = n
    BY <1>6
  <2>. QED BY <1>5, <2>1
<1>. QED BY <1>2, <1>5, <1>7, <1>8

\* Each table below the root is met once, under its owner and one level down.
MeetsEach ==
    /\ Plain(references) /\ Visited = {e[2] : e \in Owned}
    /\ \A e \in Owned : parents[e[2]] = e[1] /\ depths[e[2]] = Level(e[1]) + 1

\* What is known of a block once the walk has stopped.
Judged ==
    /\ stage = "regions" => IsForest
    /\ stage = "regions" \/ Accepted => MeetsEach
    /\ stage = "done" /\ fault # "table" => ((fault = "owner") <=> ~IsForest)

\* A block stays a tree or none.
LEMMA ForestStays == ASSUME UNCHANGED tables PROVE IsForest' <=> IsForest
<1>1. root' = root /\ Owned' = Owned
  BY DEF root, Owned, Ownership
<1>. QED BY <1>1 DEF IsForest

\* What was met stays met.
LEMMA MeetsEachStays ==
    ASSUME UNCHANGED <<tables, references, parents, depths>>
    PROVE  MeetsEach' <=> MeetsEach
<1>1. root' = root /\ Owned' = Owned /\ Visited' = Visited
  BY DEF root, Owned, Ownership, Visited
<1>. QED BY <1>1 DEF MeetsEach, Level

\* Every step keeps the judgement on the block right.
LEMMA JudgedInductive == Started /\ Walking /\ Judged /\ [Next]_vars => Judged'
<1>. SUFFICES ASSUME Started, Walking, Judged, [Next]_vars PROVE Judged'
  OBVIOUS
<1>1. tables \in Blocks /\ (stage # "done" => fault = "none")
  BY DEF Started
<1>2. UNCHANGED tables
  BY DEF Next, vars, Choose, Visit, Walked, Claim, NextInitial, SplitDone
<1>3. IsForest' <=> IsForest
  BY <1>2, ForestStays
<1>4. CASE Choose
  <2>1. CASE References(tables, root) = << >>
    <3>1. IsForest /\ Owned = {} /\ fault' \in {"none", "table"}
      BY <1>1, <1>4, <2>1, LoneRoot DEF Choose, Stop
    <3>2. UNCHANGED <<tables, references, parents, depths>> /\ references = << >>
      BY <1>4, <2>1 DEF Choose, walk, Started
    <3>3. Visited = {} /\ Plain(references)
      BY <3>2 DEF Visited, Range, Plain
    <3>4. MeetsEach
      BY <3>1, <3>3 DEF MeetsEach
    <3>5. MeetsEach'
      BY <3>2, <3>4, MeetsEachStays
    <3>. QED BY <3>1, <3>5, <1>3 DEF Judged
  <2>2. CASE References(tables, root) # << >> /\ SingleChild(tables)
    <3>1. PICK c : c = References(tables, root)[1]
      OBVIOUS
    <3>2. IsForest /\ c # root /\ Owned = {<<root, c>>} /\ fault' \in {"none", "table"}
      BY <1>1, <1>4, <2>2, <3>1, OneChild DEF Choose, Stop
    <3>3. /\ references' = References(tables, root)
          /\ parents' = With(<< >>, c, root) /\ depths' = With(<< >>, c, 1)
      BY <1>4, <2>2, <3>1 DEF Choose
    <3>4. references' = <<c>>
      <4>1. Len(References(tables, root)) = 1
        BY <2>2 DEF SingleChild, root
      <4>2. References(tables, root) \in Seq(Names(tables))
        BY <1>1, RootIsHere, KidsAre
      <4>. QED BY <3>1, <3>3, <4>1, <4>2
    <3>5. root' = root /\ Owned' = {<<root, c>>}
      BY <1>2, <3>2 DEF root, Owned, Ownership
    <3>6. Visited' = {c} /\ Plain(references')
      BY <3>4 DEF Visited, Range, Plain
    <3>7. parents'[c] = root /\ depths'[c] = 1
      BY <3>3 DEF With
    <3>8. MeetsEach'
      BY <3>5, <3>6, <3>7 DEF MeetsEach, Level
    <3>. QED BY <3>2, <3>8, <1>3 DEF Judged
  <2>3. CASE References(tables, root) # << >> /\ ~SingleChild(tables)
    BY <1>4, <2>3 DEF Choose, Judged, Accepted
  <2>. QED BY <2>1, <2>2, <2>3
<1>5. CASE Visit
  <2>1. CASE Contains(references, Head(queue)[1])
    <3>1. stage' = "done" /\ fault' = "owner" /\ stage = "walk" /\ queue # << >>
      BY <1>5, <2>1 DEF Visit, Stop
    <3>. QED BY <3>1, <2>1, <1>3, MetAgain DEF Judged, Accepted
  <2>2. CASE ~Contains(references, Head(queue)[1])
    <3>1. stage' = "walk" \/ (stage' = "done" /\ fault' = "table")
      BY <1>5, <2>2 DEF Visit, Stop
    <3>. QED BY <3>1 DEF Judged, Accepted
  <2>. QED BY <2>1, <2>2
<1>6. CASE Walked
  <2>1. IsForest /\ MeetsEach
    BY <1>6, WalkedAll DEF Walked, Walking, MeetsEach
  <2>3. MeetsEach'
    BY <2>1, <1>6, MeetsEachStays DEF Walked, walk
  <2>2. fault' = "none"
    BY <1>1, <1>6 DEF Walked
  <2>. QED BY <2>1, <2>2, <2>3, <1>3 DEF Judged
<1>7. CASE Claim \/ NextInitial \/ SplitDone
  <2>1. /\ stage = "regions" /\ IsForest /\ MeetsEach /\ fault' \in {fault, "overlap", "unconnected"}
        /\ UNCHANGED <<tables, references, parents, depths>>
    BY <1>7 DEF Claim, NextInitial, SplitDone, Stop, Judged, walk
  <2>. QED BY <2>1, <1>1, <1>3, MeetsEachStays DEF Judged
<1>8. CASE UNCHANGED vars
  BY <1>3, <1>8, MeetsEachStays DEF Judged, vars, walk, Accepted
<1>. QED BY <1>4, <1>5, <1>6, <1>7, <1>8 DEF Next

\* The judgement is right in every state.
LEMMA AlwaysJudged == Spec => []Judged
<1>1. Init => Judged
  BY DEF Init, Judged, Accepted
<1>. QED BY <1>1, AlwaysWalking, JudgedInductive, PTL DEF Spec

\* "a composite table cannot be owned by multiple parents or form a cycle":
\* the walk of generate_multi_code refuses a block for its owners exactly if
\* its tables form no tree, for any number of tables and any order of theirs.
THEOREM NoTreeIsRefused == Spec => []RefusesNoTree
<1>1. Judged => RefusesNoTree
  BY DEF Judged, RefusesNoTree
<1>. QED BY <1>1, AlwaysJudged, PTL

\* generate_multi_code, node_parents and node_depths: of an accepted block the
\* walk has met each table below the root exactly once, under the one table
\* that owns it and one level below that one.
THEOREM WalkMeetsEachTable == Spec => [](Accepted => MeetsEach)
<1>1. Judged => (Accepted => MeetsEach)
  BY DEF Judged
<1>. QED BY <1>1, AlwaysJudged, PTL

-----------------------------------------------------------------------------
(* Regions.                                                                  *)

\* The states of a region so far.
Class(k) == {s \in DOMAIN claimed[Job] : claimed[Job][s] = k}
\* The states still to be looked at for it.
Open(k) == IF k = index THEN Range(frontier) ELSE {}

\* A region has its initial state and whatever a row connects to it, but for
\* the states still to be looked at.
Grown(k) ==
    /\ Initials(Rows(Job))[k] \in Class(k) \union Open(k)
    /\ \A e \in Adjacent(Rows(Job)).edge : e[1] \in Class(k) => e[2] \in Class(k) \union Open(k)

\* A table is being split: its regions are part of the components so far.
Splits ==
    /\ jobs \in Seq(Names(tables)) /\ jobs # << >> /\ Plain(jobs)
    /\ \A i \in DOMAIN jobs : Orthogonal(Rows(jobs[i])) /\ (i > 1 => DOMAIN claimed[jobs[i]] = {})
    /\ index \in DOMAIN Initials(Rows(Job))
    /\ \A s \in DOMAIN claimed[Job] :
         claimed[Job][s] \in 1..index /\ s \in Region(Rows(Job), claimed[Job][s])
    /\ frontier \in Seq(Region(Rows(Job), index))
    /\ \A k \in 1..index : Grown(k)

\* The claims are kept by table.
Splitting ==
    /\ DOMAIN claimed = Names(tables)
    /\ stage \in {"choose", "walk"} =>
         index = 1 /\ found = {} /\ \A n \in Names(tables) : DOMAIN claimed[n] = {}
    /\ stage = "regions" => Splits

\* The rows of a table of the block, and their initial states, are sequences.
LEMMA RowsHere ==
    ASSUME tables \in Blocks, NEW n \in Names(tables)
    PROVE  /\ Rows(n) \in Seq(Range(Rows(n)))
           /\ Initials(Rows(n)) \in Seq(States(Rows(n)))
<1>1. Rows(n) \in Seq(Range(Rows(n)))
  BY BlocksAreTables, RowsAre DEF Rows
<1>. QED BY <1>1, InitialsAre

\* An edge is between states of the rows.
LEMMA EdgesAre ==
    ASSUME NEW rows, NEW e \in Adjacent(rows).edge
    PROVE  e[1] \in States(rows) /\ e[2] \in States(rows)
<1>1. PICK i \in DOMAIN rows : e = <<rows[i].from, rows[i].to>> \/ e = <<rows[i].to, rows[i].from>>
  BY DEF Adjacent
<1>2. rows[i].from \in States(rows) /\ rows[i].to \in States(rows)
  BY DEF States
<1>. QED BY <1>1, <1>2

\* A region is the smallest set with its initial state that no row leads out of.
LEMMA RegionIs ==
    ASSUME NEW rows, rows \in Seq(Range(rows)), NEW k \in DOMAIN Initials(rows)
    PROVE  /\ Initials(rows)[k] \in Region(rows, k)
           /\ Region(rows, k) \subseteq States(rows)
           /\ \A e \in Adjacent(rows).edge : e[1] \in Region(rows, k) => e[2] \in Region(rows, k)
           /\ \A S \in SUBSET States(rows) :
                /\ Initials(rows)[k] \in S
                /\ \A e \in Adjacent(rows).edge : e[1] \in S => e[2] \in S
                => Region(rows, k) \subseteq S
<1>1. Adjacent(rows).node = States(rows)
  BY DEF Adjacent
<1>2. Initials(rows)[k] \in States(rows)
  BY InitialsAre
<1>3. \A e \in Adjacent(rows).edge : e[2] \in Adjacent(rows).node
  BY <1>1, EdgesAre
<1>4. PICK s : s = Initials(rows)[k]
  OBVIOUS
<1>5. PICK graph : graph = Adjacent(rows)
  OBVIOUS
<1>6. s \in Reached(graph, s) /\ Closed(graph, Reached(graph, s))
  BY <1>1, <1>2, <1>3, <1>4, <1>5, ReachedGrows
<1>7. Region(rows, k) = Reached(graph, s)
  BY <1>4, <1>5 DEF Region
<1>8. Reached(graph, s) \subseteq States(rows)
  BY <1>1, <1>5 DEF Reached
<1>9. ASSUME NEW S \in SUBSET States(rows), s \in S, \A e \in graph.edge : e[1] \in S => e[2] \in S
      PROVE  Reached(graph, s) \subseteq S
  BY <1>1, <1>5, <1>9, ReachedLeast DEF Closed
<1>10. \A e \in graph.edge : e[1] \in Reached(graph, s) => e[2] \in Reached(graph, s)
  BY <1>6 DEF Closed
<1>. QED BY <1>4, <1>5, <1>6, <1>7, <1>8, <1>9, <1>10

\* A table has finitely many states.
LEMMA StatesFinite ==
    ASSUME NEW rows, rows \in Seq(Range(rows))
    PROVE  IsFiniteSet(States(rows))
<1>. DEFINE f == [i \in DOMAIN rows |-> {rows[i].from, rows[i].to}]
            pairs == {{rows[i].from, rows[i].to} : i \in DOMAIN rows}
<1>1. IsFiniteSet(DOMAIN rows)
  <2>1. DOMAIN rows = 1..Len(rows) /\ 1 \in Int /\ Len(rows) \in Int
    OBVIOUS
  <2>. QED BY <2>1, FS_Interval
<1>2. f \in Surjection(DOMAIN rows, pairs)
  BY DEF Surjection
<1>3. IsFiniteSet(pairs)
  <2>. HIDE DEF f, pairs
  <2>. QED BY <1>1, <1>2, FS_Surjection
<1>4. \A S \in pairs : IsFiniteSet(S)
  <2>1. SUFFICES ASSUME NEW i \in DOMAIN rows PROVE IsFiniteSet({rows[i].from, rows[i].to})
    OBVIOUS
  <2>2. IsFiniteSet({rows[i].from}) /\ IsFiniteSet({rows[i].to})
    BY FS_Singleton
  <2>3. IsFiniteSet({rows[i].from} \union {rows[i].to})
    BY <2>2, FS_Union
  <2>4. {rows[i].from, rows[i].to} = {rows[i].from} \union {rows[i].to}
    OBVIOUS
  <2>. QED BY <2>3, <2>4
<1>5. IsFiniteSet(UNION pairs)
  <2>. HIDE DEF pairs
  <2>. QED BY <1>3, <1>4, FS_UNION
<1>. QED BY <1>5 DEF States

\* The neighbours of a state are the states that a row connects to it.
LEMMA NeighboursAre ==
    ASSUME tables \in Blocks, Job \in Names(tables), NEW s
    PROVE  /\ Neighbours(s) \in Seq(Range(Neighbours(s)))
           /\ Range(Neighbours(s)) = {e[2] : e \in {d \in Adjacent(Rows(Job)).edge : d[1] = s}}
<1>1. PICK S : S = {e[2] : e \in {d \in Adjacent(Rows(Job)).edge : d[1] = s}}
  OBVIOUS
<1>2. PICK f : f = Neighbours(s)
  OBVIOUS
<1>3. f = SetToSeq(S)
  BY <1>1, <1>2 DEF Neighbours
<1>4. IsFiniteSet(S)
  <2>1. S \subseteq States(Rows(Job))
    BY <1>1, EdgesAre
  <2>2. IsFiniteSet(States(Rows(Job)))
    BY RowsHere, StatesFinite
  <2>. QED BY <2>1, <2>2, FS_Subset
<1>5. /\ Cardinality(S) \in Nat /\ f \in [1..Cardinality(S) -> S]
      /\ \A x \in S : \E k \in 1..Cardinality(S) : f[k] = x
  BY <1>3, <1>4, SetToSeqAll
<1>6. f \in Seq(S)
  BY <1>5
<1>7. Range(f) = S
  BY <1>5 DEF Range
<1>. QED BY <1>1, <1>2, <1>6, <1>7

\* With nothing left to look at, a class is the region of its initial state.
LEMMA ClassIsRegion ==
    ASSUME tables \in Blocks, Splits, frontier = << >>, NEW k \in 1..index
    PROVE  k \in DOMAIN Initials(Rows(Job)) /\ Class(k) = Region(Rows(Job), k)
<1>1. Job \in Names(tables)
  BY DEF Splits, Job
<1>2. /\ index \in DOMAIN Initials(Rows(Job)) /\ Grown(k)
      /\ \A s \in DOMAIN claimed[Job] : s \in Region(Rows(Job), claimed[Job][s])
  BY DEF Splits
<1>3. PICK rows : rows = Rows(Job)
  OBVIOUS
<1>4. rows \in Seq(Range(rows)) /\ Initials(rows) \in Seq(States(rows))
  BY <1>1, <1>3, RowsHere
<1>5. k \in DOMAIN Initials(rows)
  BY <1>2, <1>3, <1>4
<1>6. Class(k) \subseteq Region(rows, k)
  BY <1>2, <1>3 DEF Class
<1>7. /\ Initials(rows)[k] \in Class(k)
      /\ \A e \in Adjacent(rows).edge : e[1] \in Class(k) => e[2] \in Class(k)
  <2>1. Open(k) = {}
    BY DEF Open, Range
  <2>. QED BY <2>1, <1>2, <1>3 DEF Grown
<1>8. Region(rows, k) \subseteq States(rows)
  BY <1>4, <1>5, RegionIs
<1>9. Class(k) \in SUBSET States(rows)
  BY <1>6, <1>8
<1>10. Region(rows, k) \subseteq Class(k)
  BY <1>4, <1>5, <1>7, <1>9, RegionIs
<1>. QED BY <1>3, <1>5, <1>6, <1>10

\* The classes are the regions, so that no two share a state; the states
\* outside them are the loose ones.
LEMMA Parted ==
    ASSUME tables \in Blocks, NoneAssumption, Splits, frontier = << >>,
           index = Len(Initials(Rows(Job)))
    PROVE  Separate(Job) /\ (Covered(Job) <=> Loose = {})
<1>1. Job \in Names(tables)
  BY DEF Splits, Job
<1>2. DOMAIN Initials(Rows(Job)) = 1..index
  <2>1. Initials(Rows(Job)) \in Seq(States(Rows(Job)))
    BY <1>1, RowsHere
  <2>. QED BY <2>1
<1>3. \A k \in 1..index : Class(k) = Region(Rows(Job), k)
  BY ClassIsRegion
<1>4. Separate(Job)
  BY <1>2, <1>3 DEF Separate, Class
<1>5. \A s : s \in UNION {Region(Rows(Job), k) : k \in 1..index} <=> s \in DOMAIN claimed[Job]
  <2>1. \A s \in DOMAIN claimed[Job] : claimed[Job][s] \in 1..index
    BY DEF Splits
  <2>. QED BY <2>1, <1>3 DEF Class
<1>6. \A s : Holder(s) = None <=> s \notin DOMAIN claimed[Job]
  <2>1. \A s \in DOMAIN claimed[Job] : claimed[Job][s] \in 1..index
    BY DEF Splits
  <2>2. index \in Nat
    BY <1>1, RowsHere DEF Splits
  <2>. QED BY <2>1, <2>2, NoneAssumption DEF Holder
<1>7. Covered(Job) <=> Loose = {}
  BY <1>2, <1>5, <1>6 DEF Covered, Loose
<1>. QED BY <1>4, <1>7

\* The rows do not change, nor what their components are.
LEMMA TablesStay ==
    ASSUME UNCHANGED tables
    PROVE  /\ Names(tables)' = Names(tables)
           /\ \A n : Rows(n)' = Rows(n) /\ (Separate(n)' <=> Separate(n)) /\ (Covered(n)' <=> Covered(n))
BY DEF Rows, Separate, Covered

\* The tables with several initial states are handed over, one after the other.
LEMMA SplitsStart ==
    ASSUME tables \in Blocks, UNCHANGED tables, DOMAIN claimed = Names(tables), index = 1,
           \A n \in Names(tables) : DOMAIN claimed[n] = {},
           NEW names \in Seq(Names(tables)), Plain(names), StartRegions(names), stage' = "regions"
    PROVE  Splits'
<1>. DEFINE places == {i \in DOMAIN names : Orthogonal(Rows(names[i]))}
            several == Those(names, places)
<1>1. /\ jobs' = several /\ several # << >> /\ UNCHANGED <<index, claimed>>
      /\ frontier' = <<Initials(Rows(several[1]))[1]>>
  BY DEF StartRegions
<1>2. Names(tables)' = Names(tables) /\ \A n : Rows(n)' = Rows(n)
  BY TablesStay
<1>3. PICK c \in Nat : DOMAIN names = 1..c
  OBVIOUS
<1>4. Selects(several, names, places)
  <2>1. places \in SUBSET (1..c)
    BY <1>3
  <2>. HIDE DEF places
  <2>. QED BY <2>1, ThoseAre
<1>5. \A i \in places : i \in DOMAIN names /\ Orthogonal(Rows(names[i])) /\ names[i] \in Names(tables)
  OBVIOUS
<1>. HIDE DEF places, several
<1>6. \A k \in DOMAIN several : several[k] \in Names(tables) /\ Orthogonal(Rows(several[k]))
  BY <1>4, <1>5, Zenon DEF Selects
<1>7. several \in Seq(Names(tables))
  <2>1. several \in Seq(Range(several))
    BY <1>4 DEF Selects
  <2>2. Range(several) \subseteq Names(tables)
    BY <1>6 DEF Range
  <2>. QED BY <2>1, <2>2, SeqMonotonic
<1>8. Plain(several)
  <2>1. ASSUME NEW k \in DOMAIN several, NEW l \in DOMAIN several, l < k PROVE several[k] # several[l]
    <3>1. PICK i \in places, j \in places : j < i /\ several[k] = names[i] /\ several[l] = names[j]
      BY <1>4, <2>1, Zenon DEF Selects
    <3>2. i # j
      BY <1>3, <1>5, <3>1
    <3>. QED BY <1>5, <3>1, <3>2 DEF Plain
  <2>2. \A k, l \in DOMAIN several : l < k \/ k < l \/ k = l
    BY <1>7
  <2>. QED BY <2>1, <2>2 DEF Plain
<1>9. PICK n : 1 \in DOMAIN several /\ n = several[1] /\ n = Head(several)
  BY <1>1, <1>7
<1>10. Job' = n /\ n \in Names(tables) /\ DOMAIN claimed[n] = {}
  BY <1>1, <1>6, <1>9 DEF Job
<1>11. Rows(Job)' = Rows(n) /\ claimed'[Job'] = claimed[n]
  <2>1. \A m : m = Job' => Rows(Job)' = Rows(m)'
    BY DEF Rows
  <2>. QED BY <2>1, <1>1, <1>2, <1>10
<1>12. PICK rows : rows = Rows(n)
  OBVIOUS
<1>13. 1 \in DOMAIN Initials(rows) /\ rows \in Seq(Range(rows))
  <2>1. Len(Initials(rows)) > 1
    BY <1>6, <1>9, <1>12 DEF Orthogonal
  <2>2. rows \in Seq(Range(rows)) /\ Initials(rows) \in Seq(States(rows))
    BY <1>10, <1>12, RowsHere
  <2>. QED BY <2>1, <2>2
<1>14. Initials(rows)[1] \in Region(rows, 1)
  BY <1>13, RegionIs
<1>15. frontier' = <<Initials(rows)[1]>>
  BY <1>1, <1>9, <1>12
<1>16. frontier' \in Seq(Region(rows, 1)) /\ Initials(rows)[1] \in Range(frontier')
  BY <1>14, <1>15 DEF Range
<1>17. Grown(1)'
  <2>1. Open(1)' = Range(frontier')
    BY <1>1 DEF Open
  <2>2. \A s : s \notin Class(1)'
    BY <1>10, <1>11 DEF Class
  <2>. QED BY <2>1, <2>2, <1>11, <1>12, <1>16 DEF Grown
<1>18. \A k \in 1..index' : k = 1
  BY <1>1
<1>19. ASSUME NEW i \in DOMAIN jobs'
       PROVE  Orthogonal(Rows(jobs[i]))' /\ (i > 1 => DOMAIN claimed[jobs[i]] = {})'
  <2>1. PICK m : m = jobs'[i] /\ m = several[i]
    BY <1>1
  <2>2. m \in Names(tables) /\ Orthogonal(Rows(m)) /\ claimed'[m] = claimed[m]
    BY <2>1, <1>1, <1>6
  <2>3. Rows(jobs[i])' = Rows(m)
    <3>1. Rows(jobs[i])' = RowsOf(tables', m)
      BY <2>1 DEF Rows
    <3>. QED BY <3>1 DEF Rows
  <2>. QED BY <2>1, <2>2, <2>3
<1>20. index' \in DOMAIN Initials(Rows(Job)')
  BY <1>1, <1>11, <1>12, <1>13
<1>21. \A s \in DOMAIN claimed'[Job'] : FALSE
  BY <1>10, <1>11
<1>22. frontier' \in Seq(Region(Rows(Job)', index'))
  BY <1>1, <1>11, <1>12, <1>16
<1>23. jobs' \in Seq(Names(tables)') /\ jobs' # << >> /\ Plain(jobs')
  BY <1>1, <1>2, <1>7, <1>8
<1>. QED BY <1>17, <1>18, <1>19, <1>20, <1>21, <1>22, <1>23 DEF Splits

\* What a step adds to the class, and to the frontier once its head is gone.
Adds(added, more) ==
    /\ DOMAIN claimed'[Job] = DOMAIN claimed[Job] \union added
    /\ added \intersect DOMAIN claimed[Job] = {}
    /\ \A t \in DOMAIN claimed[Job] : claimed'[Job][t] = claimed[Job][t]
    /\ \A t \in added : t \in Region(Rows(Job), index) /\ claimed'[Job][t] = index
    /\ \A i \in DOMAIN jobs : i > 1 => claimed'[jobs[i]] = claimed[jobs[i]]
    /\ frontier' \in Seq(Region(Rows(Job), index))
    /\ Range(frontier') = Range(Tail(frontier)) \union more
    /\ Head(frontier) \in Class(index) \union added
    /\ \A e \in Adjacent(Rows(Job)).edge : e[1] \in added => e[2] \in more

\* One state is looked at: it is known, or new and its neighbours come next.
LEMMA SplitsClaimed ==
    ASSUME tables \in Blocks, DOMAIN claimed = Names(tables), Splits, Claim, stage' = "regions"
    PROVE  Splits'
<1>. DEFINE s == Head(frontier)
            initials == Initials(Rows(Job))
            edges == Adjacent(Rows(Job)).edge
<1>1. frontier # << >> /\ UNCHANGED <<tables, jobs, index>> /\ Holder(s) \in {None, index}
  BY DEF Claim, Stop, walk
<1>2. /\ jobs \in Seq(Names(tables)) /\ jobs # << >> /\ Plain(jobs)
      /\ \A i \in DOMAIN jobs : Orthogonal(Rows(jobs[i])) /\ (i > 1 => DOMAIN claimed[jobs[i]] = {})
      /\ index \in DOMAIN initials
      /\ \A t \in DOMAIN claimed[Job] :
           claimed[Job][t] \in 1..index /\ t \in Region(Rows(Job), claimed[Job][t])
      /\ frontier \in Seq(Region(Rows(Job), index))
      /\ \A k \in 1..index : Grown(k)
  BY DEF Splits
<1>3. Job \in Names(tables) /\ 1 \in DOMAIN jobs /\ Job = jobs[1] /\ DOMAIN jobs \subseteq Nat \ {0}
  BY <1>2 DEF Job
<1>4. Rows(Job) \in Seq(Range(Rows(Job))) /\ initials \in Seq(States(Rows(Job)))
  BY <1>3, RowsHere
<1>5. index \in Nat /\ index \in 1..index
  BY <1>2, <1>4
<1>6. PICK region : region = Region(Rows(Job), index)
  OBVIOUS
<1>7. s \in region /\ Tail(frontier) \in Seq(region) /\ Range(frontier) = {s} \union Range(Tail(frontier))
  <2>1. frontier \in Seq(region)
    BY <1>2, <1>6
  <2>2. s \in region /\ Tail(frontier) \in Seq(region)
    BY <2>1, <1>1
  <2>3. PICK c \in Nat : DOMAIN frontier = 1..(c + 1)
    <3>1. Len(frontier) \in Nat /\ Len(frontier) # 0 /\ DOMAIN frontier = 1..Len(frontier)
      BY <1>1, <2>1
    <3>2. Len(frontier) - 1 \in Nat /\ Len(frontier) = (Len(frontier) - 1) + 1
      BY <3>1
    <3>. QED BY <3>1, <3>2
  <2>4. DOMAIN Tail(frontier) = 1..c /\ \A i \in 1..c : Tail(frontier)[i] = frontier[i + 1]
    BY <1>1, <2>1, <2>3
  <2>5. \A i \in 1..(c + 1) : i = 1 \/ (i - 1 \in 1..c /\ i = (i - 1) + 1)
    BY <2>3
  <2>6. s = frontier[1] /\ 1 \in 1..(c + 1) /\ \A i \in 1..c : i + 1 \in 1..(c + 1)
    BY <1>1, <2>1, <2>3
  <2>7. ASSUME NEW x \in Range(frontier) PROVE x \in {s} \union Range(Tail(frontier))
    <3>1. PICK i \in 1..(c + 1) : x = frontier[i]
      BY <2>3, <2>7 DEF Range
    <3>2. CASE i = 1
      BY <2>6, <3>1, <3>2
    <3>3. CASE i - 1 \in 1..c /\ i = (i - 1) + 1
      <4>1. i - 1 \in DOMAIN Tail(frontier) /\ Tail(frontier)[i - 1] = x
        BY <2>4, <3>1, <3>3
      <4>. QED BY <4>1 DEF Range
    <3>. QED BY <2>5, <3>2, <3>3
  <2>8. {s} \union Range(Tail(frontier)) \subseteq Range(frontier)
    BY <2>3, <2>4, <2>6 DEF Range
  <2>. QED BY <2>2, <2>7, <2>8
<1>8. Job' = Job /\ Rows(Job)' = Rows(Job) /\ Names(tables)' = Names(tables) /\ \A n : Rows(n)' = Rows(n)
  <2>1. Job' = Job
    BY <1>1 DEF Job
  <2>2. Rows(Job)' = RowsOf(tables', Job')
    BY DEF Rows
  <2>. QED BY <2>1, <2>2, <1>1, TablesStay DEF Rows
\* What is left is to show what the step adds to the class, and that its
\* neighbours are in the class or in the frontier.
<1>9. ASSUME NEW added, NEW more, Adds(added, more) PROVE Splits'
  <2>0. /\ DOMAIN claimed'[Job] = DOMAIN claimed[Job] \union added
        /\ added \intersect DOMAIN claimed[Job] = {}
        /\ \A t \in DOMAIN claimed[Job] : claimed'[Job][t] = claimed[Job][t]
        /\ \A t \in added : t \in region /\ claimed'[Job][t] = index
        /\ \A i \in DOMAIN jobs : i > 1 => claimed'[jobs[i]] = claimed[jobs[i]]
        /\ frontier' \in Seq(region)
        /\ Range(frontier') = Range(Tail(frontier)) \union more
        /\ s \in Class(index) \union added
        /\ \A e \in edges : e[1] \in added => e[2] \in more
    BY <1>6, <1>9 DEF Adds
  <2>1. \A k \in 1..index : Class(k)' = IF k = index THEN Class(k) \union added ELSE Class(k)
    BY <1>8, <2>0 DEF Class
  <2>2. \A k : Open(k)' = IF k = index THEN Range(Tail(frontier)) \union more ELSE {}
    BY <1>1, <2>0 DEF Open
  <2>3. \A k : Open(k) \subseteq Open(k)' \union {s} /\ (k # index => Open(k) = {})
    BY <2>2, <1>7 DEF Open
  <2>4. ASSUME NEW k \in 1..index PROVE Grown(k)'
    <3>1. Grown(k)
      BY <1>2
    <3>2. Initials(Rows(Job)') = initials /\ Adjacent(Rows(Job)').edge = edges
      BY <1>8
    <3>3. Class(k) \union Open(k) \subseteq Class(k)' \union Open(k)'
      BY <2>1, <2>3, <2>0
    <3>4. initials[k] \in Class(k)' \union Open(k)'
      BY <3>1, <3>3 DEF Grown
    <3>5. ASSUME NEW e \in edges, e[1] \in Class(k)' PROVE e[2] \in Class(k)' \union Open(k)'
      <4>1. CASE e[1] \in Class(k)
        BY <3>1, <3>3, <4>1 DEF Grown
      <4>2. CASE k = index /\ e[1] \in added
        BY <4>2, <2>2, <2>0
      <4>. QED BY <3>5, <4>1, <4>2, <2>1
    <3>. QED BY <3>2, <3>4, <3>5 DEF Grown
  <2>5. \A i \in DOMAIN jobs' : Orthogonal(Rows(jobs[i]))' /\ (i > 1 => DOMAIN claimed[jobs[i]] = {})'
    <3>1. SUFFICES ASSUME NEW i \in DOMAIN jobs'
                   PROVE  Orthogonal(Rows(jobs[i]))' /\ (i > 1 => DOMAIN claimed[jobs[i]] = {})'
      OBVIOUS
    <3>2. PICK m : m = jobs'[i] /\ m = jobs[i]
      BY <1>1
    <3>3. Rows(jobs[i])' = Rows(m)
      <4>1. Rows(jobs[i])' = RowsOf(tables', m)
        BY <3>2 DEF Rows
      <4>. QED BY <4>1, <1>1 DEF Rows
    <3>4. Orthogonal(Rows(m)) /\ (i > 1 => DOMAIN claimed'[m] = {})
      BY <3>1, <3>2, <1>1, <1>2, <2>0
    <3>. QED BY <3>2, <3>3, <3>4
  <2>6. ASSUME NEW t \in DOMAIN claimed'[Job]
        PROVE  claimed'[Job][t] \in 1..index /\ t \in Region(Rows(Job), claimed'[Job][t])
    BY <2>6, <1>2, <1>5, <1>6, <2>0
  <2>7. jobs' \in Seq(Names(tables)') /\ jobs' # << >> /\ Plain(jobs')
    BY <1>1, <1>2, <1>8
  <2>8. index' \in DOMAIN Initials(Rows(Job)')
    BY <1>1, <1>2, <1>8
  <2>9. frontier' \in Seq(Region(Rows(Job)', index'))
    BY <1>1, <1>6, <1>8, <2>0
  <2>10. \A t \in DOMAIN claimed'[Job'] :
            claimed'[Job'][t] \in 1..index' /\ t \in Region(Rows(Job)', claimed'[Job'][t])
    BY <1>1, <1>8, <2>6
  <2>. QED BY <1>1, <2>4, <2>5, <2>7, <2>8, <2>9, <2>10 DEF Splits
<1>10. CASE Holder(s) = index /\ Holder(s) # None
  <2>1. claimed' = claimed /\ frontier' = Tail(frontier)
    BY <1>10 DEF Claim, Stop
  <2>2. s \in Class(index)
    BY <1>10 DEF Holder, Class
  <2>3. Adds({}, {})
    BY <2>1, <2>2, <1>6, <1>7 DEF Adds
  <2>. QED BY <2>3, <1>9
<1>11. CASE Holder(s) = None
  <2>1. /\ claimed' = [claimed EXCEPT ![Job] = With(@, s, index)]
        /\ frontier' = Tail(frontier) \o Neighbours(s)
    BY <1>11, <1>5, NoneAssumption DEF Claim, Stop
  <2>2. s \notin DOMAIN claimed[Job]
    BY <1>11, <1>2, <1>5, NoneAssumption DEF Holder
  <2>3. claimed'[Job] = With(claimed[Job], s, index)
    BY <2>1, <1>3
  <2>4. \A i \in DOMAIN jobs : i > 1 => claimed'[jobs[i]] = claimed[jobs[i]]
    <3>1. SUFFICES ASSUME NEW i \in DOMAIN jobs, i > 1 PROVE claimed'[jobs[i]] = claimed[jobs[i]]
      OBVIOUS
    <3>2. jobs[i] # Job /\ jobs[i] \in DOMAIN claimed
      BY <3>1, <1>2, <1>3 DEF Plain
    <3>. QED BY <2>1, <3>2
  <2>5. PICK near : near = Neighbours(s)
    OBVIOUS
  <2>6. near \in Seq(Range(near)) /\ Range(near) = {e[2] : e \in {d \in edges : d[1] = s}}
    BY <2>5, <1>3, NeighboursAre
  <2>7. \A e \in edges : e[1] \in {s} => e[2] \in Range(near)
    BY <2>6
  <2>8. Range(near) \subseteq region
    BY <2>6, <1>2, <1>4, <1>6, <1>7, RegionIs
  <2>9. near \in Seq(region)
    BY <2>6, <2>8, SeqMonotonic
  <2>10. PICK rest : rest = Tail(frontier) /\ rest \in Seq(region)
    BY <1>7
  <2>11. rest \o near \in Seq(region) /\ Range(rest \o near) = Range(rest) \union Range(near)
    BY <2>9, <2>10, ConcatProperties, RangeConcatenation
  <2>12. frontier' = rest \o near
    BY <2>1, <2>5, <2>10
  <2>13. Adds({s}, Range(near))
    BY <2>2, <2>3, <2>4, <2>7, <2>10, <2>11, <2>12, <1>6, <1>7 DEF With, Adds
  <2>. QED BY <2>13, <1>9
<1>. QED BY <1>1, <1>10, <1>11

\* A region is complete and the next one starts from its initial state.
LEMMA SplitsNext ==
    ASSUME tables \in Blocks, Splits, NextInitial
    PROVE  Splits'
<1>. DEFINE initials == Initials(Rows(Job))
            edges == Adjacent(Rows(Job)).edge
<1>1. /\ frontier = << >> /\ index < Len(initials) /\ UNCHANGED <<tables, jobs, claimed>>
      /\ index' = index + 1 /\ frontier' = <<initials[index + 1]>>
  BY DEF NextInitial
<1>2. /\ jobs \in Seq(Names(tables)) /\ jobs # << >> /\ Plain(jobs)
      /\ \A i \in DOMAIN jobs : Orthogonal(Rows(jobs[i])) /\ (i > 1 => DOMAIN claimed[jobs[i]] = {})
      /\ index \in DOMAIN initials
      /\ \A t \in DOMAIN claimed[Job] :
           claimed[Job][t] \in 1..index /\ t \in Region(Rows(Job), claimed[Job][t])
      /\ \A k \in 1..index : Grown(k)
  BY DEF Splits
<1>3. Job \in Names(tables)
  BY <1>2 DEF Job
<1>4. Rows(Job) \in Seq(Range(Rows(Job))) /\ initials \in Seq(States(Rows(Job)))
  BY <1>3, RowsHere
<1>5. /\ index \in Nat /\ index + 1 \in DOMAIN initials
      /\ \A k \in 1..(index + 1) : k \in 1..index \/ k = index + 1
  BY <1>1, <1>2, <1>4
<1>6. Job' = Job /\ Rows(Job)' = Rows(Job) /\ Names(tables)' = Names(tables) /\ \A n : Rows(n)' = Rows(n)
  <2>1. Job' = Job
    BY <1>1 DEF Job
  <2>2. Rows(Job)' = RowsOf(tables', Job')
    BY DEF Rows
  <2>. QED BY <2>1, <2>2, <1>1, TablesStay DEF Rows
<1>7. initials[index + 1] \in Region(Rows(Job), index + 1)
  BY <1>4, <1>5, RegionIs
<1>8. \A k : Class(k)' = Class(k) /\ Open(k) = {} /\ (k # index + 1 => Open(k)' = {})
  BY <1>1, <1>6 DEF Class, Open, Range
<1>9. Class(index + 1) = {} /\ initials[index + 1] \in Range(frontier')
  <2>1. index + 1 \notin 1..index
    BY <1>5
  <2>2. Class(index + 1) = {}
    BY <2>1, <1>2 DEF Class
  <2>3. initials[index + 1] \in Range(frontier')
    BY <1>1 DEF Range
  <2>. QED BY <2>2, <2>3
<1>10. ASSUME NEW k \in 1..index' PROVE Grown(k)'
  <2>1. Initials(Rows(Job)') = initials /\ Adjacent(Rows(Job)').edge = edges
    BY <1>6
  <2>2. CASE k \in 1..index
    BY <2>1, <2>2, <1>2, <1>5, <1>8 DEF Grown
  <2>3. CASE k = index + 1
    <3>1. Open(k)' = Range(frontier') /\ Class(k) = {}
      BY <2>3, <1>1, <1>9 DEF Open
    <3>. QED BY <2>1, <2>3, <3>1, <1>8, <1>9 DEF Grown
  <2>. QED BY <2>2, <2>3, <1>1, <1>5
<1>11. \A i \in DOMAIN jobs' : Orthogonal(Rows(jobs[i]))' /\ (i > 1 => DOMAIN claimed[jobs[i]] = {})'
  <2>1. SUFFICES ASSUME NEW i \in DOMAIN jobs'
                 PROVE  Orthogonal(Rows(jobs[i]))' /\ (i > 1 => DOMAIN claimed[jobs[i]] = {})'
    OBVIOUS
  <2>2. PICK m : m = jobs'[i] /\ m = jobs[i]
    BY <1>1
  <2>3. Rows(jobs[i])' = Rows(m)
    <3>1. Rows(jobs[i])' = RowsOf(tables', m)
      BY <2>2 DEF Rows
    <3>. QED BY <3>1, <1>1 DEF Rows
  <2>. QED BY <2>1, <2>2, <2>3, <1>1, <1>2
<1>12. \A t \in DOMAIN claimed'[Job'] :
          claimed'[Job'][t] \in 1..index' /\ t \in Region(Rows(Job)', claimed'[Job'][t])
  BY <1>1, <1>2, <1>5, <1>6
<1>13. frontier' \in Seq(Region(Rows(Job)', index'))
  BY <1>1, <1>6, <1>7
<1>14. jobs' \in Seq(Names(tables)') /\ jobs' # << >> /\ Plain(jobs')
  BY <1>1, <1>2, <1>6
<1>15. index' \in DOMAIN Initials(Rows(Job)')
  BY <1>1, <1>5, <1>6
<1>. QED BY <1>10, <1>11, <1>12, <1>13, <1>14, <1>15 DEF Splits

\* A table is split, and another one is to be.
LEMMA SplitsOn ==
    ASSUME tables \in Blocks, Splits, SplitDone, stage' = "regions"
    PROVE  Splits'
<1>1. /\ UNCHANGED <<tables, claimed>> /\ jobs' = Tail(jobs) /\ index' = 1 /\ Tail(jobs) # << >>
      /\ frontier' = <<Initials(Rows(jobs[2]))[1]>>
  BY DEF SplitDone, Stop, split
<1>2. /\ jobs \in Seq(Names(tables)) /\ jobs # << >> /\ Plain(jobs)
      /\ \A i \in DOMAIN jobs : Orthogonal(Rows(jobs[i])) /\ (i > 1 => DOMAIN claimed[jobs[i]] = {})
  BY DEF Splits
<1>3. /\ Tail(jobs) \in Seq(Names(tables)) /\ 1 \in DOMAIN Tail(jobs) /\ 2 \in DOMAIN jobs
      /\ Head(Tail(jobs)) = jobs[2]
      /\ \A i \in DOMAIN Tail(jobs) : i \in Nat \ {0} /\ i + 1 \in DOMAIN jobs /\ Tail(jobs)[i] = jobs[i + 1]
  BY <1>1, <1>2
<1>4. PICK n : n = jobs[2] /\ n \in Names(tables)
  BY <1>2, <1>3
<1>5. PICK rows : rows = Rows(n)
  OBVIOUS
<1>6. /\ DOMAIN claimed[n] = {} /\ 1 \in DOMAIN Initials(rows) /\ rows \in Seq(Range(rows))
  <2>1. DOMAIN claimed[n] = {} /\ Len(Initials(rows)) > 1
    BY <1>2, <1>3, <1>4, <1>5 DEF Orthogonal
  <2>2. rows \in Seq(Range(rows)) /\ Initials(rows) \in Seq(States(rows))
    BY <1>4, <1>5, RowsHere
  <2>. QED BY <2>1, <2>2
<1>7. Job' = n /\ Rows(Job)' = rows /\ Names(tables)' = Names(tables) /\ claimed'[Job'] = claimed[n]
  <2>1. Job' = n
    BY <1>1, <1>3, <1>4 DEF Job
  <2>2. Rows(Job)' = RowsOf(tables', Job')
    BY DEF Rows
  <2>. QED BY <2>1, <2>2, <1>1, <1>5, TablesStay DEF Rows
<1>8. frontier' = <<Initials(rows)[1]>> /\ Initials(rows)[1] \in Region(rows, 1)
  BY <1>1, <1>4, <1>5, <1>6, RegionIs
<1>9. frontier' \in Seq(Region(rows, 1)) /\ Initials(rows)[1] \in Range(frontier')
  BY <1>8 DEF Range
<1>10. Grown(1)'
  <2>1. Open(1)' = Range(frontier')
    BY <1>1 DEF Open
  <2>2. \A s : s \notin Class(1)'
    BY <1>6, <1>7 DEF Class
  <2>. QED BY <2>1, <2>2, <1>7, <1>9 DEF Grown
<1>11. \A k \in 1..index' : k = 1
  BY <1>1
<1>12. \A i \in DOMAIN jobs' : Orthogonal(Rows(jobs[i]))' /\ (i > 1 => DOMAIN claimed[jobs[i]] = {})'
  <2>1. SUFFICES ASSUME NEW i \in DOMAIN jobs'
                 PROVE  Orthogonal(Rows(jobs[i]))' /\ DOMAIN claimed[jobs[i]]' = {}
    OBVIOUS
  <2>2. PICK m : m = jobs'[i] /\ m = jobs[i + 1] /\ i + 1 > 1
    BY <1>1, <1>3
  <2>3. Rows(jobs[i])' = Rows(m)
    <3>1. Rows(jobs[i])' = RowsOf(tables', m)
      BY <2>2 DEF Rows
    <3>. QED BY <3>1, <1>1 DEF Rows
  <2>4. Orthogonal(Rows(m)) /\ DOMAIN claimed[m] = {}
    BY <2>2, <1>1, <1>2, <1>3
  <2>. QED BY <2>2, <2>3, <2>4, <1>1
<1>13. Plain(jobs')
  <2>1. ASSUME NEW i \in DOMAIN Tail(jobs), NEW j \in DOMAIN Tail(jobs), Tail(jobs)[i] = Tail(jobs)[j]
        PROVE  i = j
    <3>1. i + 1 = j + 1
      BY <2>1, <1>2, <1>3 DEF Plain
    <3>. QED BY <3>1, <1>3
  <2>. QED BY <2>1, <1>1 DEF Plain
<1>14. \A t \in DOMAIN claimed'[Job'] : FALSE
  BY <1>6, <1>7
<1>15. frontier' \in Seq(Region(Rows(Job)', index')) /\ index' \in DOMAIN Initials(Rows(Job)')
  BY <1>1, <1>6, <1>7, <1>9
<1>16. jobs' \in Seq(Names(tables)') /\ jobs' # << >>
  BY <1>1, <1>3, <1>7
<1>. QED BY <1>10, <1>11, <1>12, <1>13, <1>14, <1>15, <1>16 DEF Splits

\* Every step of discover_regions keeps its claims right.
LEMMA SplittingInductive == Started /\ Walking /\ Splitting /\ [Next]_vars => Splitting'
<1>. SUFFICES ASSUME Started, Walking, Splitting, [Next]_vars PROVE Splitting'
  OBVIOUS
<1>1. /\ tables \in Blocks /\ DOMAIN claimed = Names(tables)
      /\ stage \in {"choose", "walk"} =>
           index = 1 /\ found = {} /\ \A n \in Names(tables) : DOMAIN claimed[n] = {}
      /\ stage = "regions" => Splits
  BY DEF Started, Splitting
<1>2. UNCHANGED tables
  BY DEF Next, vars, Choose, Visit, Walked, Claim, NextInitial, SplitDone
<1>3. Names(tables)' = Names(tables) /\ root \in Names(tables)
  BY <1>1, <1>2, TablesStay, RootIsHere
\* A step that hands over to discover_regions, or does not touch it.
<1>4. ASSUME stage \in {"choose", "walk"}, NEW names \in Seq(Names(tables)), Plain(names), StartRegions(names)
      PROVE  Splitting'
  <2>1. stage' = "regions" => Splits'
    BY <1>1, <1>2, <1>4, SplitsStart
  <2>2. stage' \in {"done", "regions"} /\ UNCHANGED claimed
    BY <1>4 DEF StartRegions
  <2>. QED BY <2>1, <2>2, <1>1, <1>3 DEF Splitting
<1>5. ASSUME stage \in {"choose", "walk"}, stage' \in {"walk", "done"}, UNCHANGED split
      PROVE  Splitting'
  BY <1>1, <1>3, <1>5 DEF Splitting, split
<1>6. CASE Choose
  <2>1. CASE stage' \in {"walk", "done"} /\ UNCHANGED split
    BY <1>5, <1>6, <2>1 DEF Choose
  <2>2. CASE StartRegions(<<root>>)
    <3>1. <<root>> \in Seq(Names(tables)) /\ Plain(<<root>>)
      BY <1>3 DEF Plain
    <3>. QED BY <3>1, <2>2, <1>4, <1>6 DEF Choose
  <2>. QED BY <1>6, <2>1, <2>2 DEF Choose, Stop
<1>7. CASE Visit
  BY <1>5, <1>7 DEF Visit, Stop
<1>8. CASE Walked
  <2>1. /\ stage = "walk" /\ StartRegions(<<root>> \o references)
        /\ references \in Seq(Names(tables)) /\ Plain(references)
    BY <1>8 DEF Walked, Walking
  <2>2. root \notin Visited
    BY <1>8, WalkedAll DEF Walked
  <2>3. PICK names : names = <<root>> \o references
    OBVIOUS
  <2>4. PICK c \in Nat : c = Len(references) /\ DOMAIN references = 1..c
    BY <2>1
  <2>5. /\ names \in Seq(Names(tables)) /\ DOMAIN names = 1..(c + 1)
        /\ names[1] = root /\ \A i \in 2..(c + 1) : names[i] = references[i - 1]
    BY <2>1, <2>3, <2>4, <1>3
  <2>6. \A i \in 1..(c + 1) : i = 1 \/ (i \in 2..(c + 1) /\ i - 1 \in 1..c /\ i = (i - 1) + 1)
    OBVIOUS
  <2>7. \A i \in 1..c : references[i] # root
    BY <2>2, <2>4 DEF Visited, Range
  <2>8. Plain(names)
    <3>1. ASSUME NEW i \in 1..(c + 1), NEW j \in 1..(c + 1), names[i] = names[j] PROVE i = j
      <4>1. CASE i = 1 /\ j = 1
        BY <4>1
      <4>2. CASE i # 1 /\ j # 1
        <5>1. i - 1 = j - 1
          BY <2>1, <2>4, <2>5, <2>6, <3>1, <4>2 DEF Plain
        <5>. QED BY <5>1
      <4>. QED BY <2>5, <2>6, <2>7, <3>1, <4>1, <4>2
    <3>. QED BY <2>5, <3>1 DEF Plain
  <2>. QED BY <2>1, <2>3, <2>5, <2>8, <1>4
<1>9. CASE Claim
  <2>1. Splits /\ stage' \in {"regions", "done"}
    BY <1>1, <1>9 DEF Claim, Stop
  <2>2. stage' = "regions" => Splits'
    BY <1>1, <1>9, <2>1, SplitsClaimed
  <2>3. DOMAIN claimed' = DOMAIN claimed
    BY <1>9 DEF Claim
  <2>. QED BY <2>1, <2>2, <2>3, <1>1, <1>3 DEF Splitting
<1>10. CASE NextInitial
  <2>1. Splits' /\ stage' = "regions" /\ UNCHANGED claimed
    BY <1>1, <1>10, SplitsNext DEF NextInitial
  <2>. QED BY <2>1, <1>1, <1>3 DEF Splitting
<1>11. CASE SplitDone
  <2>1. Splits /\ stage' \in {"regions", "done"} /\ UNCHANGED claimed
    BY <1>1, <1>11 DEF SplitDone, Stop, split
  <2>2. stage' = "regions" => Splits'
    BY <1>1, <1>11, <2>1, SplitsOn
  <2>. QED BY <2>1, <2>2, <1>1, <1>3 DEF Splitting
<1>12. CASE UNCHANGED vars
  <2>1. UNCHANGED <<tables, stage, jobs, index, frontier, claimed, found>>
    BY <1>12 DEF vars, split
  <2>2. Job' = Job /\ (\A k : Class(k)' = Class(k) /\ Open(k)' = Open(k)) /\ Rows(Job)' = Rows(Job)
    BY <2>1 DEF Job, Class, Open, Rows
  <2>3. \A k : Grown(k)' <=> Grown(k)
    BY <2>2 DEF Grown
  <2>4. Splits' <=> Splits
    BY <2>1, <2>2, <2>3 DEF Splits, Rows
  <2>. QED BY <2>1, <2>4 DEF Splitting
<1>. QED BY <1>6, <1>7, <1>8, <1>9, <1>10, <1>11, <1>12 DEF Next

\* Every step keeps the verdict on the regions right.
LEMMA ComponentsInductive ==
    Started /\ Splitting /\ RegionsAreComponents /\ [Next]_vars => RegionsAreComponents'
<1>. SUFFICES ASSUME Started, Splitting, RegionsAreComponents, [Next]_vars PROVE RegionsAreComponents'
  OBVIOUS
<1>1. /\ tables \in Blocks /\ (stage # "done" => fault = "none")
      /\ stage = "regions" => Splits
      /\ \A n \in found : Separate(n) /\ Covered(n)
  BY DEF Started, Splitting, RegionsAreComponents
<1>2. UNCHANGED tables
  BY DEF Next, vars, Choose, Visit, Walked, Claim, NextInitial, SplitDone
<1>3. \A n : (Separate(n)' <=> Separate(n)) /\ (Covered(n)' <=> Covered(n))
  BY <1>2, TablesStay
\* A step that finds no fault, and keeps what was found or adds a table that
\* is split as it should be.
<1>4. ASSUME fault' \notin {"overlap", "unconnected"},
             \A n \in found' : n \in found \/ (Separate(n) /\ Covered(n))
      PROVE  RegionsAreComponents'
  BY <1>1, <1>3, <1>4 DEF RegionsAreComponents
<1>5. CASE Choose \/ Visit \/ Walked \/ NextInitial
  <2>1. fault' \in {"none", "table", "owner"} /\ UNCHANGED found
    BY <1>1, <1>5 DEF Choose, Visit, Walked, NextInitial, StartRegions, Stop, split
  <2>. QED BY <2>1, <1>4
<1>6. CASE Claim
  <2>. DEFINE s == Head(frontier)
  <2>1. Splits /\ frontier # << >> /\ fault = "none" /\ UNCHANGED <<tables, jobs, index, found>>
    BY <1>1, <1>6 DEF Claim
  <2>2. CASE Holder(s) \notin {None, index}
    <3>1. fault' = "overlap"
      BY <2>2, <1>6 DEF Claim, Stop
    <3>2. PICK k : k = claimed[Job][s] /\ s \in DOMAIN claimed[Job] /\ k # index
      BY <2>2 DEF Holder
    <3>3. Job \in Names(tables)
      BY <2>1 DEF Splits, Job
    <3>4. /\ k \in 1..index /\ s \in Region(Rows(Job), k) /\ s \in Region(Rows(Job), index)
          /\ index \in DOMAIN Initials(Rows(Job))
      BY <2>1, <3>2 DEF Splits
    <3>5. k \in DOMAIN Initials(Rows(Job))
      <4>1. Initials(Rows(Job)) \in Seq(States(Rows(Job)))
        BY <1>1, <3>3, RowsHere
      <4>. QED BY <4>1, <3>4
    <3>6. ~Separate(Job)
      BY <3>2, <3>4, <3>5 DEF Separate
    <3>8. ~Separate(Job)'
      <4>1. Job' = Job
        BY <2>1 DEF Job
      <4>2. Separate(Job)' <=> Separate(Job)
        BY <4>1, <2>1 DEF Separate, Rows
      <4>. QED BY <4>2, <3>6
    <3>. QED BY <3>1, <3>8, <2>1, <1>1, <1>3 DEF RegionsAreComponents
  <2>3. CASE Holder(s) \in {None, index}
    <3>1. fault' = "none"
      BY <2>1, <2>3, <1>6 DEF Claim
    <3>. QED BY <3>1, <2>1, <1>4
  <2>. QED BY <2>2, <2>3
<1>7. CASE SplitDone
  <2>1. /\ Splits /\ frontier = << >> /\ index = Len(Initials(Rows(Job))) /\ fault = "none"
    BY <1>1, <1>7 DEF SplitDone
  <2>2. Separate(Job) /\ (Covered(Job) <=> Loose = {})
    BY <1>1, <2>1, NoneAssumption, Parted
  <2>3. CASE Loose = {}
    <3>1. fault' = "none" /\ found' = found \union {Job}
      BY <2>1, <2>3, <1>7 DEF SplitDone
    <3>. QED BY <3>1, <2>2, <2>3, <1>4
  <2>4. CASE Loose # {}
    <3>1. fault' = "unconnected" /\ UNCHANGED <<tables, jobs, found>>
      BY <2>4, <1>7 DEF SplitDone, Stop, split
    <3>2. Job' = Job
      BY <3>1 DEF Job
    <3>3. (Separate(Job)' <=> Separate(Job)) /\ (Covered(Job)' <=> Covered(Job))
      BY <3>1, <3>2 DEF Separate, Covered, Rows
    <3>. QED BY <3>1, <3>3, <2>2, <2>4, <1>1, <1>3 DEF RegionsAreComponents
  <2>. QED BY <2>3, <2>4
<1>8. CASE UNCHANGED vars
  <2>1. UNCHANGED <<tables, fault, jobs, found>> /\ Job' = Job
    BY <1>8 DEF vars, split, Job
  <2>2. (Separate(Job)' <=> Separate(Job)) /\ (Covered(Job)' <=> Covered(Job))
    BY <2>1 DEF Separate, Covered, Rows
  <2>. QED BY <2>1, <2>2, <1>1, <1>3 DEF RegionsAreComponents
<1>. QED BY <1>5, <1>6, <1>7, <1>8 DEF Next

\* discover_regions: whatever the rows of a table are, it passes a table whose
\* initial states lie in different connected components that leave no state
\* out, and otherwise stops with the fault that the table has.
THEOREM RegionsAreTheComponents == Spec => []RegionsAreComponents
<1>1. Init => Splitting
  BY DEF Init, Splitting
<1>2. Init => RegionsAreComponents
  BY DEF Init, RegionsAreComponents
<1>. QED
  BY <1>1, <1>2, AlwaysWalking, SplittingInductive, ComponentsInductive, PTL DEF Spec

\* The tables with several initial states are split or still to be split, and
\* what a table was split into stays.
Parts(n, k) == {s \in DOMAIN claimed[n] : claimed[n][s] = k}

Handing ==
    /\ found \subseteq Names(tables)
    /\ \A n \in found : \A k \in DOMAIN Initials(Rows(n)) : Parts(n, k) = Region(Rows(n), k)
    /\ \A n \in found : Orthogonal(Rows(n))
    /\ stage = "regions" =>
         /\ \A i \in DOMAIN jobs : jobs[i] \notin found
         /\ \A n \in Expanded : Orthogonal(Rows(n)) => n \in found \/ n \in Range(jobs)
    /\ Accepted => \A n \in Expanded : Orthogonal(Rows(n)) => n \in found

\* The tables met change with the walk only.
LEMMA ExpandedStays ==
    ASSUME UNCHANGED <<tables, references>>
    PROVE  Expanded' = Expanded /\ \A n : Rows(n)' = Rows(n)
BY DEF Expanded, Visited, root, Rows

\* Every step keeps what is handed on right.
LEMMA HandingInductive == Started /\ Walking /\ Splitting /\ Handing /\ [Next]_vars => Handing'
<1>. SUFFICES ASSUME Started, Walking, Splitting, Handing, [Next]_vars PROVE Handing'
  OBVIOUS
<1>1. /\ tables \in Blocks /\ (stage # "done" => fault = "none")
      /\ stage \in {"choose", "walk"} => found = {}
      /\ stage = "regions" => Splits
      /\ DOMAIN claimed = Names(tables)
  BY DEF Started, Splitting
<1>2. UNCHANGED tables
  BY DEF Next, vars, Choose, Visit, Walked, Claim, NextInitial, SplitDone
<1>3. \A n : Rows(n)' = Rows(n)
  BY <1>2, TablesStay
\* What a step leaves alone.
<1>4. ASSUME UNCHANGED found, \A n \in found : claimed'[n] = claimed[n]
      PROVE  /\ found' \subseteq Names(tables)'
             /\ \A n \in found' : \A k \in DOMAIN Initials(Rows(n)') : Parts(n, k)' = Region(Rows(n)', k)
             /\ \A n \in found' : Orthogonal(Rows(n)')
  <2>1. Names(tables)' = Names(tables)
    BY <1>2
  <2>2. \A n \in found : \A k : Parts(n, k)' = Parts(n, k)
    BY <1>4 DEF Parts
  <2>. QED BY <2>1, <2>2, <1>3, <1>4 DEF Handing
\* A step that hands over the tables met.
<1>5. ASSUME stage \in {"choose", "walk"}, NEW names, names \in Seq(Range(names)), StartRegions(names),
             Range(names) = Expanded, UNCHANGED references
      PROVE  Handing'
  <2>. DEFINE places == {i \in DOMAIN names : Orthogonal(Rows(names[i]))}
              several == Those(names, places)
  <2>1. /\ jobs' = several /\ found' = {}
        /\ stage' = IF several = << >> THEN "done" ELSE "regions"
    BY <1>1, <1>5 DEF StartRegions
  <2>2. Selects(several, names, places)
    <3>1. places \in SUBSET (1..Len(names)) /\ Len(names) \in Nat
      BY <1>5
    <3>. HIDE DEF places
    <3>. QED BY <3>1, ThoseAre
  <2>3. \A n \in Expanded : Orthogonal(Rows(n)) => \E i \in places : names[i] = n
    BY <1>5 DEF Range
  <2>. HIDE DEF places, several
  <2>4. \A i \in places : \E k \in DOMAIN several : several[k] = names[i]
    BY <2>2 DEF Selects
  <2>5. \A n \in Expanded : Orthogonal(Rows(n)) => n \in Range(several)
    BY <2>3, <2>4 DEF Range
  <2>6. Expanded' = Expanded
    BY <1>2, <1>5, ExpandedStays
  <2>7. several = << >> => Range(several) = {}
    BY DEF Range
  <2>. QED BY <2>1, <2>5, <2>6, <2>7, <1>3 DEF Handing, Accepted
<1>6. ASSUME stage \in {"choose", "walk"}, stage' \in {"walk", "done"}, UNCHANGED found, ~Accepted'
      PROVE  Handing'
  BY <1>1, <1>6 DEF Handing
<1>7. CASE Choose
  <2>1. references = << >> /\ stage = "choose"
    BY <1>7 DEF Started, Choose
  <2>2. CASE References(tables, root) = << >>
    <3>1. CASE stage' = "done" /\ fault' = "table" /\ UNCHANGED found
      BY <3>1, <1>6, <2>1 DEF Accepted
    <3>2. CASE StartRegions(<<root>>) /\ UNCHANGED walk
      <4>1. <<root>> \in Seq(Range(<<root>>)) /\ Range(<<root>>) = Expanded
        BY <2>1 DEF Expanded, Visited, Range
      <4>. QED BY <4>1, <3>2, <2>1, <1>5 DEF walk
    <3>. QED BY <1>7, <2>2, <3>1, <3>2 DEF Choose, Stop, split
  <2>3. CASE References(tables, root) # << >> /\ SingleChild(tables)
    <3>1. references' = References(tables, root) /\ UNCHANGED found /\ stage' = "done"
      BY <1>7, <2>3 DEF Choose, Stop, split
    <3>2. PICK c : c = References(tables, root)[1]
      OBVIOUS
    <3>3. /\ Len(References(tables, root)) = 1
          /\ ~Orthogonal(Rows(c)) /\ ~Orthogonal(Rows(root))
      BY <2>3, <3>2 DEF SingleChild, root, Rows
    <3>4. References(tables, root) \in Seq(Names(tables))
      BY <1>1, RootIsHere, KidsAre
    <3>5. references' = <<c>>
      BY <3>1, <3>2, <3>3, <3>4
    <3>6. root' = root
      BY <1>2 DEF root
    <3>7. \A n \in Expanded' : n = c \/ n = root
      BY <3>5, <3>6 DEF Expanded, Visited, Range
    <3>8. found' = {}
      BY <3>1, <2>1, <1>1
    <3>9. \A n \in Expanded' : ~Orthogonal(Rows(n)')
      <4>1. \A n : Rows(n)' = Rows(n)
        BY <1>3
      <4>. QED BY <3>3, <3>7, <4>1
    <3>. QED BY <3>1, <3>8, <3>9 DEF Handing
  <2>4. CASE References(tables, root) # << >> /\ ~SingleChild(tables)
    <3>1. stage' = "walk" /\ UNCHANGED found
      BY <1>7, <2>4 DEF Choose, split
    <3>. QED BY <3>1, <2>1, <1>6 DEF Accepted
  <2>. QED BY <2>2, <2>3, <2>4
<1>8. CASE Visit
  <2>1. stage = "walk" /\ stage' \in {"walk", "done"} /\ UNCHANGED found /\ (stage' = "done" => fault' # "none")
    BY <1>8 DEF Visit, Stop, split
  <2>. QED BY <2>1, <1>6 DEF Accepted
<1>9. CASE Walked
  <2>1. /\ stage = "walk" /\ StartRegions(<<root>> \o references) /\ UNCHANGED references
        /\ references \in Seq(Names(tables)) /\ root \in Names(tables)
    BY <1>1, <1>9, RootIsHere DEF Walked, Walking, walk
  <2>2. <<root>> \in Seq(Names(tables)) /\ Range(<<root>>) = {root}
    BY <2>1 DEF Range
  <2>3. PICK names : names = <<root>> \o references
    OBVIOUS
  <2>4. names \in Seq(Names(tables)) /\ Range(names) = {root} \union Visited
    <3>1. PICK first, rest, all : first = <<root>> /\ rest = references /\ all = Names(tables)
      OBVIOUS
    <3>2. first \in Seq(all) /\ rest \in Seq(all)
      BY <2>1, <2>2, <3>1
    <3>3. first \o rest \in Seq(all) /\ Range(first \o rest) = Range(first) \union Range(rest)
      BY <3>2, ConcatProperties, RangeConcatenation
    <3>. QED BY <2>2, <2>3, <3>1, <3>3 DEF Visited
  <2>5. names \in Seq(Range(names)) /\ Range(names) = Expanded
    BY <2>4, SeqOfRange DEF Expanded
  <2>. QED BY <2>1, <2>3, <2>5, <1>5
<1>10. CASE Claim \/ NextInitial
  <2>1. /\ stage = "regions" /\ UNCHANGED <<references, jobs, found>>
        /\ stage' = "regions" \/ ~Accepted'
    BY <1>1, <1>10 DEF Claim, NextInitial, Stop, walk, Accepted
  <2>2. \A n \in found : claimed'[n] = claimed[n]
    <3>1. Job \notin found
      BY <1>1, <2>1 DEF Handing, Splits, Job
    <3>2. claimed' = claimed \/ \E f : claimed' = [claimed EXCEPT ![Job] = f]
      BY <1>10 DEF Claim, NextInitial
    <3>3. found \subseteq DOMAIN claimed
      BY <1>1 DEF Handing
    <3>4. SUFFICES ASSUME NEW n \in found, NEW f, claimed' = [claimed EXCEPT ![Job] = f]
                   PROVE  claimed'[n] = claimed[n]
      BY <3>2
    <3>. QED BY <3>1, <3>3, <3>4
  <2>3. Expanded' = Expanded
    BY <2>1, <1>2, ExpandedStays
  <2>. QED BY <2>1, <2>2, <2>3, <1>3, <1>4 DEF Handing, Accepted
<1>11. CASE SplitDone
  <2>1. /\ stage = "regions" /\ Splits /\ frontier = << >> /\ index = Len(Initials(Rows(Job)))
        /\ fault = "none" /\ UNCHANGED <<references, claimed>>
    BY <1>1, <1>11 DEF SplitDone, Stop, split, walk
  <2>2. CASE Loose # {}
    <3>1. UNCHANGED <<jobs, found>> /\ stage' = "done" /\ ~Accepted'
      BY <2>2, <1>11 DEF SplitDone, Stop, split, Accepted
    <3>. QED BY <3>1, <2>1, <1>4, <1>3 DEF Handing
  <2>3. CASE Loose = {}
    <3>1. /\ jobs' = Tail(jobs) /\ found' = found \union {Job}
          /\ stage' = IF Tail(jobs) = << >> THEN "done" ELSE "regions"
      BY <2>3, <1>11 DEF SplitDone
    <3>2. /\ jobs \in Seq(Names(tables)) /\ jobs # << >> /\ Plain(jobs)
          /\ \A i \in DOMAIN jobs : Orthogonal(Rows(jobs[i]))
      BY <2>1 DEF Splits
    <3>3. /\ 1 \in DOMAIN jobs /\ Job = jobs[1] /\ Job \in Names(tables)
          /\ \A i \in DOMAIN Tail(jobs) : i \in Nat \ {0} /\ i + 1 \in DOMAIN jobs /\ Tail(jobs)[i] = jobs[i + 1]
          /\ \A i \in DOMAIN jobs : i # 1 => i - 1 \in DOMAIN Tail(jobs) /\ Tail(jobs)[i - 1] = jobs[i]
      BY <3>2 DEF Job
    <3>4. \A k \in DOMAIN Initials(Rows(Job)) : Parts(Job, k) = Region(Rows(Job), k)
      <4>1. Initials(Rows(Job)) \in Seq(States(Rows(Job)))
        BY <1>1, <3>3, RowsHere
      <4>2. \A k \in DOMAIN Initials(Rows(Job)) : k \in 1..index
        BY <4>1, <2>1
      <4>3. \A k \in 1..index : Class(k) = Region(Rows(Job), k)
        BY <1>1, <2>1, ClassIsRegion
      <4>. QED BY <4>2, <4>3 DEF Class, Parts
    <3>5. \A i \in DOMAIN Tail(jobs) : Tail(jobs)[i] \notin found'
      <4>1. SUFFICES ASSUME NEW i \in DOMAIN Tail(jobs) PROVE jobs[i + 1] \notin found \union {Job}
        BY <3>1, <3>3
      <4>2. jobs[i + 1] # Job
        BY <3>2, <3>3 DEF Plain
      <4>. QED BY <4>2, <3>3, <2>1 DEF Handing
    <3>6. \A n \in Expanded : Orthogonal(Rows(n)) => n \in found' \/ n \in Range(Tail(jobs))
      <4>1. \A n \in Range(jobs) : n = Job \/ n \in Range(Tail(jobs))
        BY <3>3 DEF Range
      <4>. QED BY <4>1, <3>1, <2>1 DEF Handing
    <3>7. Tail(jobs) = << >> => Range(Tail(jobs)) = {}
      BY DEF Range
    <3>8. Expanded' = Expanded
      BY <2>1, <1>2, ExpandedStays
    <3>9. \A n \in found' : Orthogonal(Rows(n)) /\ \A k \in DOMAIN Initials(Rows(n)) : Parts(n, k) = Region(Rows(n), k)
      BY <3>1, <3>2, <3>3, <3>4 DEF Handing
    <3>10. \A n, k : Parts(n, k)' = Parts(n, k)
      BY <2>1 DEF Parts
    <3>11. found' \subseteq Names(tables)'
      BY <3>1, <3>3, <1>2 DEF Handing
    <3>12. \A n \in found' : Orthogonal(Rows(n)') /\ \A k \in DOMAIN Initials(Rows(n)') : Parts(n, k)' = Region(Rows(n)', k)
      BY <3>9, <3>10, <1>3
    <3>13. Accepted' => \A n \in Expanded' : Orthogonal(Rows(n)') => n \in found'
      <4>1. Accepted' => Range(Tail(jobs)) = {}
        BY <3>1, <3>7 DEF Accepted
      <4>. QED BY <4>1, <3>6, <3>8, <1>3
    <3>14. \A n \in Expanded' : Orthogonal(Rows(n)') => n \in found' \/ n \in Range(jobs')
      BY <3>1, <3>6, <3>8, <1>3
    <3>. QED BY <3>1, <3>5, <3>11, <3>12, <3>13, <3>14 DEF Handing
  <2>. QED BY <2>2, <2>3
<1>12. CASE UNCHANGED vars
  <2>1. UNCHANGED <<stage, fault, references, jobs, found, claimed>>
    BY <1>12 DEF vars, walk, split
  <2>2. Expanded' = Expanded /\ (Accepted' <=> Accepted)
    BY <2>1, <1>2, ExpandedStays DEF Accepted
  <2>. QED BY <2>1, <2>2, <1>3, <1>4 DEF Handing
<1>. QED BY <1>7, <1>8, <1>9, <1>10, <1>11, <1>12 DEF Next

\* generate_multi_code, root_regions and the regions of the nested tables: of
\* an accepted block each table with several initial states goes on with the
\* connected components of its rows, each other table with all its states.
THEOREM RegionsGoOn == Spec => [](Accepted => \A n \in Expanded : Found.regions[n] = Regions(Rows(n)))
<1>1. Init => Splitting /\ Handing
  BY DEF Init, Splitting, Handing, Accepted
<1>2. ASSUME Handing, Accepted, NEW n \in Expanded
      PROVE  Found.regions[n] = Regions(Rows(n))
  <2>1. Found.regions[n] = IF n \in found
                           THEN [k \in DOMAIN Initials(Rows(n)) |-> Parts(n, k)]
                           ELSE <<States(Rows(n))>>
    BY <1>2 DEF Found, Expanded, Visited, Parts
  <2>2. n \in found <=> Orthogonal(Rows(n))
    BY <1>2 DEF Handing
  <2>3. n \in found => [k \in DOMAIN Initials(Rows(n)) |-> Parts(n, k)]
                         = [k \in DOMAIN Initials(Rows(n)) |-> Region(Rows(n), k)]
    BY <1>2 DEF Handing
  <2>. QED BY <2>1, <2>2, <2>3 DEF Regions
<1>3. Handing => (Accepted => \A n \in Expanded : Found.regions[n] = Regions(Rows(n)))
  BY <1>2
<1>. QED BY <1>1, <1>3, AlwaysWalking, SplittingInductive, HandingInductive, PTL DEF Spec
=============================================================================
