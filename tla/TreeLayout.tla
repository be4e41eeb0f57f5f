------------------------------ MODULE TreeLayout ------------------------------
(***************************************************************************)
(* The generator reads the tables of a block (composite_codegen.rs,        *)
(* generate_code and generate_multi_code; orthogonal_codegen.rs,           *)
(* discover_regions): it picks the root, walks the nested tables breadth   *)
(* first, refuses what is no tree, and splits tables with several initial  *)
(* states into regions, one state at a time.                               *)
(***************************************************************************)
EXTENDS TreeShape, TreeFacts

CONSTANTS Blocks,       \* the blocks considered: sequences of tables
          None          \* no region

\* A block is a sequence of tables, each a sequence of rows.
ASSUME BlocksAssumption ==
    \A T \in Blocks :
        /\ T \in Seq(Range(T)) /\ T # << >>
        /\ \A i \in DOMAIN T : T[i].rows \in Seq(Range(T[i].rows))

ASSUME NoneAssumption == None \notin Nat

VARIABLES
    tables,             \* the block
    stage,              \* choose, walk, regions, done
    fault,              \* why the block is refused
    queue,              \* nested tables still to visit: name, parent, depth
    references,         \* all_child_references: the tables visited
    parents, depths,    \* node_parents, node_depths
    jobs,               \* tables still to be split into regions
    index,              \* the initial state whose region is being collected
    frontier,           \* states of that region still to be looked at
    claimed,            \* per table and state, the region that has it
    found               \* tables split so far

walk == <<queue, references, parents, depths>>
split == <<jobs, index, frontier, claimed, found>>
vars == <<tables, stage, fault, walk, split>>

Init ==
    /\ tables \in Blocks
    /\ stage = "choose" /\ fault = "none"
    /\ queue = << >> /\ references = << >>
    /\ parents = << >> /\ depths = << >>
    /\ jobs = << >> /\ index = 1 /\ frontier = << >>
    /\ claimed = [n \in Names(tables) |-> [s \in {} |-> 0]]
    /\ found = {}

root == Root(tables)
Rows(n) == RowsOf(tables, n)

Stop(why) == stage' = "done" /\ fault' = why

\* Hands over to discover_regions, for each table with several initial states.
StartRegions(names) ==
    LET several == Those(names, {i \in DOMAIN names : Orthogonal(Rows(names[i]))})
    IN  /\ stage' = IF several = << >> THEN "done" ELSE "regions"
        /\ jobs' = several
        /\ frontier' = IF several = << >> THEN << >> ELSE <<Initials(Rows(several[1]))[1]>>
        /\ UNCHANGED <<index, claimed, found>>

\* generate_code: one table alone, a root with one plain child, or a tree.
Choose ==
    /\ stage = "choose"
    /\ LET children == References(tables, root)
       IN  \/ /\ children = << >>
              /\ ~Valid(Rows(root)) /\ Stop("table")
              /\ UNCHANGED <<walk, split>>
           \/ /\ children = << >>
              /\ Valid(Rows(root)) /\ StartRegions(<<root>>)
              /\ UNCHANGED <<fault, walk>>
           \/ /\ children # << >> /\ SingleChild(tables)
              /\ \/ ~(Valid(Rows(root)) /\ Valid(Rows(children[1]))) /\ Stop("table")
                 \/ Valid(Rows(root)) /\ Valid(Rows(children[1])) /\ Stop("none")
              /\ references' = children
              /\ parents' = With(<< >>, children[1], root)
              /\ depths' = With(<< >>, children[1], 1)
              /\ UNCHANGED <<queue, split>>
           \/ /\ children # << >> /\ ~SingleChild(tables)
              /\ stage' = "walk"
              /\ queue' = [i \in DOMAIN children |-> <<children[i], root, 1>>]
              /\ UNCHANGED <<fault, references, parents, depths, split>>
    /\ UNCHANGED tables

\* Slip: a table that was met before is visited again.
VisitAgain ==
    /\ stage = "walk" /\ queue # << >>
    /\ LET name == Head(queue)[1]
       IN  /\ queue' = Tail(queue)
           /\ references' = IF Contains(references, name) THEN references
                                                          ELSE Append(references, name)
           /\ parents' = With(parents, name, Head(queue)[2])
           /\ depths' = With(depths, name, Head(queue)[3])
    /\ UNCHANGED <<tables, stage, fault, split>>

\* The tables nested in the one just visited.  (A slip first: as deep as it.)
BelowFlat(name, depth) ==
    LET direct == References(tables, name)
    IN  [i \in DOMAIN direct |-> <<direct[i], name, depth>>]

Below(name, depth) ==
    LET direct == References(tables, name)
    IN  [i \in DOMAIN direct |-> <<direct[i], name, depth + 1>>]

\* One round of the loop of generate_multi_code.
Visit ==
    /\ stage = "walk" /\ queue # << >>
    /\ LET name == Head(queue)[1]
       IN  \/ /\ Contains(references, name)
              /\ Stop("owner")
              /\ UNCHANGED walk
           \/ /\ ~Contains(references, name)
              /\ ~(Valid(Rows(root)) /\ Valid(Rows(name)))
              /\ Stop("table")
              /\ UNCHANGED walk
           \/ /\ ~Contains(references, name)
              /\ Valid(Rows(root)) /\ Valid(Rows(name))
              /\ queue' = Tail(queue) \o Below(name, Head(queue)[3])
              /\ references' = Append(references, name)
              /\ parents' = With(parents, name, Head(queue)[2])
              /\ depths' = With(depths, name, Head(queue)[3])
              /\ UNCHANGED <<stage, fault>>
    /\ UNCHANGED <<tables, split>>

Walked ==
    /\ stage = "walk" /\ queue = << >>
    /\ StartRegions(<<root>> \o references)
    /\ UNCHANGED <<tables, fault, walk>>

-----------------------------------------------------------------------------
(* discover_regions.                                                       *)

Job == Head(jobs)
Holder(s) == IF s \in DOMAIN claimed[Job] THEN claimed[Job][s] ELSE None

\* The states one row away, X left out.
Neighbours(s) == SetToSeq({e[2] : e \in {d \in Adjacent(Rows(Job)).edge : d[1] = s}})

\* Slip: a state of another region is passed over.
ClaimPasses ==
    /\ stage = "regions" /\ frontier # << >>
    /\ LET s == Head(frontier)
       IN  /\ claimed' = [claimed EXCEPT ![Job] = With(@, s, index)]
           /\ frontier' = Tail(frontier) \o (IF Holder(s) = None THEN Neighbours(s) ELSE << >>)
    /\ UNCHANGED <<tables, stage, fault, walk, jobs, index, found>>

\* Pops one state: it is new, known, or another region's.
Claim ==
    /\ stage = "regions" /\ frontier # << >>
    /\ LET s == Head(frontier)
       IN  \/ /\ Holder(s) \notin {None, index}
              /\ Stop("overlap")
              /\ UNCHANGED <<frontier, claimed>>
           \/ /\ Holder(s) = index
              /\ frontier' = Tail(frontier)
              /\ UNCHANGED <<stage, fault, claimed>>
           \/ /\ Holder(s) = None
              /\ claimed' = [claimed EXCEPT ![Job] = With(@, s, index)]
              /\ frontier' = Tail(frontier) \o Neighbours(s)
              /\ UNCHANGED <<stage, fault>>
    /\ UNCHANGED <<tables, walk, jobs, index, found>>

NextInitial ==
    /\ stage = "regions" /\ frontier = << >> /\ index < Len(Initials(Rows(Job)))
    /\ index' = index + 1
    /\ frontier' = <<Initials(Rows(Job))[index + 1]>>
    /\ UNCHANGED <<tables, stage, fault, walk, jobs, claimed, found>>

\* Every state but X must belong to some region.
Loose == {s \in States(Rows(Job)) \ {X} : Holder(s) = None}

SplitDone ==
    /\ stage = "regions" /\ frontier = << >> /\ index = Len(Initials(Rows(Job)))
    /\ IF Loose # {} THEN Stop("unconnected") /\ UNCHANGED split
       ELSE /\ jobs' = Tail(jobs)
            /\ index' = 1
            /\ found' = found \union {Job}
            /\ frontier' = IF Tail(jobs) = << >> THEN << >>
                           ELSE <<Initials(Rows(jobs[2]))[1]>>
            /\ stage' = IF Tail(jobs) = << >> THEN "done" ELSE "regions"
            /\ UNCHANGED <<fault, claimed>>
    /\ UNCHANGED <<tables, walk>>

Next == Choose \/ Visit \/ Walked \/ Claim \/ NextInitial \/ SplitDone

Spec == Init /\ [][Next]_vars

-----------------------------------------------------------------------------
(* Properties.                                                             *)

Accepted == stage = "done" /\ fault = "none"

\* The tree the generator goes on with.
Found ==
    LET all == Range(references) \union {root}
    IN  [root |-> root, rows |-> [n \in all |-> Rows(n)], references |-> references,
         parents |-> parents, depths |-> depths,
         regions |-> [n \in all |->
             IF n \in found
             THEN [k \in DOMAIN Initials(Rows(n)) |->
                      {s \in DOMAIN claimed[n] : claimed[n][s] = k}]
             ELSE <<States(Rows(n))>>]]

\* Who owns whom, as far as the root's table leads.
Ownership ==
    [node |-> Names(tables),
     edge |-> {p \in Names(tables) \X Names(tables) : Contains(References(tables, p[1]), p[2])}]
Owned == {p \in Ownership.edge : p[1] \in Reached(Ownership, root)}

IsForest ==
    /\ \A p \in Owned : p[2] # root
    /\ \A p, q \in Owned : p[2] = q[2] => p = q

\* "a composite table cannot be owned by multiple parents or form a cycle":
\* the walk refuses exactly the blocks whose tables form no tree, wherever in
\* the breadth-first order the second owner comes.
RefusesNoTree ==
    stage = "done" /\ fault # "table" => ((fault = "owner") <=> ~IsForest)

\* What the walk leaves behind is the tree: each table below the root once,
\* with its owner and its distance from the root.
WalkFindsTree ==
    Accepted => Found = TreeOf(tables) /\ Range(references) = {p[2] : p \in Owned}

\* discover_regions, whose claims are the connected components of the rows:
\* it refuses two initial states that are connected and a state that no
\* initial state reaches, and nothing else.
Separate(n) ==
    \A j, k \in DOMAIN Initials(Rows(n)) :
        j # k => Region(Rows(n), j) \cap Region(Rows(n), k) = {}
Covered(n) ==
    States(Rows(n)) \ {X} \subseteq UNION {Region(Rows(n), k) : k \in DOMAIN Initials(Rows(n))}

RegionsAreComponents ==
    /\ \A n \in found : Separate(n) /\ Covered(n)
    /\ fault = "overlap" => ~Separate(Job)
    /\ fault = "unconnected" => Separate(Job) /\ ~Covered(Job)

Before(order, s, t) ==
    \E i, j \in DOMAIN order : i < j /\ order[i] = s /\ order[j] = t

\* "Dispatch is deepest-active-child first": in each of the generated walks a
\* region comes after everything nested in it, in the entry walk before, and
\* no site is left out or visited twice.
InnermostFirst ==
    Accepted =>
        LET t       == Found
            sites   == DOMAIN Sites(t)
            outward == {EventOrder(t), DeepestFirst(t), ExitOrder(t)}
            entries == EntryOrder(t)
        IN  /\ \A order \in outward \union {entries} :
                  Len(order) = Cardinality(sites) /\ Range(order) = sites
            /\ \A s \in sites : \A u \in NestedSites(t, s) :
                  /\ \A order \in outward : Before(order, u, s)
                  /\ Before(entries, s, u)

\* The paths of a table's regions share no site, and together they are its
\* subtree: a moving exception row clears the settled marks of what it left and
\* of nothing else.  With the sites above a table and the ranks of its exits and
\* entries, which nest in the same way, this is all that the proofs about
\* TreeMachine assume of a tree.
LayoutFits == Accepted => WellFormed(Layout(Found, FALSE))
=============================================================================
