------------------------------ MODULE TreeShape ------------------------------
(***************************************************************************)
(* The structure that macros/src/composite_codegen.rs and                  *)
(* orthogonal_codegen.rs derive from the tables of one `sml!` block before *)
(* they generate any code: which table is the root, which tables are       *)
(* nested in which state, the regions of a table with several initial      *)
(* states, and the order in which the generated code visits them.          *)
(*                                                                         *)
(* T is a sequence of tables [name, rows].  A state that bears the name of *)
(* a table is a composite state, `state<Sub>`.  A site is a region of a    *)
(* table of the tree: one slot that holds a current state.                 *)
(***************************************************************************)
EXTENDS Sequences, SequencesExt, FiniteSetsExt, Selections

CONSTANT X          \* the terminal state

Distinct(seq) ==
    FoldLeft(LAMBDA seen, s : IF Contains(seen, s) THEN seen ELSE Append(seen, s),
             << >>, seq)

\* Applies a step n times.
Repeat(Step(_), n, start) ==
    FoldLeft(LAMBDA value, i : Step(value), start, [i \in 1..n |-> i])

\* What a node reaches along the edges of a graph: what is in every set that
\* has the node and that no edge leaves.
Closed(graph, S) == \A e \in graph.edge : e[1] \in S => e[2] \in S
Reached(graph, s) ==
    {t \in graph.node : \A S \in SUBSET graph.node : s \in S /\ Closed(graph, S) => t \in S}

\* f itself, with its values computed once.
Listed(f) == f @@ << >>

-----------------------------------------------------------------------------
(* One table.                                                              *)

Initials(rows) ==
    LET starts == Those(rows, {i \in DOMAIN rows : rows[i].start})
    IN  [k \in DOMAIN starts |-> starts[k].from]

Orthogonal(rows) == Len(Initials(rows)) > 1

HasHistory(rows) == \E i \in DOMAIN rows : rows[i].history

States(rows) == UNION {{rows[i].from, rows[i].to} : i \in DOMAIN rows}

\* Two states belong together when a row leads from one to the other; X is
\* common to all regions and connects none.
Adjacent(rows) ==
    [node |-> States(rows),
     edge |-> UNION {{<<rows[i].from, rows[i].to>>, <<rows[i].to, rows[i].from>>} :
                     i \in {j \in DOMAIN rows : ~rows[j].internal /\ rows[j].to # X}}]

\* The states of region k: what is connected to its initial state.
Region(rows, k) == Reached(Adjacent(rows), Initials(rows)[k])

\* validate and validate_supported: an initial state, and no completion row
\* that stays where it is.
Valid(rows) ==
    /\ Initials(rows) # << >>
    /\ \A i \in DOMAIN rows : rows[i].kind = "completion" => ~rows[i].internal

-----------------------------------------------------------------------------
(* The tables of one block.                                                *)

Names(T) == {T[i].name : i \in DOMAIN T}

RowsOf(T, n) == T[CHOOSE i \in DOMAIN T : T[i].name = n].rows

\* The states that rows mention, in their order.
Mentioned(rows) ==
    [k \in 1..(2 * Len(rows)) |->
        IF k % 2 = 1 THEN rows[(k + 1) \div 2].from ELSE rows[k \div 2].to]

\* The composite states a table mentions, each where it is met first.
References(T, n) ==
    LET names == Mentioned(RowsOf(T, n))
    IN  Those(names, {k \in DOMAIN names :
                         names[k] \in Names(T) /\ \A j \in 1..(k - 1) : names[j] # names[k]})

\* The first table that owns others and is owned by none, or else the first
\* that owns others.  A block of one table is that table.
RootIndex(T) ==
    LET owners == {i \in DOMAIN T : References(T, T[i].name) # << >>}
        free   == {i \in owners :
                     \A j \in DOMAIN T : ~Contains(References(T, T[j].name), T[i].name)}
    IN  CASE free # {}   -> Min(free)
          [] owners # {} -> Min(owners)
          [] OTHER       -> 1

Root(T) == T[RootIndex(T)].name

\* A scalar root with one scalar child that owns no table has a generator of
\* its own.
SingleChild(T) ==
    LET children == References(T, Root(T))
    IN  /\ Len(children) = 1
        /\ References(T, children[1]) = << >>
        /\ ~Orthogonal(RowsOf(T, children[1]))
        /\ ~Orthogonal(RowsOf(T, Root(T)))

\* The nested tables in the order the generator meets them, breadth first.
Nested(T) ==
    Repeat(LAMBDA met : Distinct(met \o FlattenSeq([i \in DOMAIN met |-> References(T, met[i])])),
           Len(T), References(T, Root(T)))

-----------------------------------------------------------------------------
(* The tree: root, tables, references (the nested tables in the order they *)
(* are met), parents, depths and the regions of each table.                *)

Owner(T, n) ==
    CHOOSE p \in Range(Nested(T)) \union {Root(T)} : Contains(References(T, p), n)

DepthOf(T, n) ==
    Cardinality(Repeat(LAMBDA up : up \union {Owner(T, m) : m \in up \ {Root(T)}}, Len(T), {n})) - 1

Regions(rows) ==
    IF Orthogonal(rows) THEN [k \in DOMAIN Initials(rows) |-> Region(rows, k)]
                        ELSE <<States(rows)>>

TreeOf(T) ==
    LET nested == Nested(T)
        all    == Range(nested) \union {Root(T)}
    IN  [root       |-> Root(T),
         rows       |-> Listed([n \in all |-> RowsOf(T, n)]),
         references |-> nested,
         parents    |-> Listed([n \in Range(nested) |-> Owner(T, n)]),
         depths     |-> Listed([n \in Range(nested) |-> DepthOf(T, n)]),
         regions    |-> Listed([n \in all |-> Listed(Regions(RowsOf(T, n)))])]

\* The nodes from n up to the root, n first.
Lineage(t, n) ==
    Repeat(LAMBDA up : IF Last(up) = t.root THEN up ELSE Append(up, t.parents[Last(up)]),
           Len(t.references), <<n>>)

\* tree_is_descendant.
IsNestedIn(t, n, a) == n # a /\ Contains(Lineage(t, n), a)

\* The region of a table that holds state s.
RegionOf(t, n, s) == CHOOSE k \in DOMAIN t.regions[n] : s \in t.regions[n][k]

\* tree_descendant_region, tree_root_region: the region of the owner in which
\* n is nested.
DescendantRegion(t, n, owner) ==
    LET up == Lineage(t, n)
    IN  RegionOf(t, owner, up[(CHOOSE i \in DOMAIN up : up[i] = owner) - 1])

\* TreeSettleSites::number: the sites of each nested table in the order the
\* tables are met, the root's last.
Sites(t) ==
    LET own(n) == [k \in DOMAIN t.regions[n] |-> <<n, k>>]
        order  == Append(t.references, t.root)
    IN  FlattenSeq([i \in DOMAIN order |-> own(order[i])])

SitesOf(t, n) == LET sites == Sites(t) IN {s \in DOMAIN sites : sites[s][1] = n}

\* TreeSettleSites::subtree.
Subtree(t, n) ==
    LET sites == Sites(t)
    IN  {s \in DOMAIN sites : sites[s][1] = n \/ IsNestedIn(t, sites[s][1], n)}

\* Slip: whatever is nested in the table.
NestedInTable(t, s) ==
    LET sites == Sites(t)
    IN  {u \in DOMAIN sites : IsNestedIn(t, sites[u][1], sites[s][1])}

\* The sites of the nodes nested in the region of a site.
NestedSites(t, s) ==
    LET sites == Sites(t)
    IN  {u \in DOMAIN sites :
            /\ IsNestedIn(t, sites[u][1], sites[s][1])
            /\ DescendantRegion(t, sites[u][1], sites[s][1]) = sites[s][2]}

\* TreeSettleSites::region_paths.
RegionPath(t, s) == {s} \union NestedSites(t, s)

\* The site that holds n as its composite state while n is active.
HolderOf(t, n) ==
    LET sites == Sites(t)
        owner == t.parents[n]
    IN  CHOOSE s \in DOMAIN sites : sites[s] = <<owner, RegionOf(t, owner, n)>>

\* tree_active_condition: the sites above a node, each with the composite
\* state it must hold for the node to be active.
Path(t, n) == {<<HolderOf(t, m), m>> : m \in Range(Lineage(t, n)) \ {t.root}}

-----------------------------------------------------------------------------
(* The order of the generated code.                                        *)

DepthIn(t, n) == IF n = t.root THEN 0 ELSE t.depths[n]

\* Slip: the tables of the tree in the order they were met.
AsMet(t) == [s \in DOMAIN Sites(t) |-> s]

\* The sites of the nested tables, deepest first and otherwise as met, then
\* those of the root: the order of completions and of exception rows.
DeepestFirst(t) ==
    LET sites == Sites(t)
        level(d) == SelectSeq([s \in DOMAIN sites |-> s],
                              LAMBDA s : DepthIn(t, sites[s][1]) = d)
        levels == Len(t.references) + 1
    IN  FlattenSeq([i \in 1..levels |-> level(levels - i)])

\* An event goes to each region of an orthogonal root in turn, and in a region
\* to the nodes nested in it first.
EventOrder(t) ==
    LET order == DeepestFirst(t)
        visit(s) == Append(SelectSeq(order, LAMBDA u : u \in NestedSites(t, s)), s)
        regions == SetToSortSeq(SitesOf(t, t.root), <)
    IN  FlattenSeq([k \in DOMAIN regions |-> visit(regions[k])])

\* The sites above s from the root's down, then s.
Chain(t, s) ==
    LET up == Front(Lineage(t, Sites(t)[s][1]))
    IN  Append(Reverse([i \in DOMAIN up |-> HolderOf(t, up[i])]), s)

\* One chain branches off before the other.
Branches(c, d) ==
    \E i \in DOMAIN c \cap DOMAIN d :
        c[i] < d[i] /\ \A j \in 1..(i - 1) : c[j] = d[j]

\* Exits run from the inside out: a region after what is nested in it.
ExitOrder(t) ==
    LET chain == Listed([s \in DOMAIN Sites(t) |-> Chain(t, s)])
    IN  SortSeq([s \in DOMAIN chain |-> s], LAMBDA s, u :
            IsStrictPrefix(chain[u], chain[s]) \/ Branches(chain[s], chain[u]))

\* Entries run from the outside in.
EntryOrder(t) ==
    LET chain == Listed([s \in DOMAIN Sites(t) |-> Chain(t, s)])
    IN  SortSeq([s \in DOMAIN chain |-> s], LAMBDA s, u :
            IsStrictPrefix(chain[s], chain[u]) \/ Branches(chain[s], chain[u]))

HasHandlers(t) ==
    \E n \in DOMAIN t.rows : \E i \in DOMAIN t.rows[n] : t.rows[n][i].kind = "exception"

\* Recovery settles single sites where some table of the tree is orthogonal.
TracksSites(t) == HasHandlers(t) /\ \E n \in DOMAIN t.rows : Orthogonal(t.rows[n])

Rank(order) == Listed([s \in DOMAIN order |-> CHOOSE i \in DOMAIN order : order[i] = s])

\* All of it, as TreeMachine uses it, and whether the policy lets tests set
\* the states.
Layout(t, testing) ==
    LET sites == Sites(t)
        node  == DOMAIN t.rows
    IN  [root     |-> t.root,
         testing  |-> testing,
         single   |-> Cardinality(node) = 2 /\ \A n \in node : ~Orthogonal(t.rows[n]),
         rows     |-> t.rows,
         orthogonal |-> {n \in node : Orthogonal(t.rows[n])},
         history  |-> {n \in node : HasHistory(t.rows[n]) /\ ~Orthogonal(t.rows[n])},
         node     |-> Listed([s \in DOMAIN sites |-> sites[s][1]]),
         initial  |-> Listed([s \in DOMAIN sites |-> Initials(t.rows[sites[s][1]])[sites[s][2]]]),
         states   |-> Listed([s \in DOMAIN sites |-> t.regions[sites[s][1]][sites[s][2]] \union {X}]),
         path     |-> Listed([n \in node |-> Path(t, n)]),
         nested   |-> Listed([s \in DOMAIN sites |-> NestedSites(t, s)]),
         subtree  |-> Listed([n \in node |-> Subtree(t, n)]),
         events   |-> EventOrder(t),
         others   |-> DeepestFirst(t),
         exits    |-> Rank(ExitOrder(t)),
         entries  |-> Rank(EntryOrder(t)),
         handlers |-> HasHandlers(t),
         tracks   |-> TracksSites(t)]
=============================================================================
