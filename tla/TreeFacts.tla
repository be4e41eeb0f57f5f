------------------------------ MODULE TreeFacts ------------------------------
(***************************************************************************)
(* What holds of every layout t of a tree that TreeShape makes: TreeLayout *)
(* checks it for the blocks the generator accepts, TreeMachine relies on   *)
(* it for the trees it runs.                                               *)
(***************************************************************************)
EXTENDS Naturals, Sequences, FiniteSets

\* The parts fit together: walks, paths and subtrees are made of the sites the
\* layout numbers, its sites of the tables it has; no row leads out of a
\* region, and the walk of the completions leaves no site out.
FitsTogether(t) ==
    LET site == DOMAIN t.node
    IN  /\ \A n \in DOMAIN t.rows : t.subtree[n] \subseteq site
        /\ \A s \in site :
             /\ t.node[s] \in DOMAIN t.rows
             /\ t.initial[s] \in t.states[s]
             /\ t.nested[s] \subseteq site
             /\ \A n \in t.states[s] \intersect DOMAIN t.rows : t.subtree[n] \subseteq t.nested[s]
             /\ \A i \in DOMAIN t.rows[t.node[s]] :
                  t.rows[t.node[s]][i].from \in t.states[s] => t.rows[t.node[s]][i].to \in t.states[s]
             /\ \E p \in DOMAIN t.others : t.others[p] = s
        /\ t.events \in Seq(site) /\ t.others \in Seq(site)

\* The regions of a table part its subtree, each with what is nested in it and
\* the sites above that; the dispatch of an event leaves no site out.
RegionsPart(t) ==
    LET site     == DOMAIN t.node
        whole(s) == {s} \union t.nested[s]
    IN  /\ t.root \in DOMAIN t.rows /\ t.subtree[t.root] = site /\ t.path[t.root] = {}
        /\ \A s \in site : \E p \in DOMAIN t.events : t.events[p] = s
        /\ \A n \in DOMAIN t.rows : t.subtree[n] = UNION {whole(s) : s \in {q \in site : t.node[q] = n}}
        /\ \A r \in site : \A s \in whole(r) :
             /\ \A q \in site : t.node[q] = t.node[r] /\ s \in whole(q) => q = r
             /\ t.nested[s] \subseteq t.nested[r]
             /\ \A p \in t.path[t.node[s]] : p \in t.path[t.node[r]] \/ p[1] \in whole(r)
             /\ \A u \in site : s \in t.nested[r] /\ t.node[u] = t.node[s] => u \in t.nested[r]

\* The path of a table holds the sites above it, with the composite states it
\* is nested in; exits run from the inside out, entries from the outside in.
PathsNest(t) ==
    LET site      == DOMAIN t.node
        tables(s) == t.states[s] \intersect DOMAIN t.rows
        path(s)   == t.path[t.node[s]]
    IN  /\ IsFiniteSet(site)
        /\ \A u \in site :
             /\ t.exits[u] \in Nat /\ t.entries[u] \in Nat
             /\ \A p \in path(u) :
                  /\ p[1] \in site /\ p[2] \in tables(p[1]) /\ u \in t.subtree[p[2]]
                  /\ path(p[1]) \subseteq path(u)
                  /\ t.exits[u] < t.exits[p[1]] /\ t.entries[p[1]] < t.entries[u]
             /\ \A m \in tables(u) : \A w \in t.subtree[m] :
                  /\ <<u, m>> \in path(w)
                  /\ \A p \in path(w) : p \in path(u) \/ p = <<u, m>> \/ p[1] \in t.subtree[m]
             /\ \A n \in DOMAIN t.rows : u \in t.subtree[n] =>
                  /\ \A w \in site : t.node[w] = t.node[u] => w \in t.subtree[n]
                  /\ \A m \in tables(u) : t.subtree[m] \subseteq t.subtree[n]

WellFormed(t) == FitsTogether(t) /\ RegionsPart(t) /\ PathsNest(t)
=============================================================================
