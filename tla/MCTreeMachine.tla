---------------------------- MODULE MCTreeMachine ----------------------------
(* TreeMachine for TLC: families of small blocks of tables.                *)
EXTENDS TreeMachine

CONSTANTS Outer, P, Q, A, B, C, D, e, f

Shape == INSTANCE TreeShape

On(s, kind, trigger) ==
    [from |-> s, kind |-> kind, event |-> trigger, guard |-> FALSE,
     action |-> FALSE, defer |-> FALSE, process |-> << >>, to |-> s,
     internal |-> TRUE, start |-> FALSE, history |-> FALSE]
To(row, s)      == [row EXCEPT !.to = s, !.internal = FALSE]
Guarded(row)    == [row EXCEPT !.guard = TRUE]
Acting(row)     == [row EXCEPT !.action = TRUE]
Deferring(row)  == [row EXCEPT !.defer = TRUE]
Processing(row) == [row EXCEPT !.process = <<f>>]
Start(row)      == [row EXCEPT !.start = TRUE]
Remembers(row)  == [row EXCEPT !.start = TRUE, !.history = TRUE]

Named(n, rows) == [name |-> n, rows |-> rows]

\* validate_unreachable_transitions: in an arm an unguarded row comes last.
Reachable(rows) ==
    \A i, j \in DOMAIN rows :
        i < j /\ rows[i].from = rows[j].from /\ rows[i].kind = rows[j].kind
              /\ rows[i].event = rows[j].event => rows[i].guard

\* The trees of a block with n more rows out of a pool of <<table, row>>.
Grown(block, pool, n, testing) ==
    LET picked(c)   == SelectSeq([k \in DOMAIN pool |-> k], LAMBDA k : k \in c)
        extra(c, t) == SelectSeq(picked(c), LAMBDA k : pool[k][1] = t)
        grown(c) == Shape!Listed([b \in DOMAIN block |->
                        LET more == extra(c, block[b].name)
                        IN  Named(block[b].name,
                                  block[b].rows \o [k \in DOMAIN more |-> pool[more[k]][2]])])
        picks == {c \in Shape!kSubset(n, DOMAIN pool) :
                     \A b \in DOMAIN block : Reachable(grown(c)[b].rows)}
    IN  {Shape!Layout(Shape!TreeOf(grown(c)), testing) : c \in picks}

\* Two regions: broadcast, recovery of one beside the other.
Regions == <<Named(Outer, <<Start(Acting(To(On(A, "normal", e), B))),
                           Start(Acting(To(On(C, "normal", e), D)))>>)>>
RegionPool == <<
    <<Outer, Acting(To(On(B, "completion", Wild), A))>>,
    <<Outer, Acting(To(On(D, "completion", e), C))>>,
    <<Outer, Acting(On(B, "exception", Wild))>>,
    <<Outer, To(On(C, "exception", e), D)>>,
    <<Outer, Guarded(To(On(D, "exception", Wild), C))>>,
    <<Outer, To(On(C, "completion", Wild), D)>>,
    <<Outer, On(A, "entry", Wild)>>,
    <<Outer, Deferring(On(A, "normal", f))>>,
    <<Outer, Processing(On(D, "normal", e))>>,
    <<Outer, Guarded(Deferring(To(On(C, "unexpected", f), C)))>>,
    <<Outer, To(On(D, "unexpected", Wild), C)>> >>

\* A composite state in a composite state.
Chain == <<Named(Outer, <<Start(To(On(A, "normal", e), P)), Acting(To(On(P, "normal", f), A))>>),
           Named(P, <<Start(To(On(B, "normal", e), Q)), To(On(Q, "completion", Wild), B)>>),
           Named(Q, <<Start(Acting(To(On(C, "normal", e), D))), To(On(D, "normal", e), X)>>)>>
ChainPool == <<
    <<Outer, To(On(P, "exception", Wild), A)>>,
    <<Outer, On(P, "exit", Wild)>>,
    <<Outer, On(P, "entry", Wild)>>,
    <<P, On(B, "entry", Wild)>>,
    <<P, On(Q, "exit", Wild)>>,
    <<P, Acting(On(Q, "exception", e))>>,
    <<P, Deferring(On(Q, "normal", f))>>,
    <<Q, On(C, "exit", Wild)>>,
    <<Q, Acting(To(On(C, "completion", Wild), D))>>,
    <<Q, To(On(C, "exception", Wild), D)>>,
    <<Q, Processing(Guarded(To(On(D, "normal", f), C)))>> >>

\* A table of two regions, a table nested in one of them, below one region of
\* the root.
Mixed == <<Named(Outer, <<Start(To(On(A, "normal", e), P)), Guarded(To(On(P, "normal", f), A)),
                         Acting(To(On(P, "normal", f), P)),
                         Start(To(On(B, "normal", f), B))>>),
           Named(P, <<Start(Acting(To(On(C, "normal", e), D))), To(On(D, "normal", e), C),
                      Start(To(On(Q, "normal", f), A))>>),
           Named(Q, <<Remembers(Acting(To(On(B, "normal", e), C)))>>)>>
MixedPool == <<
    <<Outer, On(P, "exit", Wild)>>,
    <<Outer, To(On(P, "exception", Wild), A)>>,
    <<Outer, Acting(To(On(B, "completion", f), X))>>,
    <<Outer, On(B, "exception", Wild)>>,
    <<P, Acting(To(On(D, "completion", Wild), C))>>,
    <<P, On(Q, "exit", Wild)>>,
    <<P, Acting(To(On(Q, "exception", Wild), A))>>,
    <<Q, On(B, "exit", Wild)>>,
    <<Q, On(C, "entry", Wild)>>,
    <<Q, To(On(B, "completion", e), C)>> >>

\* The generator of its own for one child, its states set by tests.
Single == <<Named(Outer, <<Start(To(On(A, "normal", e), P)), To(On(P, "normal", f), A)>>),
            Named(P, <<Start(To(On(B, "normal", e), C)), To(On(C, "completion", Wild), B)>>)>>
SinglePool == <<
    <<Outer, Acting(On(P, "exit", Wild))>>,
    <<Outer, Acting(To(On(P, "exception", Wild), A))>>,
    <<P, On(B, "entry", Wild)>>,
    <<P, On(C, "exit", Wild)>> >>

\* A composite state in one region, left by an event the other processes.
Peers == <<Named(Outer, <<Start(Guarded(To(On(A, "completion", Wild), P))), To(On(P, "normal", f), A),
                         Start(To(On(C, "normal", e), D)), Processing(To(On(D, "completion", Wild), C)),
                         On(D, "exception", Wild)>>),
           Named(P, <<Start(Acting(To(On(B, "completion", Wild), C)))>>)>>
PeerPool == <<
    <<Outer, To(On(A, "exception", Wild), A)>>,
    <<Outer, To(On(P, "exception", Wild), P)>>,
    <<P, To(On(B, "exception", Wild), D)>>,
    <<P, To(On(B, "exception", e), B)>>,
    <<P, On(B, "exit", Wild)>> >>

RegionTrees == Grown(Regions, RegionPool, 3, FALSE)
ChainTrees  == Grown(Chain, ChainPool, 2, FALSE)
MixedTrees  == Grown(Mixed, MixedPool, 2, FALSE)
PeerTrees   == Grown(Peers, PeerPool, 1, FALSE)
TestedTrees == Grown(Single, SinglePool, 2, TRUE)
AllTrees == RegionTrees \union ChainTrees \union MixedTrees \union PeerTrees \union TestedTrees
=============================================================================
