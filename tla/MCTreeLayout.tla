---------------------------- MODULE MCTreeLayout ----------------------------
(* TreeLayout for TLC: blocks of up to four small tables.                  *)
EXTENDS TreeLayout

CONSTANTS Top, P, Q, R, A, B, C

Row(s, t) ==
    [from |-> s, to |-> t, internal |-> FALSE, kind |-> "normal", start |-> FALSE,
     history |-> FALSE]
Stays(s) == [Row(s, s) EXCEPT !.internal = TRUE]
First(r) == [r EXCEPT !.start = TRUE]
Completes(r) == [r EXCEPT !.kind = "completion"]

\* What a root may look like: scalar, orthogonal, owning up to three tables.
RootRows == {
    <<First(Row(A, P)), Row(P, Q), Row(Q, X)>>,
    <<First(Row(A, P)), Row(P, A)>>,
    <<First(Row(A, P)), First(Row(B, Q)), Row(B, B)>>,
    <<First(Row(A, P)), First(Row(Q, B)), Row(P, R)>>,
    <<First(Row(P, X)), First(Row(Q, X)), First(Row(C, C))>>,
    <<First(Row(A, B)), First(Row(P, B))>>,
    <<First(Row(A, P)), First(Row(B, B)), Row(C, X)>>,
    <<Row(A, P)>> }

\* What a nested table may look like; `own` and `other` are names it may own.
NestedRows(own, other) == {
    <<First(Row(A, B)), Row(B, X)>>,
    <<First(Row(A, own)), Row(own, X)>>,
    <<First(Row(A, own)), First(Row(B, X))>>,
    <<First(Row(A, B)), First(Row(C, other)), Row(other, own)>>,
    <<First(Row(A, B)), First(Row(C, B))>>,
    <<First(Row(A, A)), First(Stays(B)), Row(C, X)>>,
    <<First(Completes(Stays(A)))>> }

Named(n, rows) == [name |-> n, rows |-> rows]

SomeBlocks ==
    {<<Named(Q, q), Named(Top, t), Named(P, p), Named(R, r)>> :
        t \in RootRows, p \in NestedRows(R, Q), q \in NestedRows(R, Top),
        r \in {<<First(Row(A, X))>>, <<First(Row(A, X)), First(Row(B, P))>>,
               <<First(Row(A, X)), First(Row(B, X))>>}}
    \union {<<Named(Top, t)>> : t \in RootRows}
=============================================================================
