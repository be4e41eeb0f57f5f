----------------------------- MODULE Selections -----------------------------
(* What the code does with the iterators and maps of the standard library,   *)
(* for the modules on tables: in place of SelectSeq, :> and @@ in a form     *)
(* that proofs can expand.                                                   *)
EXTENDS Integers, FiniteSets

\* The positions in at, in order.
Ascending(at) ==
    CHOOSE f \in [1..Cardinality(at) -> at] : \A i, j \in DOMAIN f : i < j => f[i] < f[j]

\* filter: the elements of a sequence at some positions, in order.
Those(seq, at) == [k \in 1..Cardinality(at) |-> seq[Ascending(at)[k]]]

\* insert: a map in which a key has a value, whatever it had before.
With(map, key, value) ==
    [k \in DOMAIN map \union {key} |-> IF k = key THEN value ELSE map[k]]
=============================================================================
