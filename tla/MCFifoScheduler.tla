--------------------------- MODULE MCFifoScheduler ---------------------------
(* FifoScheduler for TLC.  Tasks that call submit are interchangeable when  *)
(* the machine may do the same with every event.                           *)
EXTENDS FifoScheduler, TLC

Anything == [t \in Task |-> {"accept", "reject", "stop", "panic"}]
AcceptOrStop == [t \in Task |-> {"accept", "stop"}]
StopOrPanic ==
    [t \in Task |-> IF t \in Dropper THEN {"accept", "stop"} ELSE {"accept", "panic"}]

Symmetry == Permutations(Task \ TryCaller)
=============================================================================
