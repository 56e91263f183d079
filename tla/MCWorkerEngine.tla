---------------------------- MODULE MCWorkerEngine ----------------------------
(***************************************************************************)
(* Instances of WorkerEngine for TLC: one layer that is a scroll view, and *)
(* commits that leave visual work behind and carry a change, or neither.   *)
(***************************************************************************)
EXTENDS WorkerEngine

CONSTANT l1

MCLayer == {l1}

Changed(content) == [f \in Fact |-> IF f = "content" THEN content ELSE {}]

MCCommit ==
  {[layers |-> {l1}, changed |-> Changed({l1}), work |-> TRUE],
   [layers |-> {l1}, changed |-> Changed({}), work |-> FALSE]}
=============================================================================
