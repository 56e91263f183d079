---------------------------- MODULE MCAndroidFront ----------------------------
(***************************************************************************)
(* Instances of AndroidFront for TLC.                                      *)
(***************************************************************************)
EXTENDS AndroidFront

MCBootTree == [n \in Leaves |-> CHOOSE l \in Labels : TRUE]
=============================================================================
