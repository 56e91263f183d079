-------------------------- MODULE NativeAccessibility --------------------------
(***************************************************************************)
(* The native accessibility session (app-host/src/native_accessibility.rs) *)
(* as operators on a record, without its mailbox, which belongs to the     *)
(* threads that share it, and the tree a target rebuilds from the updates  *)
(* (android_accessibility.rs).                                             *)
(*                                                                         *)
(* An accessibility tree is a root and the leaves it has now, each with    *)
(* what it says.  A node is never built character by character: the root   *)
(* stands for its children and the scale of its transform, a leaf for its  *)
(* label.  Focus travels with every update and is part of no comparison.   *)
(***************************************************************************)
EXTENDS Integers, Sequences

CONSTANTS
  Root,    \* the root node
  Leaves,  \* the nodes that may be its children
  Labels,  \* what a leaf may say
  Scales   \* content scales of the display

ASSUME AccessibilityAssumption == Root \notin Leaves /\ Scales # {}

Trees == UNION {[S -> Labels] : S \in SUBSET Leaves}

\* No nodes at all: a cleared baseline, a target that was never updated.
Nothing == [n \in {} |-> Root]

NoGeneration == -1

\* The nodes of an update of the whole tree.
Projection(tree, scale) ==
  [n \in {Root} \union DOMAIN tree |->
     IF n = Root THEN [children |-> DOMAIN tree, scale |-> scale] ELSE tree[n]]

Projections == {Projection(t, s) : t \in Trees, s \in Scales}

States == {"Detached", "Dormant", "InitialPending", "Active"}

Sessions ==
  [state: States, scale: Scales, generation: Nat \union {NoGeneration},
   baseline: Projections \union {Nothing}, pending: Nat, scaleDirty: BOOLEAN]

NewSession(scale) ==
  [state |-> "Dormant", scale |-> scale, generation |-> NoGeneration,
   baseline |-> Nothing, pending |-> 0, scaleDirty |-> TRUE]

\* A surface without a session.
NoSession == [NewSession(CHOOSE s \in Scales : TRUE) EXCEPT !.state = "Detached"]

Mounted(s) == s.state # "Detached"

Listening(s) == s.state \in {"InitialPending", "Active"}

Forget(s, state, pending) ==
  [s EXCEPT !.state = state, !.generation = NoGeneration,
            !.baseline = Nothing, !.pending = pending]

OnActivate(s) ==
  IF Mounted(s) THEN Forget(s, "InitialPending", s.pending + 1) ELSE s

OnDeactivate(s) == IF Mounted(s) THEN Forget(s, "Dormant", 0) ELSE Forget(s, "Detached", 0)

SetBaseDpr(s, scale) ==
  IF s.scale = scale THEN s ELSE [s EXCEPT !.scale = scale, !.scaleDirty = TRUE]

\* Mutant: the new tree is told to nobody.
NoReset(s) == s

ResetForTreeReplacement(s) ==
  IF s.state = "Active" THEN Forget(s, "InitialPending", 1) ELSE Forget(s, s.state, 0)

\* What update_after_present has to tell the target, if anything.
NeedsUpdate(s, generation) ==
  \/ s.state = "InitialPending"
  \/ s.state = "Active" /\ (s.generation # generation \/ s.scaleDirty)

\* The nodes it sends: all of them at first, then those that differ.
Update(s, nodes) ==
  IF s.state = "InitialPending" THEN nodes
  ELSE [n \in {m \in DOMAIN nodes :
                 ~ (m \in DOMAIN s.baseline /\ s.baseline[m] = nodes[m])} |-> nodes[n]]

\* The target applied the update.  Every pending activation gets the same
\* full update, so one delivery stands for all of them.
Applied(s, generation, nodes) ==
  [s EXCEPT !.state = "Active", !.generation = generation, !.baseline = nodes,
            !.pending = 0, !.scaleDirty = FALSE]

\* Mutant: the session stays active and keeps its baseline.
RefusedUnnoticed(s) == s

\* The target is inactive: dormant until the next activation.
Refused(s) ==
  [Forget(s, "Dormant", 0) EXCEPT !.scaleDirty = @ /\ s.state = "InitialPending"]

(***************************************************************************)
(* The target keeps the nodes it was sent and drops those no parent names. *)
(***************************************************************************)

\* Only a full update names the root, and the first one has to.
Acceptable(held, s) == held # Nothing \/ s.state = "InitialPending"

Merge(held, update) ==
  LET children == IF Root \in DOMAIN update THEN update[Root].children
                  ELSE held[Root].children
  IN [n \in {Root} \union children |-> IF n \in DOMAIN update THEN update[n] ELSE held[n]]
=============================================================================
