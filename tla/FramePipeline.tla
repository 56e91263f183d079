---------------------------- MODULE FramePipeline ----------------------------
(***************************************************************************)
(* The Latest-Wins Frame Pipeline of crates/frame-pipeline/src/lib.rs: the *)
(* admission and completion policy that the native Raster thread and the   *)
(* Web Worker engine both drive.  The module has no state of its own; a    *)
(* pipeline is a record, and each method of LatestWinsFramePipeline is an  *)
(* operator from a pipeline to the next one.  The execution adapters       *)
(* (RasterThread, WorkerEngine) keep the record in a variable and decide   *)
(* when a method runs.                                                     *)
(*                                                                         *)
(* A frame keeps what coalescing can lose: the identity of its scene       *)
(* snapshot, the layers of its topology, the five changed sets, the dirty  *)
(* mark of every scroll compositor input and the continuation flag.        *)
(* Geometry, bounds and placements travel with the scene and are not told  *)
(* apart from it.  The u64 counters saturate in the code; here they are    *)
(* natural numbers.                                                        *)
(***************************************************************************)
EXTENDS Integers, Sequences

CONSTANTS
  Layer,     \* layer identities (ElementId)
  Barrier    \* lifecycle commands of the adapter (the type parameter B)

\* The changed sets of a LayerTopology.
Fact == {"structural", "geometry", "content", "chrome", "transform"}

Changes == [Fact -> SUBSET Layer]

FrameSubmission ==
  [scene: Nat,
   layers: SUBSET Layer,
   changed: Changes,
   scroll: SUBSET Layer,         \* layers with a ScrollCompositorInput
   contentDirty: SUBSET Layer,   \* those of them whose input is content_dirty
   work: BOOLEAN]                \* pending_visual_work

\* The frame field of a barrier, so that both kinds of command have a record
\* of the same shape.
NoFrame ==
  [scene |-> 0, layers |-> {}, changed |-> [f \in Fact |-> {}],
   scroll |-> {}, contentDirty |-> {}, work |-> FALSE]

NoBarrier == "none"

Frame(f) == [kind |-> "Frame", frame |-> f, barrier |-> NoBarrier]

Lifecycle(b) == [kind |-> "Barrier", frame |-> NoFrame, barrier |-> b]

IsFrame(c) == c.kind = "Frame"

PipelineCommand ==
  [kind: {"Frame", "Barrier"}, frame: FrameSubmission,
   barrier: Barrier \cup {NoBarrier}]

\* FrameSubmission::from_committed_frame: a commit marks the scroll inputs it
\* produces dirty exactly when their layer is in its content_changed set.
FromCommittedFrame(scene, layers, scrollLayers, changed, work) ==
  [scene |-> scene, layers |-> layers, changed |-> changed,
   scroll |-> scrollLayers,
   contentDirty |-> scrollLayers \cap changed["content"],
   work |-> work]

AbsorbChangesFrom(latest, older) ==
  [f \in Fact |-> latest[f] \cup older[f]]

\* Mutants of ReplaceWithLatest: the newer frame wins outright; the newer
\* frame's continuation flag wins.
LatestOnly(older, latest) == latest

LatestWork(older, latest) ==
  LET changed == AbsorbChangesFrom(latest.changed, older.changed)
  IN [latest EXCEPT
        !.changed = changed,
        !.contentDirty =
           latest.scroll \cap (@ \cup changed["content"] \cup older.contentDirty)]

ReplaceWithLatest(older, latest) ==
  LET changed == AbsorbChangesFrom(latest.changed, older.changed)
  IN [latest EXCEPT
        !.changed = changed,
        !.contentDirty =
           latest.scroll \cap (@ \cup changed["content"] \cup older.contentDirty),
        !.work = @ \/ older.work]

-----------------------------------------------------------------------------

Pipeline ==
  [pending: Seq(PipelineCommand), active: BOOLEAN, accepted: Nat,
   coalesced: Nat, dropped: Nat, failure: BOOLEAN]

NewPipeline ==
  [pending |-> <<>>, active |-> FALSE, accepted |-> 0, coalesced |-> 0,
   dropped |-> 0, failure |-> FALSE]

\* Mutant of Coalesces: looks for the only pending command, not the last one.
CoalescesWithOnly(p, c) ==
  /\ IsFrame(c)
  /\ Len(p.pending) = 1
  /\ IsFrame(p.pending[1])

\* An incoming frame merges into the back of the queue when that is a frame.
Coalesces(p, c) ==
  /\ IsFrame(c)
  /\ p.pending # <<>>
  /\ IsFrame(p.pending[Len(p.pending)])

\* Mutant of MergeIntoBack: the merge is not counted.
MergeUncounted(p, c) ==
  [p EXCEPT
     !.pending[Len(p.pending)].frame = ReplaceWithLatest(@, c.frame),
     !.accepted = @ + 1]

MergeIntoBack(p, c) ==
  [p EXCEPT
     !.pending[Len(p.pending)].frame = ReplaceWithLatest(@, c.frame),
     !.accepted = @ + 1,
     !.coalesced = @ + 1]

PushBack(p, c) ==
  [p EXCEPT !.pending = Append(@, c), !.accepted = @ + 1]

Reject(p) == [p EXCEPT !.dropped = @ + 1]

Admit(p, c) ==
  IF p.failure THEN Reject(p)
  ELSE IF Coalesces(p, c) THEN MergeIntoBack(p, c)
  ELSE PushBack(p, c)

CanStart(p) == ~p.active /\ ~p.failure /\ p.pending # <<>>

StartNext(p) == [p EXCEPT !.pending = Tail(@), !.active = TRUE]

\* Mutant of CompleteActive: the active mark survives the completion.
CompleteNothing(p) == p

CompleteActive(p) == [p EXCEPT !.active = FALSE]

\* Mutant of Fail: a sign slip in the count of dropped commands.
FailUncounts(p) ==
  [p EXCEPT !.active = FALSE, !.failure = TRUE,
            !.dropped = @ - Len(p.pending), !.pending = <<>>]

Fail(p) ==
  [p EXCEPT !.active = FALSE, !.failure = TRUE,
            !.dropped = @ + Len(p.pending), !.pending = <<>>]
=============================================================================
