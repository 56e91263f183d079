---------------------------- MODULE LayerFrames ----------------------------
(***************************************************************************)
(* Layered painting end to end: the core commits frames                    *)
(* (CompositingLayers), the presentation transaction shows them            *)
(* (LayerPresentation).  The host renders when a frame has been asked for  *)
(* and after a present that failed, as the display link of the iOS adapter *)
(* does (platform/mobile/ios/src/app.rs); frames committed before one      *)
(* present coalesce, as in the raster thread's pipeline.                   *)
(*                                                                         *)
(* present() owns the frame it shows and touches nothing of the core, so   *)
(* the core's steps commute with it and are taken between two presents.    *)
(***************************************************************************)
EXTENDS CompositingLayers, LayerPresentation

CONSTANTS
  MaxChanges,   \* bound on calls of the setters
  MaxFaults     \* bound on failed presents and lost resources

VARIABLES
  changes, faults

vars == <<coreVars, presentVars, changes, faults>>

Init == CoreInit /\ PresentInit /\ changes = 0 /\ faults = 0

Setter ==
  \/ \E e \in Elements : \E smooth \in BOOLEAN : SetStyle(e, smooth)
  \/ \E e \in Elements : \E m \in Matrices : SetTransform(e, m)
  \/ \E s \in ScrollViews : \E top \in Tops : SetScrollOffset(s, top)
  \/ \E e \in Elements : AppendChild(e)
  \/ \E e \in Elements : Remove(e)
  \/ RegisterFont

Change ==
  /\ phase = "idle" /\ changes < MaxChanges
  /\ Setter
  /\ changes' = changes + 1
  /\ UNCHANGED <<presentVars, faults>>

\* commit_rendered_frame: render(), and the frame it leaves goes to presentation.
Render ==
  /\ Lower
  /\ Offer(CommittedFrame, ContentFacts, ChromeFacts, PlacementFacts, Repainted, chromeTouched)
  /\ UNCHANGED <<changes, faults>>

\* One step of a present that goes well.
Present ==
  /\ Prepare \/ (\E j \in jobs : Rasterize(j)) \/ Composite \/ Commit
  /\ UNCHANGED <<coreVars, changes, faults>>

\* The host looks at a failure, or at what it lost, and takes another frame.
Fault ==
  /\ faults < MaxFaults
  /\ (\E j \in jobs : RasterizeFails(j)) \/ CompositeFails \/ Invalidate
  /\ redraw' = TRUE
  /\ faults' = faults + 1
  /\ UNCHANGED <<tree, transform, restyled, anchored, tracks, offset, marks, built,
                 frameLayers, placed, history, changes>>

Pressure ==
  /\ Trim /\ faults < MaxFaults
  /\ faults' = faults + 1
  /\ UNCHANGED <<coreVars, changes>>

Next == Change \/ Render \/ Present \/ Fault \/ Pressure

Spec == Init /\ [][Next]_vars

\* The host serves a redraw request, and present() runs to its end.
FairSpec == Spec /\ WF_vars(Render) /\ WF_vars(Present)

-----------------------------------------------------------------------------
(* The type invariant.                                                     *)
LayerFramesTypeOK == CoreTypeOK /\ TypeOK

\* No composited layer still draws an element that is no longer in the frame: a
\* removal has every layer rasterized, except a scroll view that was only
\* scrolled.  Such a view may go on showing what was promoted out of it before:
\* a layer is not rasterized when an element on it becomes a layer of its own.
RemovedElementsGone ==
  phase = "commit" => \A l \in scene.layers \ ((loose \ staged) \union ScrollViews) :
    texture[l].draws \subseteq UNION {scene.drawn[m] : m \in scene.layers}

\* When nobody asks for a frame and none is under way, the layers on the
\* screen are the layers of the tree: the on-demand loop does not go idle
\* before a layer that stopped moving is folded back into its parent (#680).
QuiescentIsSettled ==
  (~redraw /\ ~waiting /\ phase = "idle") =>
    scene.layers = Boundaries /\ touched = {} /\ scene.top = offset

\* What leaves a layer the facts do not name: a layer below that one, the element
\* or one above it, has just been promoted.
LeavesByPromotion ==
  \A l \in (scene.layers \cap Boundaries) \ ContentFacts :
    \A e \in scene.drawn[l] \ CommittedFrame.drawn[l] :
      \E m \in Boundaries \ scene.layers : m \in Above[e] /\ l \in Above[m]

\* The facts of every frame are what presentation relies on, and the only change
\* of a layer they pass over is a promotion out of it: an element removed,
\* demoted or restyled always names the layer it was drawn on
\* (capture_frame_layers).
AnnouncesChanges ==
  [][Render => /\ Announced(CommittedFrame, ContentFacts, PlacementFacts, Repainted)
               /\ LeavesByPromotion]_vars

\* Anchors of removed elements whose transition never settles.
Orphans == {e \in Elements \ Attached : tracks[e] > 0}

\* Without such an anchor the frame loop comes to rest with everything shown:
\* no transition, promotion, failed present or eviction keeps asking for frames,
\* and none of them swallows a frame (tree.rs: once the last track settles the
\* loop goes quiet).
ComesToRest == <>[](Orphans = {}) => <>[](~redraw /\ ~waiting /\ phase = "idle")

-----------------------------------------------------------------------------
(* What the repository says, and the code does not do.                     *)

\* ADR-0152: the placement table is shared by the commits that leave structure,
\* geometry and transforms as they were, so a settled frame places every layer
\* by its live transforms and scroll offsets.
PlacementsAreLive ==
  built /\ ~redraw => \A l \in Boundaries : placed[l] = LivePlace(l)

\* tree.rs: once the last track settles the frame loop goes quiet.
AlwaysComesToRest == <>[](~redraw)

=============================================================================
