------------------------- MODULE CompositingLayers -------------------------
(***************************************************************************)
(* The core half of layered painting, core/src/element: which elements are *)
(* compositing layers (compositing.rs), what the setters of ElementTree    *)
(* mark dirty (tree.rs, engine.rs), and how render() turns the marks into  *)
(* the facts of a committed frame.                                         *)
(*                                                                         *)
(* "touched" and "chromeTouched" are history: what really looks different  *)
(* since the last render, recorded apart from the marks the code makes, so *)
(* that the facts of a frame can be compared with it.                      *)
(***************************************************************************)
EXTENDS LayerTree

CONSTANTS
  Parent,            \* parent of every element but the root
  Plain,             \* the transform None
  TransitionFrames,  \* frames a transition runs for
  LateSets           \* the sets of elements that may still be missing at first

ASSUME CompositingAssumption ==
  /\ Parent \in [Elements \ {Root} -> Elements]
  /\ Plain \in Matrices
  /\ TransitionFrames \in Nat \ {0}
  /\ LateSets \subseteq SUBSET (Elements \ {Root})
  /\ \A e \in Elements \ {Root} : Rank[Parent[e]] < Rank[e]
  /\ \A late \in LateSets : \A e \in Elements \ {Root} : Parent[e] \in late => e \in late

VARIABLES
  tree,             \* each element: new, attached or removed
  transform,        \* Element.transform
  restyled,         \* elements whose next lowering starts a transition
  anchored,         \* SceneLowering.anchors: elements lowered since the last rebuild
  tracks,           \* AnchorEntry.transitions: frames left, 0 when settled
  offset,           \* Element.scroll_offset of the scroll views
  visualDirty, structureDirty, transformDirty, scrollChromeOnly, fontsDirty,
  built,            \* SceneLowering.built
  frameLayers,      \* ElementTree.frame_layers, as a set
  placed,           \* LayerTopology.placements of the last frame
  redraw,           \* the host has been asked for a frame
  touched, chromeTouched

marks == <<visualDirty, structureDirty, transformDirty, scrollChromeOnly, fontsDirty>>
history == <<touched, chromeTouched>>
coreVars == <<tree, transform, restyled, anchored, tracks, offset, marks, built,
              frameLayers, placed, redraw, history>>

Attached == {e \in Elements : tree[e] = "attached"}

CoreTypeOK ==
  /\ tree \in [Elements -> {"new", "attached", "removed"}]
  /\ transform \in [Elements -> Matrices]
  /\ restyled \subseteq Elements /\ anchored \subseteq Elements
  /\ tracks \in [Elements -> 0 .. TransitionFrames]
  /\ offset \in [ScrollViews -> Tops]
  /\ visualDirty \subseteq Elements /\ structureDirty \subseteq Elements
  /\ transformDirty \subseteq Elements /\ scrollChromeOnly \subseteq ScrollViews
  /\ fontsDirty \in BOOLEAN /\ built \in BOOLEAN /\ redraw \in BOOLEAN
  /\ frameLayers \subseteq Elements /\ placed \in [Elements -> Place]
  /\ touched \subseteq Elements /\ chromeTouched \subseteq ScrollViews

-----------------------------------------------------------------------------
(* compositing.rs                                                          *)

\* Sets that hold, with an element, its parent.
Upward == {S \in SUBSET Elements : \A e \in S \ {Root} : Parent[e] \in S}

\* The element and its ancestors.
Above == [e \in Elements |-> {a \in Elements : \A S \in Upward : e \in S => a \in S}]

Subtree(e) == {d \in Elements : e \in Above[d]}

\* CompositingFacts::forms_layer
FormsLayer(e) == tracks[e] > 0 \/ transform[e] # Plain \/ e \in ScrollViews

\* compositing_boundaries, with the root captured as a layer of its own.
Boundaries == {e \in Attached : FormsLayer(e)} \union {Root}

\* nearest_enclosing_layer: the first layer on the way up, which has the others
\* above it.
Nearest(e, layers) ==
  CHOOSE l \in Above[e] \cap layers : Above[e] \cap layers \subseteq Above[l]

\* derive_layer_dirty
LayersOf(elements, layers) == {Nearest(e, layers) : e \in elements}

\* walk_placements: an element's own Group, and the scroll Groups around it.
LivePlace(e) ==
  [matrix |-> transform[e],
   scroll |-> [s \in ScrollViews |-> IF s # e /\ e \in Subtree(s) THEN offset[s] ELSE 0]]

-----------------------------------------------------------------------------
(* The setters                                                             *)

\* Mutant: a mark for another reason leaves the claim of a scroll view alone.
MarkVisualKeepsChromeOnly(elements) ==
  /\ visualDirty' = visualDirty \union elements
  /\ UNCHANGED scrollChromeOnly

\* engine.mark_visual_dirty: a mark for another reason than scrolling
\* withdraws the claim that only the chrome of a scroll view changed.
MarkVisual(elements) ==
  /\ visualDirty' = visualDirty \union elements
  /\ scrollChromeOnly' = scrollChromeOnly \ elements

CoreInit ==
  /\ \E late \in LateSets : tree = [e \in Elements |-> IF e \in late THEN "new" ELSE "attached"]
  /\ transform = [e \in Elements |-> Plain]
  /\ restyled = {} /\ anchored = {} /\ tracks = [e \in Elements |-> 0]
  /\ offset = [s \in ScrollViews |-> 0]
  /\ visualDirty = {} /\ structureDirty = {Root} /\ transformDirty = {}
  /\ scrollChromeOnly = {} /\ fontsDirty = FALSE
  /\ built = FALSE /\ frameLayers = {} /\ redraw = TRUE
  /\ placed = [e \in Elements |-> LivePlace(e)]
  /\ touched = Attached /\ chromeTouched = {}

\* element_set_style of a visual property; smooth when the element's style
\* gives the property a transition.
SetStyle(e, smooth) ==
  /\ e \in Attached
  /\ MarkVisual({e})
  /\ restyled' = IF smooth THEN restyled \union {e} ELSE restyled
  /\ touched' = touched \union {e} /\ redraw' = TRUE
  /\ UNCHANGED <<tree, transform, anchored, tracks, offset, structureDirty, transformDirty,
                 fontsDirty, built, frameLayers, placed, chromeTouched>>

\* element_set_transform: only None <-> Some marks the element for lowering.
SetTransform(e, m) ==
  /\ e \in Attached \ {Root} /\ m # transform[e]
  /\ transform' = [transform EXCEPT ![e] = m]
  /\ IF Plain \in {m, transform[e]}
     THEN MarkVisual({e}) /\ UNCHANGED transformDirty
     ELSE transformDirty' = transformDirty \union {e} /\ UNCHANGED <<visualDirty, scrollChromeOnly>>
  /\ redraw' = TRUE
  /\ UNCHANGED <<tree, restyled, anchored, tracks, offset, structureDirty, fontsDirty, built,
                 frameLayers, placed, history>>

\* element_set_scroll_offset of a scroll view: engine.mark_scroll_chrome_dirty.
SetScrollOffset(s, top) ==
  /\ s \in Attached /\ top # offset[s]
  /\ offset' = [offset EXCEPT ![s] = top]
  /\ scrollChromeOnly' = IF s \in visualDirty \union structureDirty
                         THEN scrollChromeOnly ELSE scrollChromeOnly \union {s}
  /\ visualDirty' = visualDirty \union {s}
  /\ chromeTouched' = chromeTouched \union {s} /\ redraw' = TRUE
  /\ UNCHANGED <<tree, transform, restyled, anchored, tracks, structureDirty, transformDirty,
                 fontsDirty, built, frameLayers, placed, touched>>

\* element_create and element_append_child of a view.
AppendChild(e) ==
  /\ tree[e] = "new" /\ tree[Parent[e]] = "attached"
  /\ tree' = [tree EXCEPT ![e] = "attached"]
  /\ structureDirty' = structureDirty \union {Parent[e], e}
  /\ scrollChromeOnly' = scrollChromeOnly \ {Parent[e], e}
  /\ touched' = touched \union {e} /\ redraw' = TRUE
  /\ UNCHANGED <<transform, restyled, anchored, tracks, offset, visualDirty, transformDirty,
                 fontsDirty, built, frameLayers, placed, chromeTouched>>

\* Mutant: a removal marks the removed element alone.
RemoveMarksItself(e) ==
  LET gone == Subtree(e) \cap Attached
  IN  /\ e \in Attached \ {Root}
      /\ tree' = [d \in Elements |-> IF d \in gone THEN "removed" ELSE tree[d]]
      /\ structureDirty' = structureDirty \union {e}
      /\ scrollChromeOnly' = scrollChromeOnly \ {e}
      /\ restyled' = restyled \ gone
      /\ redraw' = TRUE
      /\ UNCHANGED <<transform, anchored, tracks, offset, visualDirty, transformDirty, fontsDirty, built,
                     frameLayers, placed, history>>

\* element_remove: the subtree goes, the root is marked; the anchors of the
\* lowering, and the transitions in them, are not visited.
Remove(e) ==
  LET gone == Subtree(e) \cap Attached
  IN  /\ e \in Attached \ {Root}
      /\ tree' = [d \in Elements |-> IF d \in gone THEN "removed" ELSE tree[d]]
      /\ structureDirty' = structureDirty \union {Root, Parent[e], e}
      /\ scrollChromeOnly' = scrollChromeOnly \ {Root, Parent[e], e}
      /\ restyled' = restyled \ gone
      /\ redraw' = TRUE
      /\ UNCHANGED <<transform, anchored, tracks, offset, visualDirty, transformDirty, fontsDirty, built,
                     frameLayers, placed, history>>

\* register_font: every shaped text is stale.
RegisterFont ==
  /\ fontsDirty' = TRUE /\ touched' = Attached /\ redraw' = TRUE
  /\ UNCHANGED <<tree, transform, restyled, anchored, tracks, offset, visualDirty,
                 structureDirty, transformDirty, scrollChromeOnly, built, frameLayers, placed,
                 chromeTouched>>

-----------------------------------------------------------------------------
(* render()                                                                *)

FullRebuild == fontsDirty \/ ~built

\* collect_lowering_dirty: a structure mark reaches the whole subtree.
Lowered == visualDirty \union UNION {Subtree(e) \cap Attached : e \in structureDirty}

\* Mutant: an element that ceased to be a layer dirties nobody (#680).
MarkedWithoutDemoted == Lowered \ scrollChromeOnly

\* The elements capture_frame_layers attributes to layers: what is lowered,
\* except for scrolling alone, and what has just ceased to be a layer.
Marked == (Lowered \ scrollChromeOnly) \union (frameLayers \ Boundaries)

\* capture_frame_layers.  A removed element has no parent to climb to.
ContentFacts ==
  IF FullRebuild THEN Boundaries
  ELSE LayersOf(Marked \cap Attached, Boundaries)

ChromeFacts ==
  IF FullRebuild THEN {} ELSE (scrollChromeOnly \cap Boundaries) \ ContentFacts

TransformFacts == LayersOf(transformDirty \cap Attached, Boundaries)

\* commit_layer_topology: structural_changed, geometry_changed,
\* transform_changed.  Layout never moves a box here, so geometry changes when
\* boxes appear.
PlacementFacts ==
  FullRebuild \/ frameLayers # Boundaries \/ TransformFacts # {} \/ ~(Attached \subseteq anchored)

\* Mutant: a transition counts down past its end.
ProgressPastEnd(e) ==
  IF FullRebuild THEN 0
  ELSE IF e \notin Lowered \cap Attached THEN tracks[e]
  ELSE IF e \in restyled \cap anchored THEN TransitionFrames ELSE tracks[e] - 1

\* Mutant: a transition does not move on.
ProgressStuck(e) ==
  IF FullRebuild THEN 0
  ELSE IF e \in Lowered \cap Attached \cap restyled \cap anchored THEN TransitionFrames ELSE tracks[e]

\* scene_build::update on one element.  A full rebuild starts with new
\* anchors; otherwise a lowered element's transition starts or moves on (it
\* starts only from a value displayed before), and an element the walk does not
\* reach keeps its transition as it was.
Progress(e) ==
  IF FullRebuild THEN 0
  ELSE IF e \notin Lowered \cap Attached THEN tracks[e]
  ELSE IF e \in restyled \cap anchored THEN TransitionFrames
  ELSE IF tracks[e] > 0 THEN tracks[e] - 1 ELSE 0

\* commit_layer_topology walks the scene for a new placement table, or shares
\* the table of the frame before.
PlacementTable == IF PlacementFacts THEN [e \in Elements |-> LivePlace(e)] ELSE placed

\* The frame render() hands over, with the layers captured before the lowering.
CommittedFrame ==
  [layers |-> Boundaries,
   drawn |-> [l \in Elements |-> {e \in Attached : l \in Boundaries /\ Nearest(e, Boundaries) = l}],
   place |-> PlacementTable,
   top |-> offset]

\* What the lowering changes on the screen besides what was touched.
Repainted == touched \union {e \in Attached : tracks[e] > 0}

\* Mutant: a layer that is to be folded back is no pending work (#680).
VisualDirtyIsAllTheWork == visualDirty' # {}

\* has_pending_visual_work, read after the lowering.
HasPendingVisualWork == visualDirty' # {} \/ Boundaries' # frameLayers'

\* What render() leaves behind; the frame itself is CommittedFrame.
Lower ==
  /\ redraw
  /\ tracks' = [e \in Elements |-> Progress(e)]
  /\ anchored' = IF FullRebuild THEN Attached ELSE anchored \union (Lowered \cap Attached)
  /\ frameLayers' = Boundaries /\ placed' = PlacementTable /\ built' = TRUE
  /\ visualDirty' = {e \in Elements : tracks'[e] > 0}
  /\ structureDirty' = {} /\ transformDirty' = {} /\ scrollChromeOnly' = {}
  /\ fontsDirty' = FALSE /\ restyled' = {}
  /\ touched' = {} /\ chromeTouched' = {}
  /\ UNCHANGED <<tree, transform, offset>>
  /\ redraw' = HasPendingVisualWork

=============================================================================
