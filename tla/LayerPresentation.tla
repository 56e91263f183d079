------------------------- MODULE LayerPresentation -------------------------
(***************************************************************************)
(* The retained layer-presentation transaction of                          *)
(* scene-renderers/compositor (layer_presentation.rs and the LayerCache of *)
(* lib.rs) with the adapter it drives (skia/src/layer_compositor.rs,       *)
(* vello/src/layer_compositor.rs).  The shared ledger says which layer     *)
(* textures are current; the textures live in the adapter.  The ledger is  *)
(* committed only when every raster and the composite succeeded, while the *)
(* textures change one raster at a time.                                   *)
(*                                                                         *)
(* A texture records which elements it draws, which of them have changed   *)
(* since, which have left the layer since in frames whose facts did not    *)
(* name it, and the band it covers: the adapter has none of this, it is    *)
(* what the pixels show.  "loose" is history: the layers an abandoned frame left *)
(* with textures the ledger does not describe.                             *)
(***************************************************************************)
EXTENDS LayerTree

CONSTANTS
  Budget,      \* layers the GPU byte budget has room for
  LowBudget    \* the low watermark a memory-pressure signal trims to

ASSUME BudgetAssumption == Budget \in Nat /\ LowBudget \in Nat

VARIABLES
  scene,         \* the last committed frame
  waiting,       \* it has not been handed to present() yet
  dirty,         \* content_changed of the frames not yet presented
  chromeDirty,   \* chrome_changed of them
  moved,         \* one of them changed structure, geometry or a transform
  phase,         \* idle, raster (inside present), commit (composited)
  jobs,          \* raster jobs left
  staged,        \* layers whose content this present has rasterized
  pendingDirty, pendingChrome, pendingPlacement,
  previousLayers, applied, placements,
  cached,        \* LayerCache: layers with a ledger entry
  cachedBand,    \* LayerCache: the scroll band of the entry
  texture,       \* adapter: the content texture of each layer
  chrome,        \* adapter: the chrome texture of each scroll view
  loose          \* history: layers abandoned frames have rasterized

handoff == <<scene, waiting, dirty, chromeDirty, moved>>
ledger == <<pendingDirty, pendingChrome, pendingPlacement, previousLayers, applied,
            placements, cached, cachedBand>>
adapter == <<texture, chrome, loose>>
presentVars == <<handoff, phase, jobs, staged, ledger, adapter>>

Texture == [held: BOOLEAN, draws: SUBSET Elements, stale: SUBSET Elements,
            left: SUBSET Elements, band: SUBSET Tops]

NoTexture == [held |-> FALSE, draws |-> {}, stale |-> {}, left |-> {}, band |-> {}]

Job == [layer: Elements, kind: {"content", "chrome"}]

TypeOK ==
  /\ scene \in Frame
  /\ waiting \in BOOLEAN /\ moved \in BOOLEAN
  /\ dirty \subseteq Elements /\ chromeDirty \subseteq Elements
  /\ phase \in {"idle", "raster", "commit"}
  /\ jobs \subseteq Job /\ staged \subseteq Elements
  /\ pendingDirty \subseteq Elements /\ pendingChrome \subseteq Elements
  /\ pendingPlacement \in BOOLEAN /\ applied \in BOOLEAN
  /\ previousLayers \subseteq Elements /\ cached \subseteq Elements
  /\ cachedBand \in [Elements -> SUBSET Tops]
  /\ texture \in [Elements -> Texture]
  /\ chrome \in [ScrollViews -> {"none", "current", "wrong"}]
  /\ loose \subseteq Elements

NoFrame == [layers |-> {}, drawn |-> [e \in Elements |-> {}],
            place |-> [e \in Elements |-> CHOOSE p \in Place : TRUE],
            top |-> [s \in ScrollViews |-> 0]]

PresentInit ==
  /\ scene = NoFrame /\ waiting = FALSE
  /\ dirty = {} /\ chromeDirty = {} /\ moved = FALSE
  /\ phase = "idle" /\ jobs = {} /\ staged = {}
  /\ pendingDirty = {} /\ pendingChrome = {} /\ pendingPlacement = FALSE
  /\ previousLayers = {} /\ applied = FALSE /\ placements = Placements(NoFrame)
  /\ cached = {} /\ cachedBand = [e \in Elements |-> {}]
  /\ texture = [e \in Elements |-> NoTexture]
  /\ chrome = [s \in ScrollViews |-> "none"]
  /\ loose = {}

-----------------------------------------------------------------------------
(* The handoff.  present() owns its frame, so a commit made meanwhile      *)
(* commutes with it: frames are offered between two presents, and the      *)
(* facts of those offered before one present add up.                       *)

\* What presentation needs of a committed frame: the facts name every layer
\* that draws an element which changed or which it did not draw before, and
\* say when a layer appeared, vanished or moved.
Announced(f, content, moves, changed) ==
  /\ Root \in f.layers
  /\ \A l \in Elements \ f.layers : f.drawn[l] = {}
  /\ \A l \in f.layers : \A e \in f.drawn[l] :
       (e \in changed \/ e \notin scene.drawn[l]) => l \in content
  /\ Placements(f) # Placements(scene) => moves

\* What a frame does to the standing of a texture: some of what it draws looks
\* different now, and some has left a layer the facts do not name.
Outdated(l, f, content, changed) ==
  [texture[l] EXCEPT
     !.stale = @ \union (changed \cap texture[l].draws),
     !.left = IF l \in content THEN @
              ELSE @ \union ((scene.drawn[l] \ f.drawn[l]) \cap texture[l].draws)]

\* A frame is committed: "changed" elements look different than in the frame
\* before, and so does the chrome of the scroll views in "chromeChanged".
Offer(f, content, chromeFacts, moves, changed, chromeChanged) ==
  /\ phase = "idle"
  /\ scene' = f /\ waiting' = TRUE
  /\ dirty' = dirty \union content
  /\ chromeDirty' = chromeDirty \union chromeFacts
  /\ moved' = (moved \/ moves)
  /\ texture' = [l \in Elements |-> Outdated(l, f, content, changed)]
  /\ chrome' = [s \in ScrollViews |->
       IF s \in chromeChanged /\ chrome[s] # "none" THEN "wrong" ELSE chrome[s]]
  /\ UNCHANGED <<phase, jobs, staged, ledger, loose>>

-----------------------------------------------------------------------------
(* present()                                                               *)

\* Mutant: a scroll view whose band was left behind is not rasterized again.
NeedsContentOnce(l, pending) == l \in pending \/ l \notin cached

\* plan_raster and scroll_needs_raster: the layers whose content this frame
\* must rasterize.
NeedsContent(l, pending) ==
  \/ l \in pending
  \/ l \notin cached
  \/ l \in ScrollViews /\ scene.top[l] \notin cachedBand[l]

ContentJobs(pending) ==
  {[layer |-> l, kind |-> "content"] : l \in {m \in scene.layers : NeedsContent(m, pending)}}

ChromeJobs == {[layer |-> l, kind |-> "chrome"] : l \in scene.layers \cap ScrollViews}

\* The prepare half of present(): the facts of the frame join those earlier
\* failures left pending, and the jobs are planned.
Prepare ==
  /\ phase = "idle" /\ waiting
  /\ phase' = "raster" /\ waiting' = FALSE
  /\ dirty' = {} /\ chromeDirty' = {} /\ moved' = FALSE
  /\ pendingDirty' = pendingDirty \union dirty
  /\ pendingChrome' = pendingChrome \union chromeDirty
  /\ pendingPlacement' = (pendingPlacement \/ ~applied \/ moved)
  /\ jobs' = ContentJobs(pendingDirty') \union ChromeJobs
  /\ staged' = {}
  /\ UNCHANGED <<scene, previousLayers, applied, placements, cached, cachedBand, adapter>>

\* Plain layers come first, in paint order; then the scroll views, in the
\* order of a hash map, each content before chrome.
Ready(j) ==
  /\ j \in jobs
  /\ j.layer \in ScrollViews => \A k \in jobs : k.layer \in ScrollViews
  /\ j.layer \notin ScrollViews => \A k \in jobs :
       k.layer \notin ScrollViews => Rank[j.layer] <= Rank[k.layer]
  /\ j.kind = "chrome" => [j EXCEPT !.kind = "content"] \notin jobs

\* A chrome texture is drawn again when a fact asks for it or there is none.
Repaints(s) == s \in pendingChrome \/ chrome[s] = "none"

\* adapter.rasterize succeeds.
Rasterize(j) ==
  /\ phase = "raster" /\ Ready(j)
  /\ jobs' = jobs \ {j}
  /\ \/ /\ j.kind = "content"
        /\ texture' = [texture EXCEPT ![j.layer] =
             [held |-> TRUE, draws |-> scene.drawn[j.layer], stale |-> {}, left |-> {},
              band |-> IF j.layer \in ScrollViews THEN Band(scene.top[j.layer]) ELSE {}]]
        /\ staged' = staged \union {j.layer}
        /\ UNCHANGED chrome
     \/ /\ j.kind = "chrome"
        /\ chrome' = IF Repaints(j.layer) THEN [chrome EXCEPT ![j.layer] = "current"] ELSE chrome
        /\ UNCHANGED <<texture, staged>>
  /\ UNCHANGED <<handoff, phase, ledger, loose>>

\* Mutant: an early return forgets that the placements are old.
AbandonForgetsPlacement(touched) ==
  /\ phase' = "idle" /\ jobs' = {} /\ staged' = {}
  /\ loose' = loose \union staged \union touched
  /\ pendingPlacement' = FALSE
  /\ UNCHANGED <<handoff, pendingDirty, pendingChrome, previousLayers, applied, placements,
                 cached, cachedBand>>

\* What present() leaves when it returns early: the pending facts stay, the
\* ledger is as it was, and the textures already rasterized are in place.
Abandon(touched) ==
  /\ phase' = "idle" /\ jobs' = {} /\ staged' = {}
  /\ loose' = loose \union staged \union touched
  /\ UNCHANGED <<handoff, ledger>>

\* adapter.rasterize fails.  Vello retains a new texture before it renders into
\* it, so a failure leaves the old texture or a blank one.
RasterizeFails(j) ==
  /\ phase = "raster" /\ Ready(j)
  /\ \/ /\ j.kind = "content"
        /\ texture' \in {texture, [texture EXCEPT ![j.layer] = [NoTexture EXCEPT !.held = TRUE]]}
        /\ Abandon({j.layer})
        /\ UNCHANGED chrome
     \/ /\ j.kind = "chrome" /\ Repaints(j.layer)
        /\ chrome' \in {chrome, [chrome EXCEPT ![j.layer] = "wrong"]}
        /\ Abandon({})
        /\ UNCHANGED texture

\* The placement plan this present composites with.
Plan == IF pendingPlacement THEN Placements(scene) ELSE placements

Composite ==
  /\ phase = "raster" /\ jobs = {}
  /\ phase' = "commit"
  /\ UNCHANGED <<handoff, jobs, staged, ledger, adapter>>

CompositeFails ==
  /\ phase = "raster" /\ jobs = {}
  /\ Abandon({})
  /\ UNCHANGED <<texture, chrome>>

\* enforce_budget: every present composites all its layers in paint order, so
\* the least recently used entries are those painted first.
Kept(entries, room) ==
  {l \in entries : Cardinality({m \in entries : Rank[m] > Rank[l]}) < room}

\* Mutant: the backend keeps what the ledger dropped.
DiscardNothing(gone) == UNCHANGED <<texture, chrome>>

\* LayerPresentationAdapter::discard
Discard(gone) ==
  /\ texture' = [l \in Elements |-> IF l \in gone THEN NoTexture ELSE texture[l]]
  /\ chrome' = [s \in ScrollViews |-> IF s \in gone THEN "none" ELSE chrome[s]]

\* The commit half of present() and the enforce_budget call the adapters make
\* right after it.
Commit ==
  LET stale == previousLayers \ scene.layers
      entries == (cached \union staged) \ stale
      gone == stale \union (entries \ Kept(entries, Budget))
  IN  /\ phase = "commit"
      /\ phase' = "idle" /\ staged' = {}
      /\ cached' = Kept(entries, Budget)
      /\ cachedBand' = [l \in Elements |->
           IF l \notin cached' THEN {}
           ELSE IF l \in staged /\ l \in ScrollViews THEN Band(scene.top[l])
           ELSE cachedBand[l]]
      /\ Discard(gone)
      /\ loose' = (loose \ staged) \ gone
      /\ previousLayers' = scene.layers /\ applied' = TRUE
      /\ placements' = Plan
      /\ pendingDirty' = {} /\ pendingChrome' = {} /\ pendingPlacement' = FALSE
      /\ UNCHANGED <<handoff, jobs>>

-----------------------------------------------------------------------------
(* What the renderer does between two presents                             *)

\* MemoryPressure(Moderate): trim to the low watermark.
Trim ==
  LET gone == cached \ Kept(cached, LowBudget)
  IN  /\ phase = "idle" /\ gone # {}
      /\ cached' = cached \ gone
      /\ cachedBand' = [l \in Elements |-> IF l \in gone THEN {} ELSE cachedBand[l]]
      /\ Discard(gone)
      /\ loose' = loose \ gone
      /\ UNCHANGED <<handoff, phase, jobs, staged, pendingDirty, pendingChrome,
                     pendingPlacement, previousLayers, applied, placements>>

\* invalidate(), with the textures gone: resize, SurfaceLost, ContextLost.
Invalidate ==
  /\ phase = "idle"
  /\ cached' = {} /\ cachedBand' = [l \in Elements |-> {}]
  /\ previousLayers' = {} /\ placements' = Placements(NoFrame) /\ applied' = FALSE
  /\ pendingDirty' = {} /\ pendingChrome' = {} /\ pendingPlacement' = FALSE
  /\ Discard(Elements) /\ loose' = {}
  /\ UNCHANGED <<handoff, phase, jobs, staged>>

-----------------------------------------------------------------------------
(* What presentation promises                                              *)

\* What the frame draws on a layer is in the layer's texture, no element missing
\* (a hole) and none as it looked before; whatever else the texture draws has
\* left the layer since, in frames whose facts did not name it.
ShowsFrame(l) ==
  /\ scene.drawn[l] \subseteq texture[l].draws \ texture[l].stale
  /\ texture[l].draws \subseteq scene.drawn[l] \union texture[l].left

Covered(l) == l \in ScrollViews => scene.top[l] \in texture[l].band

\* Every frame that is composited finds on each layer all the frame draws there,
\* as it looks now, and a scroll view with a band that covers what is visible,
\* except a layer some abandoned frame had re-rasterized for scrolling alone: no
\* promotion, demotion, eviction, retry or coalescing loses a fact (#680, and
\* present()'s promise to keep the dirty facts of a frame that failed).  It is
\* not that a texture draws nothing else: an element promoted out of a layer
\* stays in that layer's texture, where it was and as it was, until a fact names
\* the layer, since a promotion dirties only the layer it opens
\* (capture_frame_layers adds the demoted, structural_changed only rebuilds the
\* placements).  Nothing but such leavers is left over, and AnnouncesChanges
\* says they are promotions.
LayersShowFrame ==
  phase = "commit" => \A l \in scene.layers \ (loose \ staged) : ShowsFrame(l) /\ Covered(l)

\* The placements a frame is composited with are its own, even when they were
\* kept from an earlier frame or an earlier one failed.
PlanIsCurrent == phase # "idle" => Plan = Placements(scene)

\* The ledger never vouches for a texture the adapter does not hold or for a
\* band it does not cover, and what the adapter holds beyond the ledger comes
\* from abandoned frames: nothing committed leaks.
LedgerMatchesAdapter ==
  /\ \A l \in cached : texture[l].held
  /\ phase = "idle" => \A l \in Elements : texture[l].held => l \in cached \union loose
  /\ \A l \in cached \ (loose \union staged) : texture[l].band = cachedBand[l]

-----------------------------------------------------------------------------
Environment ==
  \E f \in Frame, content, chromeFacts, changed \in SUBSET Elements,
     moves \in BOOLEAN, chromeChanged \in SUBSET ScrollViews :
    /\ Announced(f, content, moves, changed)
    /\ Offer(f, content, chromeFacts, moves, changed, chromeChanged)

PresentStep ==
  \/ Prepare
  \/ \E j \in jobs : Rasterize(j) \/ RasterizeFails(j)
  \/ Composite \/ CompositeFails
  \/ Commit
  \/ Trim
  \/ Invalidate

\* The transaction on its own, under any core that keeps Announced.
PresentSpec == PresentInit /\ [][Environment \/ PresentStep]_presentVars

=============================================================================
