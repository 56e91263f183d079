------------------------- MODULE LayerFramesProofs -------------------------
(***************************************************************************)
(* Proofs about the two layer modules.                                     *)
(*                                                                         *)
(* First LayerPresentation, for any element tree, any budget and any core  *)
(* that announces its changes: the type invariant, LayersShowFrame,        *)
(* PlanIsCurrent and LedgerMatchesAdapter.  The three are not inductive:   *)
(* they speak of a frame that is composited, while what makes them true    *)
(* was planned when the frame was prepared and goes back to frames that    *)
(* failed before.  The invariant has a part for each link of that argument.*)
(*                                                                         *)
(* Then LayerFrames: for every element tree, the facts the core derives    *)
(* for a frame announce everything that changed (AnnouncesChanges), so the *)
(* core and the presentation transaction together keep what the first part *)
(* shows of the transaction alone.  What looks different is marked by the  *)
(* setter that changed it and stays marked until the lowering; an element  *)
(* whose nearest layer is another one than in the last frame has, on its   *)
(* way up, a layer that was promoted, which is marked, or one that was     *)
(* demoted, which capture_frame_layers adds.                               *)
(* What leaves a layer the facts do not name was promoted out of it        *)
(* (LeavesByPromotion): a removal marks the lowest ancestor that stays.    *)
(***************************************************************************)
EXTENDS LayerFrames, TLAPS, WellFoundedInduction

-----------------------------------------------------------------------------
(* The presentation transaction                                            *)

\* What the phases of a present leave behind; an element that is no layer of the
\* frame draws nothing of its own.
PhaseInv ==
  /\ \A l \in Elements \ scene.layers : scene.drawn[l] = {}
  /\ phase # "raster" => jobs = {}
  /\ phase = "idle" => staged = {}
  /\ phase # "idle" => dirty = {} /\ ~moved /\ (applied \/ pendingPlacement)
  /\ \A j \in jobs : j.layer \in scene.layers

\* A cache entry that no abandoned frame has rasterized since stands for a
\* texture with its band; unless a fact, pending or on its way, names the layer,
\* the texture shows it as it is.  Entries belong to layers of the last frame that
\* was presented: the commit drops those of the others.
CacheInv ==
  /\ \A l \in cached : texture[l].held
  /\ \A l \in cached \ (loose \union staged) :
       /\ texture[l].band = cachedBand[l]
       /\ l \notin dirty \union pendingDirty => ShowsFrame(l)
  /\ cached \subseteq previousLayers
  /\ \A l \in Elements \ ScrollViews : cachedBand[l] = {}

\* A layer rasterized by this present shows the frame it is given.
StagedInv ==
  \A l \in staged :
    /\ l \in scene.layers
    /\ texture[l].held /\ ShowsFrame(l)
    /\ texture[l].band = IF l \in ScrollViews THEN Band(scene.top[l]) ELSE {}

\* A layer this present has to rasterize is rasterized or a job.
JobsInv ==
  phase # "idle" =>
    \A l \in scene.layers :
      l \in staged \/ [layer |-> l, kind |-> "content"] \in jobs \/ ~NeedsContent(l, pendingDirty)

\* A texture without a cache entry was rasterized by a present that failed or
\* has not ended.
HeldInv == \A l \in Elements : texture[l].held => l \in cached \union loose \union staged

\* The retained placements are those of the newest frame, or there is a fact
\* that says they are not.
PlacementInv == moved \/ pendingPlacement \/ ~applied \/ placements = Placements(scene)

Inv == PhaseInv /\ CacheInv /\ StagedInv /\ JobsInv /\ HeldInv /\ PlacementInv

-----------------------------------------------------------------------------
LEMMA KeptIsPart == ASSUME NEW entries, NEW room PROVE Kept(entries, room) \subseteq entries
  BY DEF Kept

\* The band around a top covers that top.
LEMMA BandCovers == ASSUME NEW top \in Tops PROVE top \in Band(top) /\ Band(top) \subseteq Tops
  BY LayerTreeAssumption DEF Band, Tops

LEMMA NoFrameIsFrame == NoFrame \in Frame
  <1>1. PICK m \in Matrices : TRUE
    BY LayerTreeAssumption
  <1>2. [matrix |-> m, scroll |-> [s \in ScrollViews |-> 0]] \in Place
    BY LayerTreeAssumption DEF Place, Tops
  <1>3. (CHOOSE p \in Place : TRUE) \in Place
    BY <1>2
  <1>4. 0 \in Tops
    BY LayerTreeAssumption DEF Tops
  <1> QED
    BY <1>3, <1>4 DEF NoFrame, Frame

-----------------------------------------------------------------------------
(* Initially                                                               *)

LEMMA InitEstablishes == PresentInit => TypeOK /\ Inv
  <1> SUFFICES ASSUME PresentInit PROVE TypeOK /\ Inv
    OBVIOUS
  <1>1. scene = NoFrame /\ scene \in Frame
    BY NoFrameIsFrame DEF PresentInit
  <1>2. TypeOK
    BY <1>1 DEF PresentInit, TypeOK, NoTexture, Texture
  <1>3. PhaseInv
    BY <1>1 DEF PresentInit, PhaseInv, NoFrame
  <1>4. CacheInv /\ StagedInv /\ JobsInv /\ HeldInv /\ PlacementInv
    BY <1>1 DEF PresentInit, CacheInv, StagedInv, JobsInv, HeldInv, PlacementInv, NoTexture
  <1> QED
    BY <1>2, <1>3, <1>4 DEF Inv

-----------------------------------------------------------------------------
(* A frame is offered                                                      *)

\* A frame changes the standing of a texture, not the texture.
LEMMA OutdatedTexture ==
  ASSUME TypeOK, NEW l \in Elements, NEW f \in Frame,
         NEW content \in SUBSET Elements, NEW changed \in SUBSET Elements
  PROVE  /\ Outdated(l, f, content, changed) \in Texture
         /\ Outdated(l, f, content, changed).held = texture[l].held
         /\ Outdated(l, f, content, changed).draws = texture[l].draws
         /\ Outdated(l, f, content, changed).band = texture[l].band
  <1> DEFINE old == texture[l].stale \union (changed \cap texture[l].draws)
             new == IF l \in content THEN texture[l].left
                    ELSE texture[l].left \union ((scene.drawn[l] \ f.drawn[l]) \cap texture[l].draws)
  <1>1. texture[l] \in Texture
    BY DEF TypeOK
  <1>2. old \in SUBSET Elements /\ new \in SUBSET Elements
    BY <1>1 DEF Texture
  <1>3. Outdated(l, f, content, changed) = [texture[l] EXCEPT !.stale = old, !.left = new]
    BY DEF Outdated
  <1> HIDE DEF old, new
  <1> QED
    BY <1>1, <1>2, <1>3 DEF Texture

\* What the frame draws on a layer its facts do not name is on the texture as it
\* was, or has changed; what it does not draw there any more has left.
LEMMA OutdatedStanding ==
  ASSUME TypeOK, NEW l \in Elements, NEW f \in Frame,
         NEW content \in SUBSET Elements, NEW changed \in SUBSET Elements, l \notin content
  PROVE  /\ Outdated(l, f, content, changed).stale =
              texture[l].stale \union (changed \cap texture[l].draws)
         /\ Outdated(l, f, content, changed).left =
              texture[l].left \union ((scene.drawn[l] \ f.drawn[l]) \cap texture[l].draws)
  <1>1. texture[l] \in Texture
    BY DEF TypeOK
  <1> QED
    BY <1>1 DEF Texture, Outdated

\* What the facts leave out still looks as it did.
LEMMA OfferKeepsShown ==
  ASSUME TypeOK, NEW f \in Frame,
         NEW content \in SUBSET Elements, NEW chromeFacts \in SUBSET Elements,
         NEW moves \in BOOLEAN, NEW changed \in SUBSET Elements,
         NEW chromeChanged \in SUBSET ScrollViews,
         Announced(f, content, moves, changed),
         Offer(f, content, chromeFacts, moves, changed, chromeChanged),
         NEW l \in Elements, l \notin content, ShowsFrame(l)
  PROVE  ShowsFrame(l)'
  <1>1. texture'[l] = Outdated(l, f, content, changed) /\ scene' = f
    BY DEF Offer
  <1>2. /\ texture'[l].draws = texture[l].draws
        /\ texture'[l].stale = texture[l].stale \union (changed \cap texture[l].draws)
        /\ texture'[l].left = texture[l].left
             \union ((scene.drawn[l] \ f.drawn[l]) \cap texture[l].draws)
    BY <1>1, OutdatedTexture, OutdatedStanding
  <1>3. ASSUME NEW e \in f.drawn[l]
        PROVE  e \in texture'[l].draws \ texture'[l].stale
    <2>1. l \in f.layers
      BY <1>3 DEF Announced
    <2>2. e \notin changed /\ e \in scene.drawn[l]
      BY <1>3, <2>1 DEF Announced
    <2> QED
      BY <1>2, <2>2 DEF ShowsFrame
  <1>4. ASSUME NEW e \in texture'[l].draws
        PROVE  e \in f.drawn[l] \union texture'[l].left
    BY <1>2, <1>4 DEF ShowsFrame
  <1> QED
    BY <1>1, <1>3, <1>4 DEF ShowsFrame

LEMMA OfferPreserves ==
  ASSUME TypeOK, Inv, NEW f \in Frame,
         NEW content \in SUBSET Elements, NEW chromeFacts \in SUBSET Elements,
         NEW moves \in BOOLEAN, NEW changed \in SUBSET Elements,
         NEW chromeChanged \in SUBSET ScrollViews,
         Announced(f, content, moves, changed),
         Offer(f, content, chromeFacts, moves, changed, chromeChanged)
  PROVE  TypeOK' /\ Inv'
  <1>0. \A l \in Elements \ content : ShowsFrame(l) => ShowsFrame(l)'
    BY ONLY OfferKeepsShown, TypeOK, Announced(f, content, moves, changed),
            Offer(f, content, chromeFacts, moves, changed, chromeChanged), Zenon
  <1> USE DEF Offer, ledger, Inv
  <1>1. \A l \in Elements : /\ texture'[l].held = texture[l].held
                            /\ texture'[l].band = texture[l].band
    <2> SUFFICES ASSUME NEW l \in Elements
                 PROVE  texture'[l].held = texture[l].held /\ texture'[l].band = texture[l].band
      OBVIOUS
    <2>1. texture'[l] = Outdated(l, f, content, changed)
      OBVIOUS
    <2> QED
      BY <2>1, OutdatedTexture
  <1>2. TypeOK'
    <2>1. texture' \in [Elements -> Texture]
      <3>1. ASSUME NEW l \in Elements
            PROVE  Outdated(l, f, content, changed) \in Texture
        BY OutdatedTexture
      <3> QED
        BY <3>1
    <2>2. chrome' \in [ScrollViews -> {"none", "current", "wrong"}]
      BY DEF TypeOK
    <2>3. scene' \in Frame /\ waiting' \in BOOLEAN /\ moved' \in BOOLEAN
          /\ dirty' \subseteq Elements /\ chromeDirty' \subseteq Elements
      BY DEF TypeOK
    <2> QED
      BY <2>1, <2>2, <2>3 DEF TypeOK
  <1>3. PhaseInv'
    BY DEF PhaseInv, Announced
  <1>4. CacheInv'
    <2>1. \A l \in cached' : texture'[l].held
      BY <1>1 DEF TypeOK, CacheInv
    <2>2. ASSUME NEW l \in cached' \ (loose' \union staged')
          PROVE  /\ texture'[l].band = cachedBand'[l]
                 /\ l \notin dirty' \union pendingDirty' => ShowsFrame(l)'
      <3>1. l \in Elements /\ l \in cached \ (loose \union staged)
        BY DEF TypeOK
      <3>2. texture'[l].band = cachedBand'[l]
        BY <1>1, <3>1 DEF CacheInv
      <3>3. ASSUME l \notin dirty' \union pendingDirty' PROVE ShowsFrame(l)'
        <4>1. ShowsFrame(l) /\ l \notin content
          BY <3>1, <3>3 DEF CacheInv
        <4> QED
          BY <1>0, <3>1, <4>1, Zenon
      <3> QED
        BY <3>2, <3>3
    <2>3. cached' \subseteq previousLayers' /\ \A l \in Elements \ ScrollViews : cachedBand'[l] = {}
      BY DEF CacheInv
    <2> QED
      BY <2>1, <2>2, <2>3 DEF CacheInv
  <1>5. StagedInv' /\ JobsInv'
    BY DEF PhaseInv, StagedInv, JobsInv
  <1>6. HeldInv'
    BY <1>1 DEF HeldInv
  <1>7. PlacementInv'
    BY DEF PlacementInv, Announced
  <1> QED
    BY <1>2, <1>3, <1>4, <1>5, <1>6, <1>7

-----------------------------------------------------------------------------
(* A present, one lemma for each of its actions                            *)

LEMMA PreparePreserves == ASSUME TypeOK, Inv, Prepare PROVE TypeOK' /\ Inv'
  <1> USE DEF Prepare, adapter, Inv
  <1>1. jobs' \subseteq Job /\ \A j \in jobs' : j.layer \in scene.layers
    <2>1. scene.layers \subseteq Elements
      BY DEF TypeOK, Frame
    <2> QED
      BY <2>1 DEF ContentJobs, ChromeJobs, Job
  <1>2. TypeOK'
    BY <1>1 DEF TypeOK
  <1>3. PhaseInv'
    BY <1>1 DEF PhaseInv, TypeOK
  <1>4. CacheInv' /\ StagedInv'
    BY DEF CacheInv, StagedInv, ShowsFrame, PhaseInv
  <1>5. JobsInv'
    <2> SUFFICES ASSUME NEW l \in scene.layers, NeedsContent(l, pendingDirty')
                 PROVE  [layer |-> l, kind |-> "content"] \in jobs'
      BY DEF JobsInv, NeedsContent
    <2>1. [layer |-> l, kind |-> "content"] \in ContentJobs(pendingDirty')
      BY DEF ContentJobs
    <2> QED
      BY <2>1
  <1>6. HeldInv' /\ PlacementInv'
    BY DEF HeldInv, PlacementInv, PhaseInv, TypeOK
  <1> QED
    BY <1>2, <1>3, <1>4, <1>5, <1>6

\* A content job puts a current texture in place, and the job is done.
LEMMA RasterizePreserves ==
  ASSUME TypeOK, Inv, NEW j \in jobs, Rasterize(j) PROVE TypeOK' /\ Inv'
  <1> USE DEF Rasterize, handoff, ledger, Inv
  <1>1. j.layer \in Elements /\ j.layer \in scene.layers /\ phase = "raster"
    BY DEF TypeOK, Job, PhaseInv
  <1>2. PhaseInv'
    BY DEF PhaseInv
  <1>3. PlacementInv'
    BY DEF PlacementInv
  <1>4. CASE j.kind = "chrome"
    <2>1. UNCHANGED <<texture, staged>>
      BY <1>4
    <2>2. chrome' \in [ScrollViews -> {"none", "current", "wrong"}]
      BY <1>4 DEF TypeOK
    <2>3. TypeOK'
      BY <2>1, <2>2 DEF TypeOK
    <2>4. CacheInv' /\ StagedInv' /\ HeldInv'
      BY <2>1 DEF CacheInv, StagedInv, HeldInv, ShowsFrame
    <2>5. JobsInv'
      <3>1. ASSUME NEW l PROVE [layer |-> l, kind |-> "content"] # j
        BY <1>4
      <3>2. ASSUME NEW l, [layer |-> l, kind |-> "content"] \in jobs
            PROVE  [layer |-> l, kind |-> "content"] \in jobs'
        BY <3>1, <3>2
      <3> QED
        BY <1>1, <2>1, <3>2 DEF JobsInv, NeedsContent
    <2> QED
      BY <1>2, <1>3, <2>3, <2>4, <2>5
  <1>5. CASE j.kind = "content"
    <2> DEFINE new == [held |-> TRUE, draws |-> scene.drawn[j.layer], stale |-> {}, left |-> {},
                       band |-> IF j.layer \in ScrollViews THEN Band(scene.top[j.layer]) ELSE {}]
    <2>1. /\ texture' = [texture EXCEPT ![j.layer] = new]
          /\ staged' = staged \union {j.layer} /\ UNCHANGED chrome
      BY <1>5
    <2>2. new \in Texture
      BY <1>1 DEF TypeOK, Frame, Texture, Band
    <2> HIDE DEF new
    <2>3. TypeOK'
      <3>1. texture' \in [Elements -> Texture]
        BY <1>1, <2>1, <2>2 DEF TypeOK
      <3>2. staged' \subseteq Elements /\ jobs' \subseteq Job
        BY <1>1, <2>1 DEF TypeOK
      <3> QED
        BY <2>1, <3>1, <3>2 DEF TypeOK
    <2>4. texture'[j.layer] = new /\ \A l \in Elements \ {j.layer} : texture'[l] = texture[l]
      BY <1>1, <2>1 DEF TypeOK
    <2>5. new.held /\ ShowsFrame(j.layer)'
      BY <2>4 DEF new, ShowsFrame
    <2>6. CacheInv'
      BY <2>1, <2>4, <2>5 DEF CacheInv, ShowsFrame, TypeOK
    <2>7. StagedInv'
      <3> SUFFICES ASSUME NEW l \in staged'
                   PROVE  /\ l \in scene.layers /\ texture'[l].held /\ ShowsFrame(l)'
                          /\ texture'[l].band = IF l \in ScrollViews THEN Band(scene.top[l]) ELSE {}
        BY DEF StagedInv, Band
      <3>1. CASE l = j.layer
        BY <1>1, <2>4, <2>5, <3>1 DEF new
      <3>2. CASE l # j.layer
        BY <2>1, <2>4, <3>2 DEF StagedInv, ShowsFrame, TypeOK
      <3> QED
        BY <3>1, <3>2
    <2>8. JobsInv'
      <3>1. ASSUME NEW l, [layer |-> l, kind |-> "content"] \in jobs
            PROVE  l \in staged' \/ [layer |-> l, kind |-> "content"] \in jobs'
        <4>1. CASE [layer |-> l, kind |-> "content"] = j
          <5>1. l = j.layer
            BY <4>1
          <5> QED
            BY <2>1, <5>1
        <4>2. CASE [layer |-> l, kind |-> "content"] # j
          BY <3>1, <4>2
        <4> QED
          BY <4>1, <4>2
      <3> QED
        BY <1>1, <2>1, <3>1 DEF JobsInv, NeedsContent
    <2>9. HeldInv'
      BY <2>1, <2>4 DEF HeldInv
    <2> QED
      BY <1>2, <1>3, <2>3, <2>6, <2>7, <2>8, <2>9
  <1> QED
    BY <1>4, <1>5

\* Leaving a present early, with the textures it put in place marked as loose.
LEMMA AbandonPreserves ==
  ASSUME TypeOK, Inv, NEW hit \in SUBSET Elements, Abandon(hit),
         texture' \in [Elements -> Texture],
         chrome' \in [ScrollViews -> {"none", "current", "wrong"}],
         \A l \in Elements \ hit : texture'[l] = texture[l],
         \A l \in hit : texture[l].held => texture'[l].held
  PROVE  TypeOK' /\ Inv'
  <1> USE DEF Abandon, handoff, ledger, Inv
  <1>1. TypeOK'
    BY DEF TypeOK
  <1>2. PhaseInv' /\ StagedInv' /\ JobsInv' /\ PlacementInv'
    BY DEF PhaseInv, StagedInv, JobsInv, PlacementInv
  <1>3. CacheInv'
    BY DEF CacheInv, ShowsFrame, TypeOK
  <1>4. HeldInv'
    BY DEF HeldInv
  <1> QED
    BY <1>1, <1>2, <1>3, <1>4

LEMMA RasterizeFailsPreserves ==
  ASSUME TypeOK, Inv, NEW j \in jobs, RasterizeFails(j) PROVE TypeOK' /\ Inv'
  <1>1. j.layer \in Elements
    BY DEF TypeOK, Job
  <1>2. CASE j.kind = "content"
    <2> DEFINE blank == [NoTexture EXCEPT !.held = TRUE]
    <2>1. blank \in Texture /\ blank.held
      BY DEF NoTexture, Texture
    <2> HIDE DEF blank
    <2>2. /\ texture' \in {texture, [texture EXCEPT ![j.layer] = blank]}
          /\ Abandon({j.layer}) /\ UNCHANGED chrome
      BY <1>2 DEF RasterizeFails, blank
    <2>3. texture' \in [Elements -> Texture]
      BY <1>1, <2>1, <2>2 DEF TypeOK
    <2>4. /\ \A l \in Elements \ {j.layer} : texture'[l] = texture[l]
          /\ texture[j.layer].held => texture'[j.layer].held
      BY <1>1, <2>1, <2>2 DEF TypeOK
    <2> QED
      BY <1>1, <2>2, <2>3, <2>4, AbandonPreserves DEF TypeOK
  <1>3. CASE j.kind = "chrome"
    <2>1. /\ chrome' \in {chrome, [chrome EXCEPT ![j.layer] = "wrong"]}
          /\ Abandon({}) /\ UNCHANGED texture
      BY <1>3 DEF RasterizeFails
    <2>2. chrome' \in [ScrollViews -> {"none", "current", "wrong"}]
      BY <2>1 DEF TypeOK
    <2> QED
      BY <2>1, <2>2, AbandonPreserves DEF TypeOK
  <1> QED
    BY <1>2, <1>3 DEF RasterizeFails

LEMMA CompositePreserves ==
  ASSUME TypeOK, Inv, Composite \/ CompositeFails PROVE TypeOK' /\ Inv'
  <1>1. CASE CompositeFails
    BY <1>1, AbandonPreserves DEF CompositeFails, TypeOK
  <1>2. CASE Composite
    <2> USE <1>2 DEF Composite, handoff, ledger, adapter, Inv
    <2>1. TypeOK'
      BY DEF TypeOK
    <2>2. PhaseInv' /\ CacheInv' /\ StagedInv'
      BY DEF PhaseInv, CacheInv, StagedInv, ShowsFrame, Band
    <2>3. JobsInv' /\ HeldInv' /\ PlacementInv'
      BY DEF JobsInv, NeedsContent, HeldInv, PlacementInv
    <2> QED
      BY <2>1, <2>2, <2>3
  <1> QED
    BY <1>1, <1>2

\* The ledger commits to what this present rasterized; what it drops, the adapter
\* drops.
LEMMA CommitPreserves == ASSUME TypeOK, Inv, Commit PROVE TypeOK' /\ Inv'
  <1> USE DEF Inv
  <1> DEFINE old == previousLayers \ scene.layers
             entries == (cached \union staged) \ old
             gone == old \union (entries \ Kept(entries, Budget))
  <1>1. /\ phase = "commit" /\ phase' = "idle" /\ staged' = {}
        /\ cached' = Kept(entries, Budget)
        /\ cachedBand' = [l \in Elements |->
             IF l \notin cached' THEN {}
             ELSE IF l \in staged /\ l \in ScrollViews THEN Band(scene.top[l])
             ELSE cachedBand[l]]
        /\ Discard(gone)
        /\ loose' = (loose \ staged) \ gone
        /\ previousLayers' = scene.layers /\ applied' = TRUE
        /\ placements' = Plan
        /\ pendingDirty' = {} /\ pendingChrome' = {} /\ pendingPlacement' = FALSE
        /\ UNCHANGED <<scene, waiting, dirty, chromeDirty, moved, jobs>>
    BY DEF Commit, handoff
  <1>2. cached' \subseteq entries /\ entries \cap gone = entries \ cached'
    BY <1>1, KeptIsPart
  <1>3. /\ cached' \subseteq (cached \union staged) \ gone
        /\ (cached \union staged) \ gone \subseteq cached'
    BY <1>1, <1>2
  <1>12. cached' \subseteq scene.layers
    BY <1>2 DEF CacheInv, StagedInv
  <1> HIDE DEF old, entries, gone
  <1>4. jobs = {} /\ dirty = {} /\ ~moved /\ (applied \/ pendingPlacement)
    BY <1>1 DEF PhaseInv
  <1>5. \A l \in Elements : texture'[l] = IF l \in gone THEN NoTexture ELSE texture[l]
    BY <1>1 DEF Discard
  <1>6. TypeOK'
    <2>1. texture' \in [Elements -> Texture]
      BY <1>1 DEF Discard, TypeOK, NoTexture, Texture
    <2>2. chrome' \in [ScrollViews -> {"none", "current", "wrong"}]
      BY <1>1 DEF Discard, TypeOK
    <2>3. cachedBand' \in [Elements -> SUBSET Tops]
      BY <1>1 DEF TypeOK, Band
    <2>4. cached' \subseteq Elements /\ loose' \subseteq Elements /\ previousLayers' \subseteq Elements
      BY <1>1, <1>3 DEF TypeOK, Frame
    <2> QED
      BY <1>1, <2>1, <2>2, <2>3, <2>4 DEF TypeOK
  <1>7. PhaseInv'
    BY <1>1, <1>4 DEF PhaseInv
  <1>8. CacheInv'
    <2>1. ASSUME NEW l \in cached'
          PROVE  l \in Elements /\ texture'[l] = texture[l] /\ texture[l].held
      BY <1>3, <1>5 DEF TypeOK, CacheInv, StagedInv
    <2>2. ASSUME NEW l \in cached' \ (loose' \union staged'), l \in staged
          PROVE  texture'[l].band = cachedBand'[l] /\ ShowsFrame(l)'
      <3>1. l \in Elements /\ texture'[l] = texture[l]
        BY <2>1
      <3>2. cachedBand'[l] = IF l \in ScrollViews THEN Band(scene.top[l]) ELSE {}
        BY <1>1, <2>2, <3>1 DEF CacheInv
      <3> QED
        BY <1>1, <2>2, <3>1, <3>2 DEF StagedInv, ShowsFrame
    <2>3. ASSUME NEW l \in cached' \ (loose' \union staged'), l \notin staged
          PROVE  texture'[l].band = cachedBand'[l] /\ ShowsFrame(l)'
      <3>1. l \in Elements /\ texture'[l] = texture[l]
        BY <2>1
      <3>2. l \in cached \ (loose \union staged)
        BY <1>1, <1>3, <2>3
      <3>3. texture'[l].band = cachedBand'[l]
        BY <1>1, <2>3, <3>1, <3>2 DEF CacheInv
      <3>4. ShowsFrame(l)
        <4>1. CASE l \in scene.layers
          BY <1>1, <1>4, <2>3, <3>2, <4>1 DEF JobsInv, NeedsContent, CacheInv
        <4>2. CASE l \notin scene.layers
          BY <1>12, <2>3, <4>2
        <4> QED
          BY <4>1, <4>2
      <3> QED
        BY <1>1, <3>1, <3>3, <3>4 DEF ShowsFrame
    <2>4. \A l \in Elements \ ScrollViews : cachedBand'[l] = {}
      BY <1>1 DEF CacheInv
    <2> QED
      BY <1>1, <1>12, <2>1, <2>2, <2>3, <2>4 DEF CacheInv
  <1>9. StagedInv' /\ JobsInv'
    BY <1>1 DEF StagedInv, JobsInv
  <1>10. HeldInv'
    BY <1>1, <1>3, <1>5 DEF HeldInv, NoTexture
  <1>11. PlacementInv'
    BY <1>1, <1>4 DEF PlacementInv, Plan
  <1> QED
    BY <1>6, <1>7, <1>8, <1>9, <1>10, <1>11

\* Between two presents entries and their textures go together.
LEMMA DropPreserves ==
  ASSUME TypeOK, Inv, Trim \/ Invalidate PROVE TypeOK' /\ Inv'
  <1> USE DEF Inv
  <1> DEFINE gone == IF Trim THEN cached \ Kept(cached, LowBudget) ELSE Elements
  <1>1. /\ phase = "idle" /\ UNCHANGED <<handoff, phase, jobs, staged>>
        /\ cached' = cached \ gone /\ Discard(gone) /\ loose' = loose \ gone
        /\ cachedBand' = [l \in Elements |-> IF l \in gone THEN {} ELSE cachedBand[l]]
    BY DEF Trim, Invalidate, TypeOK
  <1>2. \/ UNCHANGED <<pendingDirty, pendingChrome, pendingPlacement, previousLayers, applied,
                       placements>>
        \/ /\ cached' = {} /\ applied' = FALSE
           /\ pendingDirty' = {} /\ pendingChrome' = {} /\ pendingPlacement' = FALSE
           /\ previousLayers' = {}
    BY DEF Trim, Invalidate
  <1> HIDE DEF gone
  <1>3. \A l \in Elements : texture'[l] = IF l \in gone THEN NoTexture ELSE texture[l]
    BY <1>1 DEF Discard
  <1>4. TypeOK'
    <2>1. texture' \in [Elements -> Texture]
      BY <1>1 DEF Discard, TypeOK, NoTexture, Texture
    <2>2. chrome' \in [ScrollViews -> {"none", "current", "wrong"}]
      BY <1>1 DEF Discard, TypeOK
    <2>3. cachedBand' \in [Elements -> SUBSET Tops]
      BY <1>1 DEF TypeOK
    <2> QED
      BY <1>1, <1>2, <2>1, <2>2, <2>3 DEF TypeOK, handoff
  <1>5. PhaseInv' /\ StagedInv' /\ JobsInv'
    BY <1>1 DEF PhaseInv, StagedInv, JobsInv, handoff
  <1>6. CacheInv'
    BY <1>1, <1>2, <1>3 DEF CacheInv, PhaseInv, ShowsFrame, TypeOK, handoff
  <1>7. HeldInv'
    BY <1>1, <1>3 DEF HeldInv, NoTexture, PhaseInv
  <1>8. PlacementInv'
    BY <1>1, <1>2 DEF PlacementInv, handoff
  <1> QED
    BY <1>4, <1>5, <1>6, <1>7, <1>8

-----------------------------------------------------------------------------
(* The theorems                                                            *)

LEMMA StepPreserves ==
  TypeOK /\ Inv /\ [Environment \/ PresentStep]_presentVars => TypeOK' /\ Inv'
  <1> SUFFICES ASSUME TypeOK, Inv, [Environment \/ PresentStep]_presentVars
               PROVE  TypeOK' /\ Inv'
    OBVIOUS
  <1>1. CASE Environment
    BY <1>1, OfferPreserves DEF Environment
  <1>2. CASE Prepare
    BY <1>2, PreparePreserves
  <1>3. CASE \E j \in jobs : Rasterize(j) \/ RasterizeFails(j)
    BY <1>3, RasterizePreserves, RasterizeFailsPreserves
  <1>4. CASE Composite \/ CompositeFails
    BY <1>4, CompositePreserves
  <1>5. CASE Commit
    BY <1>5, CommitPreserves
  <1>6. CASE Trim \/ Invalidate
    BY <1>6, DropPreserves
  <1>7. CASE UNCHANGED presentVars
    <2> USE <1>7 DEF presentVars, handoff, ledger, adapter
    <2>1. TypeOK'
      BY DEF TypeOK
    <2>2. PhaseInv' /\ CacheInv' /\ StagedInv'
      BY DEF Inv, PhaseInv, CacheInv, StagedInv, ShowsFrame, Band
    <2>3. JobsInv' /\ HeldInv' /\ PlacementInv'
      BY DEF Inv, JobsInv, NeedsContent, HeldInv, PlacementInv
    <2> QED
      BY <2>1, <2>2, <2>3 DEF Inv
  <1> QED
    BY <1>1, <1>2, <1>3, <1>4, <1>5, <1>6, <1>7 DEF PresentStep

LEMMA PresentInvariance == PresentSpec => [](TypeOK /\ Inv)
  BY InitEstablishes, StepPreserves, PTL DEF PresentSpec

\* The type invariant of the transaction (LayerPresentation and LayerCache).
THEOREM PresentTypeCorrect == PresentSpec => []TypeOK
  BY PresentInvariance, PTL

LEMMA InvImpliesShown == TypeOK /\ Inv => LayersShowFrame
  <1> SUFFICES ASSUME TypeOK, Inv, phase = "commit",
                      NEW l \in scene.layers \ (loose \ staged)
               PROVE  ShowsFrame(l) /\ Covered(l)
    BY DEF LayersShowFrame
  <1> USE DEF Inv
  <1>1. l \in Elements /\ (l \in ScrollViews => scene.top[l] \in Tops)
    BY DEF TypeOK, Frame
  <1>2. CASE l \in staged
    BY <1>1, <1>2, BandCovers DEF StagedInv, Covered
  <1>3. CASE l \notin staged
    <2>1. jobs = {} /\ dirty = {}
      BY DEF PhaseInv
    <2>2. ~NeedsContent(l, pendingDirty)
      BY <1>3, <2>1 DEF JobsInv
    <2>3. l \in cached \ (loose \union staged) /\ l \notin dirty \union pendingDirty
      BY <1>3, <2>1, <2>2 DEF NeedsContent
    <2>4. ShowsFrame(l) /\ texture[l].band = cachedBand[l]
      BY <2>3 DEF CacheInv
    <2> QED
      BY <2>2, <2>4 DEF Covered, NeedsContent
  <1> QED
    BY <1>2, <1>3

\* Every composited frame finds on its layers all it draws there, as it looks now,
\* whatever was promoted, demoted, evicted, retried or coalesced before it; what
\* else a texture draws has left the layer in a frame that did not name it
\* (present()).
THEOREM PresentShowsFrame == PresentSpec => []LayersShowFrame
  BY PresentInvariance, InvImpliesShown, PTL

LEMMA InvImpliesPlan == Inv => PlanIsCurrent
  BY DEF Inv, PhaseInv, PlacementInv, PlanIsCurrent, Plan

\* Every composite uses the placements of its own frame (the retained placement
\* plan of present()).
THEOREM PresentPlan == PresentSpec => []PlanIsCurrent
  BY PresentInvariance, InvImpliesPlan, PTL

LEMMA InvImpliesLedger == Inv => LedgerMatchesAdapter
  BY DEF Inv, CacheInv, HeldInv, PhaseInv, LedgerMatchesAdapter

\* The ledger of LayerCache vouches only for textures the adapter holds, and no
\* committed texture leaks.
THEOREM PresentLedger == PresentSpec => []LedgerMatchesAdapter
  BY PresentInvariance, InvImpliesLedger, PTL

-----------------------------------------------------------------------------
(* The tree                                                                *)

LEMMA AboveIsUpward ==
  ASSUME NEW e \in Elements
  PROVE  /\ Above[e] \subseteq Elements /\ e \in Above[e]
         /\ \A a \in Above[e] \ {Root} : Parent[a] \in Above[e]
         /\ \A S \in Upward : e \in S => Above[e] \subseteq S
  <1>1. Above[e] = {a \in Elements : \A S \in Upward : e \in S => a \in S}
    BY DEF Above
  <1>2. \A a \in Above[e] \ {Root} : Parent[a] \in Elements
    BY <1>1, CompositingAssumption
  <1> QED
    BY <1>1, <1>2 DEF Upward

LEMMA AboveTransitive ==
  ASSUME NEW e \in Elements, NEW a \in Above[e] PROVE Above[a] \subseteq Above[e]
  <1>1. Above[e] \in Upward /\ a \in Elements
    BY AboveIsUpward DEF Upward
  <1> QED
    BY <1>1, AboveIsUpward

\* Whoever is above an element was there before it in paint order.
LEMMA AboveRank ==
  ASSUME NEW e \in Elements, NEW a \in Above[e] PROVE a = e \/ Rank[a] < Rank[e]
  <1> DEFINE S == {b \in Elements : b = e \/ Rank[b] < Rank[e]}
  <1>1. ASSUME NEW b \in S \ {Root} PROVE Parent[b] \in S
    <2>1. Parent[b] \in Elements /\ Rank[Parent[b]] < Rank[b]
      BY CompositingAssumption
    <2>2. Rank[Parent[b]] \in Nat /\ Rank[b] \in Nat /\ Rank[e] \in Nat
      BY <2>1, LayerTreeAssumption
    <2> QED
      BY <2>1, <2>2
  <1>2. S \in Upward /\ e \in S
    BY <1>1 DEF Upward
  <1> HIDE DEF S
  <1>3. a \in S
    BY <1>2, AboveIsUpward
  <1> QED
    BY <1>3 DEF S

\* Two ancestors of one element are on one line.
LEMMA AboveLinear ==
  ASSUME NEW e \in Elements, NEW a \in Above[e], NEW b \in Above[e]
  PROVE  a \in Above[b] \/ b \in Above[a]
  <1> DEFINE S == {d \in Above[e] : a \in Above[d] \/ d \in Above[a]}
  <1>1. a \in Elements /\ b \in Elements
    BY AboveIsUpward
  <1>2. ASSUME NEW d \in S \ {Root} PROVE Parent[d] \in S
    <2>1. d \in Elements /\ Parent[d] \in Above[e] /\ Parent[d] \in Elements
      BY AboveIsUpward, CompositingAssumption
    <2>2. CASE d \in Above[a]
      BY <1>1, <2>1, <2>2, AboveIsUpward
    <2>3. CASE a = d
      BY <1>1, <2>1, <2>3, AboveIsUpward
    <2>4. CASE a \in Above[d] /\ a # d
      <3> DEFINE T == {d} \union Above[Parent[d]]
      <3>1. T \in Upward
        <4>1. \A x \in T \ {Root} : Parent[x] \in T
          BY <2>1, AboveIsUpward
        <4> QED
          BY <2>1, <4>1, AboveIsUpward DEF Upward
      <3>2. a \in T
        BY <2>1, <2>4, <3>1, AboveIsUpward
      <3> QED
        BY <2>1, <2>4, <3>2
    <2> QED
      BY <2>2, <2>3, <2>4
  <1>3. S \in Upward /\ e \in S
    BY <1>2, AboveIsUpward DEF Upward
  <1> HIDE DEF S
  <1>4. b \in S
    BY <1>3, AboveIsUpward
  <1> QED
    BY <1>4 DEF S

\* A set of elements has one that is painted last.
LEMMA LastExists ==
  ASSUME NEW e \in Elements, NEW T \in SUBSET Above[e], T # {}
  PROVE  \E x \in T : \A y \in T : Rank[y] <= Rank[x]
  <1> DEFINE D == {Rank[e] - Rank[y] : y \in T}
  <1>1. \A y \in T : Rank[y] \in Nat /\ Rank[e] \in Nat /\ Rank[y] <= Rank[e]
    BY AboveIsUpward, AboveRank, LayerTreeAssumption
  <1>2. D \subseteq Nat /\ D # {}
    BY <1>1
  <1> HIDE DEF D
  <1>3. PICK m \in D : \A n \in D : ~ (<<n, m>> \in OpToRel(<, Nat))
    BY <1>2, NatLessThanWellFounded, WFMin
  <1>4. \A n \in D : ~ (n < m)
    BY <1>2, <1>3 DEF OpToRel
  <1>5. PICK x \in T : m = Rank[e] - Rank[x]
    BY DEF D
  <1>6. ASSUME NEW y \in T PROVE Rank[y] <= Rank[x]
    <2>1. Rank[e] - Rank[y] \in D
      BY DEF D
    <2> QED
      BY <1>1, <1>4, <1>5, <2>1
  <1> QED
    BY <1>6

\* The way up ends at the root.
LEMMA RootAbove == ASSUME NEW e \in Elements PROVE Root \in Above[e]
  <1> SUFFICES ASSUME Root \notin Above[e] PROVE FALSE
    OBVIOUS
  <1> DEFINE R == {Rank[y] : y \in Above[e]}
  <1>1. \A y \in Above[e] : Rank[y] \in Nat
    BY AboveIsUpward, LayerTreeAssumption
  <1>2. R \subseteq Nat /\ R # {}
    BY <1>1, AboveIsUpward
  <1> HIDE DEF R
  <1>3. PICK m \in R : \A n \in R : ~ (<<n, m>> \in OpToRel(<, Nat))
    BY <1>2, NatLessThanWellFounded, WFMin
  <1>4. \A n \in R : ~ (n < m)
    BY <1>2, <1>3 DEF OpToRel
  <1>5. PICK x \in Above[e] : m = Rank[x]
    BY DEF R
  <1>6. x \in Elements \ {Root} /\ Parent[x] \in Above[e]
    BY AboveIsUpward
  <1>7. Rank[Parent[x]] < m /\ Rank[Parent[x]] \in R
    BY <1>5, <1>6, CompositingAssumption DEF R
  <1> QED
    BY <1>4, <1>7

\* The nearest layer is a layer above the element, and the others are above it.
LEMMA NearestIsNearest ==
  ASSUME NEW e \in Elements, NEW layers \in SUBSET Elements, Above[e] \cap layers # {}
  PROVE  /\ Nearest(e, layers) \in Above[e] \cap layers
         /\ Above[e] \cap layers \subseteq Above[Nearest(e, layers)]
  <1>1. PICK l \in Above[e] \cap layers : \A y \in Above[e] \cap layers : Rank[y] <= Rank[l]
    BY LastExists
  <1>2. ASSUME NEW y \in Above[e] \cap layers PROVE y \in Above[l]
    <2>1. y \in Elements /\ l \in Elements /\ Rank[y] \in Nat /\ Rank[l] \in Nat
      BY AboveIsUpward, LayerTreeAssumption
    <2>2. CASE l \in Above[y]
      BY <1>1, <2>1, <2>2, AboveRank, AboveIsUpward
    <2> QED
      BY <2>2, AboveLinear
  <1> QED
    BY <1>2 DEF Nearest

\* A layer is the nearest one of every element between it and an element whose
\* nearest layer it is, itself included.
LEMMA NearestBetween ==
  ASSUME NEW e \in Elements, NEW layers \in SUBSET Elements, Above[e] \cap layers # {},
         NEW y \in Above[e], Nearest(e, layers) \in Above[y]
  PROVE  Nearest(y, layers) = Nearest(e, layers)
  <1> DEFINE l == Nearest(e, layers)
             k == Nearest(y, layers)
  <1>1. l \in Above[e] \cap layers /\ Above[e] \cap layers \subseteq Above[l]
    BY NearestIsNearest
  <1>2. y \in Elements /\ Above[y] \subseteq Above[e]
    BY AboveIsUpward, AboveTransitive
  <1>3. l \in Above[y] \cap layers
    BY <1>1
  <1>4. k \in Above[y] \cap layers /\ Above[y] \cap layers \subseteq Above[k]
    BY <1>2, <1>3, NearestIsNearest
  <1> HIDE DEF l, k
  <1>5. l \in Above[k] /\ k \in Above[l] /\ l \in Elements /\ k \in Elements
    BY <1>1, <1>2, <1>3, <1>4, AboveIsUpward
  <1>6. Rank[l] \in Nat /\ Rank[k] \in Nat
    BY <1>5, LayerTreeAssumption
  <1>7. l = k
    BY <1>5, <1>6, AboveRank
  <1> QED
    BY <1>7 DEF l, k

\* An element is under itself and its parent, and nothing else is new above it.
LEMMA AboveParent ==
  ASSUME NEW e \in Elements \ {Root} PROVE Above[e] \subseteq {e} \union Above[Parent[e]]
  <1> DEFINE S == {e} \union Above[Parent[e]]
  <1>1. Parent[e] \in Elements
    BY CompositingAssumption
  <1>2. \A x \in S \ {Root} : Parent[x] \in S
    BY <1>1, AboveIsUpward
  <1>3. S \in Upward
    BY <1>1, <1>2, AboveIsUpward DEF Upward
  <1> HIDE DEF S
  <1>4. Above[e] \subseteq S
    BY <1>3, AboveIsUpward DEF S
  <1> QED
    BY <1>4 DEF S

LEMMA RootIsTop == ASSUME NEW e \in Elements \ {Root} PROVE e \notin Above[Root]
  <1> SUFFICES ASSUME e \in Above[Root] PROVE FALSE
    OBVIOUS
  <1>1. Root \in Elements /\ Rank[Root] \in Nat /\ Rank[e] \in Nat
    BY LayerTreeAssumption
  <1>2. Rank[e] < Rank[Root] /\ Rank[Root] < Rank[e]
    BY <1>1, AboveRank, RootAbove
  <1> QED
    BY <1>1, <1>2

-----------------------------------------------------------------------------
(* The invariant of the core                                               *)

\* The elements a lowering visits for another reason than scrolling alone.
MarkedByHand == (visualDirty \union structureDirty) \ scrollChromeOnly

\* The attached elements are a tree, and an element that is not there yet has no
\* transition.
TreeInv ==
  /\ Root \in Attached
  /\ \A e \in Attached : Above[e] \subseteq Attached
  /\ \A e \in Elements : tree[e] = "new" => tracks[e] = 0

\* What looks different since the last render is marked: what a setter touched,
\* what is in transition, and what has become a layer.
MarksInv ==
  /\ \A e \in Attached : tracks[e] > 0 => e \in MarkedByHand
  /\ built /\ ~fontsDirty => touched \cap Attached \subseteq MarkedByHand
  /\ built => Boundaries \ frameLayers \subseteq MarkedByHand

\* The frame presentation was offered last is the one the core remembers.
SceneInv ==
  built =>
    /\ scene.layers = frameLayers /\ scene.place = placed
    /\ \A l \in frameLayers : \A e \in Attached \ touched :
         Nearest(e, frameLayers) = l => e \in scene.drawn[l]

\* The core that asks for no frame has nothing to show.
RestInv ==
  ~redraw => built /\ frameLayers = Boundaries /\ touched = {} /\ scene.top = offset

CoreInv == CoreTypeOK /\ TreeInv /\ MarksInv /\ SceneInv /\ RestInv

LEMMA CoreInitially == Init => CoreInv
  <1> SUFFICES ASSUME Init PROVE CoreInv
    OBVIOUS
  <1> USE DEF Init, CoreInit
  <1>1. PICK late \in LateSets : tree = [e \in Elements |-> IF e \in late THEN "new" ELSE "attached"]
    OBVIOUS
  <1>2. late \subseteq Elements \ {Root}
    BY CompositingAssumption
  <1>3. Attached = Elements \ late
    BY <1>1 DEF Attached
  <1>4. \A e \in Elements : LivePlace(e) \in Place
    BY CompositingAssumption, LayerTreeAssumption DEF LivePlace, Place, Tops
  <1>5. CoreTypeOK
    <2>1. tree \in [Elements -> {"new", "attached", "removed"}]
      BY <1>1
    <2>2. transform \in [Elements -> Matrices] /\ tracks \in [Elements -> 0 .. TransitionFrames]
      BY CompositingAssumption
    <2>3. offset \in [ScrollViews -> Tops] /\ placed \in [Elements -> Place]
      BY <1>4, LayerTreeAssumption DEF Tops
    <2>4. structureDirty \subseteq Elements /\ touched \subseteq Elements
      BY <1>3, LayerTreeAssumption
    <2> QED
      BY <2>1, <2>2, <2>3, <2>4 DEF CoreTypeOK
  <1>6. TreeInv
    <2>1. ASSUME NEW e \in Attached PROVE Above[e] \subseteq Attached
      <3>1. \A x \in Attached \ {Root} : Parent[x] \in Attached
        BY <1>1, <1>3, CompositingAssumption
      <3>2. Attached \in Upward
        BY <3>1 DEF Upward, Attached
      <3> QED
        BY <3>2, AboveIsUpward DEF Attached
    <2> QED
      BY <1>1, <1>2, <1>3, <2>1, LayerTreeAssumption DEF TreeInv
  <1>7. MarksInv /\ SceneInv /\ RestInv
    BY <1>3 DEF MarksInv, SceneInv, RestInv
  <1> QED
    BY <1>5, <1>6, <1>7 DEF CoreInv

-----------------------------------------------------------------------------
(* The setters.  Each keeps the marks there are.                           *)

\* What a setter does to the invariant when no element comes or goes.
LEMMA SetterPreserves ==
  ASSUME CoreInv, UNCHANGED scene, CoreTypeOK', redraw' = TRUE,
         UNCHANGED <<tree, tracks, built, frameLayers, placed>>,
         MarkedByHand \subseteq MarkedByHand',
         touched \subseteq touched',
         built /\ ~fontsDirty' => ~fontsDirty /\ touched' \cap Attached \subseteq touched \union MarkedByHand',
         Boundaries' \subseteq Boundaries \union MarkedByHand'
  PROVE  CoreInv'
  <1> USE DEF CoreInv
  <1>1. Attached' = Attached
    BY DEF Attached
  <1>2. TreeInv'
    BY <1>1 DEF TreeInv
  <1>3. MarksInv'
    BY <1>1 DEF MarksInv
  <1>4. SceneInv'
    BY <1>1 DEF SceneInv, Nearest
  <1>5. RestInv'
    BY DEF RestInv
  <1> QED
    BY <1>2, <1>3, <1>4, <1>5

LEMMA SetStylePreserves ==
  ASSUME CoreInv, UNCHANGED scene, NEW e \in Elements, NEW smooth \in BOOLEAN, SetStyle(e, smooth)
  PROVE  CoreInv'
  <1> USE DEF SetStyle, MarkVisual
  <1>1. CoreTypeOK'
    BY DEF CoreInv, CoreTypeOK
  <1>2. MarkedByHand \subseteq MarkedByHand' /\ e \in MarkedByHand'
    BY DEF MarkedByHand
  <1>3. Boundaries' = Boundaries
    BY DEF Boundaries, FormsLayer, Attached
  <1> QED
    BY <1>1, <1>2, <1>3, SetterPreserves

LEMMA SetTransformPreserves ==
  ASSUME CoreInv, UNCHANGED scene, NEW e \in Elements, NEW m \in Matrices, SetTransform(e, m)
  PROVE  CoreInv'
  <1> USE DEF SetTransform, MarkVisual
  <1>1. CoreTypeOK'
    BY DEF CoreInv, CoreTypeOK, history
  <1>2. MarkedByHand \subseteq MarkedByHand'
        /\ (Plain \in {m, transform[e]} => e \in MarkedByHand')
    BY DEF MarkedByHand
  <1>3. Boundaries' \subseteq Boundaries \union MarkedByHand'
    <2>1. e \in Elements /\ transform \in [Elements -> Matrices]
      BY DEF CoreInv, CoreTypeOK
    <2>2. \A d \in Elements \ {e} : transform'[d] = transform[d]
      BY <2>1
    <2>3. \A d \in Elements \ {e} : d \in Boundaries' => d \in Boundaries
      BY <2>2 DEF Boundaries, FormsLayer, Attached
    <2>4. e \in Boundaries' => e \in Boundaries \/ transform[e] = Plain
      BY <2>1 DEF Boundaries, FormsLayer, Attached
    <2>5. Boundaries' \subseteq Elements
      BY LayerTreeAssumption DEF Boundaries, Attached
    <2> QED
      BY <1>2, <2>3, <2>4, <2>5
  <1> QED
    BY <1>1, <1>2, <1>3, SetterPreserves DEF history

LEMMA SetScrollOffsetPreserves ==
  ASSUME CoreInv, UNCHANGED scene, NEW s \in ScrollViews, NEW top \in Tops, SetScrollOffset(s, top)
  PROVE  CoreInv'
  <1> USE DEF SetScrollOffset
  <1>1. CoreTypeOK'
    BY LayerTreeAssumption DEF CoreInv, CoreTypeOK
  <1>2. MarkedByHand \subseteq MarkedByHand'
    BY DEF MarkedByHand
  <1>3. Boundaries' = Boundaries
    BY DEF Boundaries, FormsLayer, Attached
  <1> QED
    BY <1>1, <1>2, <1>3, SetterPreserves

LEMMA RegisterFontPreserves ==
  ASSUME CoreInv, UNCHANGED scene, RegisterFont PROVE CoreInv'
  <1> USE DEF RegisterFont, CoreInv
  <1>1. CoreTypeOK'
    BY DEF CoreTypeOK, Attached
  <1>2. Attached' = Attached /\ Boundaries' = Boundaries /\ MarkedByHand' = MarkedByHand
    BY DEF Attached, Boundaries, FormsLayer, MarkedByHand
  <1>3. TreeInv'
    BY <1>2 DEF TreeInv
  <1>4. MarksInv'
    BY <1>2 DEF MarksInv
  <1>5. SceneInv'
    BY <1>2 DEF SceneInv
  <1>6. RestInv'
    BY DEF RestInv
  <1> QED
    BY <1>1, <1>3, <1>4, <1>5, <1>6

LEMMA AppendChildPreserves ==
  ASSUME CoreInv, UNCHANGED scene, NEW e \in Elements, AppendChild(e) PROVE CoreInv'
  <1> USE DEF AppendChild, CoreInv
  <1>1. e # Root /\ e \notin Attached /\ Parent[e] \in Attached /\ tracks[e] = 0
    BY CompositingAssumption DEF TreeInv, Attached
  <1>2. Attached' = Attached \union {e}
    BY DEF Attached, CoreTypeOK
  <1>3. CoreTypeOK'
    BY <1>1 DEF CoreTypeOK, Attached
  <1>4. MarkedByHand \subseteq MarkedByHand' \union {e, Parent[e]} /\ {e, Parent[e]} \subseteq MarkedByHand'
    BY DEF MarkedByHand
  <1>5. Boundaries' \subseteq Boundaries \union {e}
    BY <1>2 DEF Boundaries, FormsLayer
  <1>6. TreeInv'
    <2>1. Above[e] \subseteq Attached'
      BY <1>1, <1>2, AboveParent DEF TreeInv
    <2>2. \A d \in Elements : tree'[d] = "new" => tree[d] = "new"
      BY DEF CoreTypeOK
    <2> QED
      BY <1>2, <2>1, <2>2 DEF TreeInv
  <1>7. MarksInv'
    BY <1>1, <1>2, <1>4, <1>5 DEF MarksInv
  <1>8. SceneInv'
    BY <1>2 DEF SceneInv
  <1>9. RestInv'
    BY DEF RestInv
  <1> QED
    BY <1>3, <1>6, <1>7, <1>8, <1>9

LEMMA RemovePreserves ==
  ASSUME CoreInv, UNCHANGED scene, NEW e \in Elements, Remove(e) PROVE CoreInv'
  <1> USE DEF Remove, CoreInv, history
  <1> DEFINE gone == Subtree(e) \cap Attached
  <1>1. e # Root /\ Root \notin Subtree(e) /\ Parent[e] \in Elements
    BY RootIsTop, CompositingAssumption DEF Subtree
  <1>2. Attached' = Attached \ Subtree(e)
    BY DEF Attached
  <1>3. CoreTypeOK'
    <2>1. tree' \in [Elements -> {"new", "attached", "removed"}]
      BY DEF CoreTypeOK
    <2> QED
      BY <1>1, <2>1, LayerTreeAssumption DEF CoreTypeOK
  <1>4. MarkedByHand \subseteq MarkedByHand'
    BY DEF MarkedByHand
  <1>5. Boundaries' \subseteq Boundaries
    BY <1>2 DEF Boundaries, FormsLayer
  <1>6. TreeInv'
    <2>1. ASSUME NEW d \in Attached', NEW a \in Above[d] PROVE a \in Attached'
      <3>1. d \in Elements /\ a \in Elements /\ a \in Attached
        BY <1>2, <2>1, AboveIsUpward DEF TreeInv, Attached
      <3>2. a \notin Subtree(e)
        BY <1>2, <2>1, <3>1, AboveTransitive DEF Subtree
      <3> QED
        BY <1>2, <3>1, <3>2
    <2>2. \A d \in Elements : tree'[d] = "new" => tree[d] = "new"
      BY DEF CoreTypeOK
    <2> QED
      BY <1>1, <1>2, <2>1, <2>2 DEF TreeInv
  <1>7. MarksInv'
    BY <1>2, <1>4, <1>5 DEF MarksInv
  <1>8. SceneInv'
    BY <1>2 DEF SceneInv
  <1>9. RestInv'
    BY DEF RestInv
  <1> QED
    BY <1>3, <1>6, <1>7, <1>8, <1>9

-----------------------------------------------------------------------------
(* The committed frame and its facts                                       *)

LEMMA BoundariesFacts ==
  ASSUME CoreInv
  PROVE  /\ Attached \subseteq Elements /\ Root \in Boundaries
         /\ Boundaries \subseteq Attached
         /\ frameLayers \subseteq Elements
         /\ \A e \in Elements : Above[e] \cap Boundaries # {}
  <1>1. Root \in Boundaries /\ Attached \subseteq Elements
    BY DEF Boundaries, Attached
  <1>2. Boundaries \subseteq Attached
    BY DEF CoreInv, TreeInv, Boundaries
  <1> QED
    BY <1>1, <1>2, RootAbove DEF CoreInv, CoreTypeOK

LEMMA FactsAreElements ==
  ASSUME CoreInv
  PROVE  /\ CommittedFrame \in Frame
         /\ ContentFacts \subseteq Elements /\ ChromeFacts \subseteq Elements
         /\ PlacementFacts \in BOOLEAN
         /\ Repainted \subseteq Elements /\ chromeTouched \subseteq ScrollViews
  <1>1. PlacementTable \in [Elements -> Place]
    <2>1. \A e \in Elements : LivePlace(e) \in Place
      BY LayerTreeAssumption DEF CoreInv, CoreTypeOK, LivePlace, Place, Tops
    <2> QED
      BY <2>1 DEF PlacementTable, CoreInv, CoreTypeOK
  <1>2. CommittedFrame \in Frame
    <2>1. [l \in Elements |-> {e \in Attached : l \in Boundaries /\ Nearest(e, Boundaries) = l}]
            \in [Elements -> SUBSET Elements]
      BY BoundariesFacts
    <2> QED
      BY <1>1, <2>1, BoundariesFacts DEF CommittedFrame, Frame, CoreInv, CoreTypeOK
  <1>3. ContentFacts \subseteq Elements
    <2>1. \A e \in Attached : Nearest(e, Boundaries) \in Elements
      BY BoundariesFacts, NearestIsNearest
    <2> QED
      BY <2>1, BoundariesFacts DEF ContentFacts, LayersOf
  <1>4. ChromeFacts \subseteq Elements
    BY BoundariesFacts DEF ChromeFacts
  <1>5. PlacementFacts \in BOOLEAN
    BY DEF PlacementFacts, FullRebuild, CoreInv, CoreTypeOK
  <1>6. Repainted \subseteq Elements /\ chromeTouched \subseteq ScrollViews
    BY BoundariesFacts DEF Repainted, CoreInv, CoreTypeOK
  <1> QED
    BY <1>2, <1>3, <1>4, <1>5, <1>6

\* The layer of a marked element is announced.
LEMMA MarkedIsAnnounced ==
  ASSUME CoreInv, ~FullRebuild, NEW e \in Attached,
         e \in MarkedByHand \/ e \in frameLayers \ Boundaries
  PROVE  Nearest(e, Boundaries) \in ContentFacts
  <1>1. e \in Elements /\ e \in Subtree(e)
    BY BoundariesFacts, AboveIsUpward DEF Subtree
  <1>2. e \in Marked
    BY <1>1 DEF Marked, Lowered, MarkedByHand
  <1> QED
    BY <1>2 DEF ContentFacts, LayersOf

\* A layer is its own nearest layer.
LEMMA NearestOfLayer ==
  ASSUME CoreInv, NEW l \in Boundaries PROVE Nearest(l, Boundaries) = l
  <1>1. l \in Elements
    BY BoundariesFacts
  <1> DEFINE k == Nearest(l, Boundaries)
  <1>2. k \in Above[l] \cap Boundaries /\ l \in Above[k] /\ k \in Elements
    BY <1>1, BoundariesFacts, NearestIsNearest, AboveIsUpward
  <1> HIDE DEF k
  <1>3. Rank[l] \in Nat /\ Rank[k] \in Nat
    BY <1>1, <1>2, LayerTreeAssumption
  <1>4. k = l
    BY <1>1, <1>2, <1>3, AboveRank
  <1> QED
    BY <1>4 DEF k

\* An element whose layer is another one than in the last frame: the new layer
\* was promoted, or the old one was demoted.
LEMMA NewOnLayerIsAnnounced ==
  ASSUME CoreInv, ~FullRebuild, NEW e \in Attached \ touched, NEW l \in Boundaries,
         Nearest(e, Boundaries) = l, e \notin scene.drawn[l]
  PROVE  l \in ContentFacts
  <1> USE DEF CoreInv
  <1>1. built /\ e \in Elements
    BY BoundariesFacts DEF FullRebuild
  <1>2. CASE l \notin frameLayers
    <2>1. l \in MarkedByHand /\ l \in Attached
      BY <1>1, <1>2, BoundariesFacts DEF MarksInv
    <2> QED
      BY <2>1, MarkedIsAnnounced, NearestOfLayer
  <1>3. CASE l \in frameLayers
    <2> DEFINE y == Nearest(e, frameLayers)
    <2>1. l \in Above[e] /\ Above[e] \cap Boundaries \subseteq Above[l]
      BY <1>1, BoundariesFacts, NearestIsNearest
    <2>2. y \in Above[e] \cap frameLayers /\ l \in Above[y] /\ y \in Elements
      BY <1>1, <1>3, <2>1, BoundariesFacts, NearestIsNearest, AboveIsUpward
    <2>3. y # l
      BY <1>1, <1>3 DEF SceneInv
    <2> HIDE DEF y
    <2>4. y \notin Boundaries
      <3> SUFFICES ASSUME y \in Boundaries PROVE FALSE
        OBVIOUS
      <3>1. y \in Above[l] /\ l \in Elements
        BY <2>1, <2>2, BoundariesFacts
      <3>2. Rank[y] \in Nat /\ Rank[l] \in Nat
        BY <2>2, <3>1, LayerTreeAssumption
      <3> QED
        BY <2>2, <2>3, <3>1, <3>2, AboveRank
    <2>5. y \in Attached
      BY <2>2 DEF TreeInv
    <2>6. Nearest(y, Boundaries) = l
      BY <1>1, <2>2, BoundariesFacts, NearestBetween
    <2> QED
      BY <2>2, <2>4, <2>5, <2>6, MarkedIsAnnounced
  <1> QED
    BY <1>2, <1>3

LEMMA FrameIsAnnounced ==
  ASSUME CoreInv PROVE Announced(CommittedFrame, ContentFacts, PlacementFacts, Repainted)
  <1> DEFINE f == CommittedFrame
  <1>1. /\ f.layers = Boundaries /\ f.place = PlacementTable
        /\ \A l \in Elements :
             f.drawn[l] = {e \in Attached : l \in Boundaries /\ Nearest(e, Boundaries) = l}
    BY DEF CommittedFrame
  <1> HIDE DEF f
  <1>2. ASSUME NEW l \in Boundaries, NEW e \in f.drawn[l],
               e \in Repainted \/ e \notin scene.drawn[l]
        PROVE  l \in ContentFacts
    <2>1. l \in Elements /\ e \in Attached /\ Nearest(e, Boundaries) = l
      BY <1>1, BoundariesFacts
    <2>2. CASE FullRebuild
      BY <2>2 DEF ContentFacts
    <2>3. CASE ~FullRebuild /\ e \in Repainted
      BY <2>1, <2>3, MarkedIsAnnounced DEF Repainted, CoreInv, MarksInv, FullRebuild
    <2>4. CASE ~FullRebuild /\ e \notin Repainted
      BY <1>2, <2>1, <2>4, NewOnLayerIsAnnounced DEF Repainted
    <2> QED
      BY <2>2, <2>3, <2>4
  <1>3. Placements(f) # Placements(scene) => PlacementFacts
    BY <1>1 DEF Placements, PlacementFacts, PlacementTable, FullRebuild, CoreInv, SceneInv
  <1>4. Root \in f.layers /\ \A l \in Elements \ f.layers : f.drawn[l] = {}
    BY <1>1, BoundariesFacts
  <1> QED
    BY <1>1, <1>2, <1>3, <1>4 DEF Announced, f

LEMMA RenderPreserves == ASSUME CoreInv, Render PROVE CoreInv'
  <1> USE DEF Render, Lower, CoreInv
  <1>1. Attached' = Attached
    BY DEF Attached
  <1>2. \A e \in Elements : tracks'[e] = Progress(e)
    OBVIOUS
  <1>3. tracks' \in [Elements -> 0 .. TransitionFrames]
    BY CompositingAssumption DEF CoreTypeOK, Progress
  <1>4. MarkedByHand' = {e \in Elements : tracks'[e] > 0}
    BY DEF MarkedByHand
  <1>5. scene' = CommittedFrame
    BY DEF Offer
  <1>6. PlacementTable \in [Elements -> Place]
    BY FactsAreElements DEF CommittedFrame, Frame
  <1>7. CoreTypeOK'
    BY <1>1, <1>3, <1>6, BoundariesFacts, CompositingAssumption
       DEF CoreTypeOK, HasPendingVisualWork, Lowered
  <1>8. TreeInv'
    BY <1>1, <1>2 DEF TreeInv, Progress, Attached
  <1>9. MarksInv'
    <2>1. Boundaries' \ frameLayers' \subseteq MarkedByHand'
      BY <1>1, <1>4, BoundariesFacts DEF Boundaries, FormsLayer
    <2> QED
      BY <1>1, <1>4, <2>1, BoundariesFacts DEF MarksInv
  <1>10. SceneInv'
    BY <1>1, <1>5, BoundariesFacts DEF SceneInv, CommittedFrame, Nearest
  <1>11. RestInv'
    BY <1>5 DEF RestInv, HasPendingVisualWork, CommittedFrame
  <1> QED
    BY <1>7, <1>8, <1>9, <1>10, <1>11

-----------------------------------------------------------------------------
(* The composition                                                         *)

\* Nothing but an offer changes the frame.
LEMMA PresentKeepsScene == PresentStep => UNCHANGED scene
  BY DEF PresentStep, Prepare, Rasterize, RasterizeFails, Abandon, Composite, CompositeFails,
         Commit, Trim, Invalidate, handoff

LEMMA UnchangedPreserves ==
  ASSUME CoreInv, UNCHANGED scene, redraw' \in {TRUE, redraw},
         UNCHANGED <<tree, transform, restyled, anchored, tracks, offset, marks, built,
                     frameLayers, placed, history>>
  PROVE  CoreInv'
  <1> USE DEF marks, history, CoreInv
  <1>1. Attached' = Attached /\ Boundaries' = Boundaries /\ MarkedByHand' = MarkedByHand
    BY DEF Attached, Boundaries, FormsLayer, MarkedByHand
  <1>2. CoreTypeOK'
    BY DEF CoreTypeOK
  <1>3. TreeInv' /\ MarksInv'
    BY <1>1 DEF TreeInv, MarksInv
  <1>4. SceneInv' /\ RestInv'
    BY <1>1 DEF SceneInv, RestInv
  <1> QED
    BY <1>2, <1>3, <1>4

LEMMA CoreStep == CoreInv /\ [Next]_vars => CoreInv'
  <1> SUFFICES ASSUME CoreInv, [Next]_vars PROVE CoreInv'
    OBVIOUS
  <1>1. CASE Change
    <2>1. UNCHANGED scene /\ Setter
      BY <1>1 DEF Change, presentVars, handoff
    <2> QED
      BY <2>1, SetStylePreserves, SetTransformPreserves, SetScrollOffsetPreserves,
         AppendChildPreserves, RemovePreserves, RegisterFontPreserves DEF Setter
  <1>2. CASE Render
    BY <1>2, RenderPreserves
  <1>3. CASE Present
    <2>1. UNCHANGED scene
      BY <1>3, PresentKeepsScene DEF Present, PresentStep
    <2> QED
      BY <1>3, <2>1, UnchangedPreserves DEF Present, coreVars
  <1>4. CASE Fault
    <2>1. UNCHANGED scene
      BY <1>4, PresentKeepsScene DEF Fault, PresentStep
    <2> QED
      BY <1>4, <2>1, UnchangedPreserves DEF Fault
  <1>5. CASE Pressure
    <2>1. UNCHANGED scene
      BY <1>5, PresentKeepsScene DEF Pressure, PresentStep
    <2> QED
      BY <1>5, <2>1, UnchangedPreserves DEF Pressure, coreVars
  <1>6. CASE UNCHANGED vars
    BY <1>6, UnchangedPreserves DEF vars, coreVars, presentVars, handoff
  <1> QED
    BY <1>1, <1>2, <1>3, <1>4, <1>5, <1>6 DEF Next

LEMMA CoreInvariance == Spec => []CoreInv
  BY CoreInitially, CoreStep, PTL DEF Spec

-----------------------------------------------------------------------------
(* What leaves a layer                                                     *)

\* The frame offered last draws each element on the nearest of its layers.  An
\* element it draws that has been removed since was never anything but part of
\* the tree, and the lowest of its ancestors still there is marked.
LeaveInv ==
  built =>
    /\ \A l \in Elements : \A e \in scene.drawn[l] :
         e \in Elements /\ l \in Above[e] \cap frameLayers /\ Nearest(e, frameLayers) = l
    /\ \A l \in Elements : \A e \in scene.drawn[l] \ Attached :
         /\ \A a \in Above[e] : tree[a] # "new"
         /\ \E p \in Above[e] \cap Attached \cap MarkedByHand : Above[e] \cap Attached \subseteq Above[p]

\* The layers of the last frame stay layers of their elements: a layer below the
\* one an element was drawn on is new.
LEMMA LayerBelowIsNew ==
  ASSUME CoreInv, LeaveInv, built, NEW l \in Elements, NEW e \in scene.drawn[l],
         NEW m \in Above[e], l \in Above[m], m # l
  PROVE  m \notin scene.layers
  <1> SUFFICES ASSUME m \in frameLayers PROVE FALSE
    BY DEF CoreInv, SceneInv
  <1>1. e \in Elements /\ l \in Above[e] \cap frameLayers /\ Nearest(e, frameLayers) = l
    BY DEF LeaveInv
  <1>2. frameLayers \subseteq Elements /\ m \in Elements
    BY DEF CoreInv, CoreTypeOK
  <1>3. m \in Above[l]
    BY <1>1, <1>2, NearestIsNearest
  <1>4. Rank[m] \in Nat /\ Rank[l] \in Nat
    BY <1>2, LayerTreeAssumption
  <1> QED
    BY <1>2, <1>3, <1>4, AboveRank

\* An element that leaves a layer the facts do not name: its layer now, or, when
\* it has been removed, the layer of its lowest ancestor still there, is new.
LEMMA LeaversArePromoted ==
  ASSUME CoreInv, LeaveInv PROVE LeavesByPromotion
  <1> SUFFICES ASSUME NEW l \in (scene.layers \cap Boundaries) \ ContentFacts,
                      NEW e \in scene.drawn[l] \ CommittedFrame.drawn[l]
               PROVE  \E m \in Boundaries \ scene.layers : m \in Above[e] /\ l \in Above[m]
    BY DEF LeavesByPromotion
  <1>1. ~FullRebuild /\ built
    BY DEF ContentFacts, FullRebuild
  <1>2. l \in Elements /\ l \in Attached
    BY BoundariesFacts
  <1>3. e \in Elements /\ l \in Above[e]
    BY <1>1, <1>2 DEF LeaveInv
  <1>4. ASSUME NEW m \in Boundaries, m \in Above[e], l \in Above[m], m # l
        PROVE  m \in Boundaries \ scene.layers /\ m \in Above[e] /\ l \in Above[m]
    BY <1>1, <1>2, <1>4, LayerBelowIsNew
  <1>5. CASE e \in Attached
    <2> DEFINE m == Nearest(e, Boundaries)
    <2>1. m \in Above[e] \cap Boundaries /\ l \in Above[m]
      BY <1>2, <1>3, BoundariesFacts, NearestIsNearest
    <2>2. m # l
      <3> DEFINE f == CommittedFrame
      <3>1. f.drawn[l] = {d \in Attached : l \in Boundaries /\ Nearest(d, Boundaries) = l}
        BY <1>2 DEF CommittedFrame
      <3> QED
        BY <1>5, <3>1
    <2> HIDE DEF m
    <2> QED
      BY <1>4, <2>1, <2>2
  <1>6. CASE e \notin Attached
    <2>1. PICK p \in Above[e] \cap Attached \cap MarkedByHand :
                 Above[e] \cap Attached \subseteq Above[p]
      BY <1>1, <1>2, <1>6 DEF LeaveInv
    <2> DEFINE m == Nearest(p, Boundaries)
    <2>2. p \in Elements /\ l \in Above[p] /\ Above[p] \subseteq Above[e]
      BY <1>2, <1>3, <2>1, BoundariesFacts, AboveTransitive
    <2>3. m \in Above[p] \cap Boundaries /\ l \in Above[m]
      BY <1>2, <2>2, BoundariesFacts, NearestIsNearest
    <2>4. m \in ContentFacts
      BY <1>1, <2>1, MarkedIsAnnounced
    <2> HIDE DEF m
    <2> QED
      BY <1>4, <2>2, <2>3, <2>4
  <1> QED
    BY <1>5, <1>6

\* A step that neither offers a frame nor removes an element, and withdraws no
\* mark.
LEMMA LeaveKept ==
  ASSUME LeaveInv, CoreTypeOK, UNCHANGED <<scene, frameLayers, built>>,
         MarkedByHand \subseteq MarkedByHand',
         UNCHANGED tree
  PROVE  LeaveInv'
  <1>1. Attached' = Attached
    BY DEF Attached
  <1> QED
    BY <1>1 DEF LeaveInv, Nearest

LEMMA AppendKeepsLeave ==
  ASSUME CoreInv, LeaveInv, UNCHANGED scene, NEW x \in Elements, AppendChild(x) PROVE LeaveInv'
  <1> SUFFICES ASSUME built' PROVE LeaveInv'
    BY DEF LeaveInv
  <1>1. /\ UNCHANGED <<frameLayers, built>> /\ tree[x] = "new"
        /\ Attached' = Attached \union {x}
        /\ \A a \in Elements : tree[a] # "new" => tree'[a] # "new"
    BY DEF AppendChild, Attached, CoreInv, CoreTypeOK
  <1>2. ASSUME NEW l \in Elements, NEW e \in scene.drawn[l] \ Attached'
        PROVE  /\ \A a \in Above[e] : tree'[a] # "new"
               /\ \E p \in Above[e] \cap Attached' \cap MarkedByHand' :
                    Above[e] \cap Attached' \subseteq Above[p]
    <2>1. /\ e \in Elements /\ \A a \in Above[e] : tree[a] # "new"
          /\ \E p \in Above[e] \cap Attached \cap MarkedByHand :
               Above[e] \cap Attached \subseteq Above[p]
      BY <1>1, <1>2 DEF LeaveInv
    <2>2. MarkedByHand \subseteq MarkedByHand' \union {Parent[x]} /\ Parent[x] \in MarkedByHand'
      BY DEF MarkedByHand, AppendChild
    <2>3. Above[e] \cap Attached' = Above[e] \cap Attached
      BY <1>1, <2>1
    <2>4. Above[e] \subseteq Elements
      BY <2>1, AboveIsUpward
    <2> QED
      BY <1>1, <2>1, <2>2, <2>3, <2>4
  <1> QED
    BY <1>1, <1>2 DEF LeaveInv, Nearest

\* A removal marks the parent it removes from, which is the lowest ancestor left of
\* all that goes.
LEMMA RemoveKeepsLeave ==
  ASSUME CoreInv, LeaveInv, UNCHANGED scene, NEW x \in Elements, Remove(x) PROVE LeaveInv'
  <1> SUFFICES ASSUME built' PROVE LeaveInv'
    BY DEF LeaveInv
  <1>1. /\ UNCHANGED <<frameLayers, built>> /\ x \in Attached \ {Root}
        /\ Attached' = Attached \ Subtree(x)
        /\ \A a \in Elements : tree[a] # "new" => tree'[a] # "new"
    BY DEF Remove, Attached, CoreInv, CoreTypeOK
  <1>2. Parent[x] \in MarkedByHand' /\ MarkedByHand \subseteq MarkedByHand'
    BY DEF MarkedByHand, Remove
  <1>3. Parent[x] \in Attached'
    <2>1. Parent[x] \in Elements /\ Parent[x] \in Above[x]
      BY <1>1, CompositingAssumption, AboveIsUpward
    <2>2. Parent[x] \in Attached
      BY <1>1, <2>1 DEF CoreInv, TreeInv
    <2>3. x \notin Above[Parent[x]]
      <3>1. Rank[Parent[x]] < Rank[x] /\ Rank[x] \in Nat /\ Rank[Parent[x]] \in Nat
        BY <1>1, <2>1, CompositingAssumption, LayerTreeAssumption
      <3> QED
        BY <2>1, <3>1, AboveRank
    <2> QED
      BY <1>1, <2>2, <2>3 DEF Subtree
  <1>4. ASSUME NEW l \in Elements, NEW e \in scene.drawn[l] \ Attached'
        PROVE  /\ \A a \in Above[e] : tree'[a] # "new"
               /\ \E p \in Above[e] \cap Attached' \cap MarkedByHand' :
                    Above[e] \cap Attached' \subseteq Above[p]
    <2>1. e \in Elements /\ Above[e] \subseteq Elements
      BY <1>1, <1>4, AboveIsUpward DEF LeaveInv
    <2>2. \A a \in Above[e] : tree[a] # "new"
      <3>1. CASE e \in Attached
        BY <3>1 DEF CoreInv, TreeInv, Attached
      <3>2. CASE e \notin Attached
        BY <1>1, <1>4, <3>2 DEF LeaveInv
      <3> QED
        BY <3>1, <3>2
    <2>3. CASE x \in Above[e]
      <3>1. Parent[x] \in Above[e]
        BY <1>1, <2>1, <2>3, AboveIsUpward
      <3>2. ASSUME NEW a \in Above[e] \cap Attached' PROVE a \in Above[Parent[x]]
        <4>1. x \notin Above[a]
          BY <1>1, <2>1, <3>2 DEF Subtree
        <4>2. a \in Above[x] /\ a # x
          BY <2>1, <2>3, <3>2, <4>1, AboveLinear, AboveIsUpward
        <4> QED
          BY <1>1, <4>2, AboveParent
      <3> QED
        BY <1>1, <1>2, <1>3, <2>1, <2>2, <3>1, <3>2
    <2>4. CASE x \notin Above[e]
      <3>1. e \notin Attached
        BY <1>1, <1>4, <2>1, <2>4 DEF Subtree
      <3>2. PICK p \in Above[e] \cap Attached \cap MarkedByHand :
                   Above[e] \cap Attached \subseteq Above[p]
        BY <1>1, <1>4, <3>1 DEF LeaveInv
      <3>3. p \in Attached'
        BY <1>1, <2>1, <2>4, <3>2, AboveTransitive DEF Subtree
      <3> QED
        BY <1>1, <1>2, <2>1, <2>2, <3>2, <3>3
    <2> QED
      BY <2>3, <2>4
  <1> QED
    BY <1>1, <1>4 DEF LeaveInv, Nearest

LEMMA RenderMakesLeave == ASSUME CoreInv, Render PROVE LeaveInv'
  <1> DEFINE f == CommittedFrame
  <1>1. /\ scene' = f /\ frameLayers' = Boundaries /\ tree' = tree
    BY DEF Render, Offer, Lower
  <1>2. \A l \in Elements :
          f.drawn[l] = {e \in Attached : l \in Boundaries /\ Nearest(e, Boundaries) = l}
    BY DEF CommittedFrame
  <1> HIDE DEF f
  <1>3. Attached' = Attached /\ Attached \subseteq Elements
    BY <1>1 DEF Attached
  <1>4. \A e \in Attached : Nearest(e, Boundaries) \in Above[e]
    BY <1>3, BoundariesFacts, NearestIsNearest
  <1> QED
    BY <1>1, <1>2, <1>3, <1>4 DEF LeaveInv, Nearest

LEMMA LeaveStep == CoreInv /\ LeaveInv /\ [Next]_vars => LeaveInv'
  <1> SUFFICES ASSUME CoreInv, LeaveInv, [Next]_vars PROVE LeaveInv'
    OBVIOUS
  <1>1. CASE Render
    BY <1>1, RenderMakesLeave
  <1>2. CASE Change
    <2>1. UNCHANGED scene /\ Setter
      BY <1>2 DEF Change, presentVars, handoff
    <2>2. CASE \E e \in Elements : AppendChild(e)
      BY <2>1, <2>2, AppendKeepsLeave
    <2>3. CASE \E e \in Elements : Remove(e)
      BY <2>1, <2>3, RemoveKeepsLeave
    <2>4. CASE UNCHANGED tree
      <3>1. UNCHANGED <<frameLayers, built>> /\ MarkedByHand \subseteq MarkedByHand'
        BY <2>1, <2>4 DEF Setter, SetStyle, SetTransform, MarkVisual, SetScrollOffset, AppendChild,
           Remove, RegisterFont, MarkedByHand
      <3> QED
        BY <2>1, <2>4, <3>1, LeaveKept DEF CoreInv
    <2> QED
      BY <2>1, <2>2, <2>3, <2>4 DEF Setter, SetStyle, SetTransform, SetScrollOffset, RegisterFont
  <1>3. CASE Present \/ Fault \/ Pressure \/ UNCHANGED vars
    <2>1. UNCHANGED <<scene, frameLayers, built, tree, marks>>
      BY <1>3, PresentKeepsScene DEF Present, Fault, Pressure, PresentStep, vars, coreVars,
         presentVars, handoff
    <2> QED
      BY <2>1, LeaveKept DEF CoreInv, marks, MarkedByHand
  <1> QED
    BY <1>1, <1>2, <1>3 DEF Next

LEMMA LeaveInvariance == Spec => []LeaveInv
  <1>1. Init => LeaveInv
    BY DEF Init, CoreInit, LeaveInv
  <1> QED
    BY <1>1, CoreInvariance, LeaveStep, PTL DEF Spec

-----------------------------------------------------------------------------
(* The core and the transaction together                                   *)

\* The facts of every frame announce all that changed, and pass over nothing but
\* promotions: capture_frame_layers and the marks of the setters leave nothing
\* else out, on any tree.
THEOREM CoreAnnounces == Spec => AnnouncesChanges
  <1>1. CoreInv /\ LeaveInv =>
          (Render => /\ Announced(CommittedFrame, ContentFacts, PlacementFacts, Repainted)
                     /\ LeavesByPromotion)
    BY FrameIsAnnounced, LeaversArePromoted
  <1> QED
    BY <1>1, CoreInvariance, LeaveInvariance, PTL DEF AnnouncesChanges, Spec

\* Of a step of the whole, presentation sees a frame that is announced, a step of
\* its own, or nothing.
LEMMA StepRefines == CoreInv /\ [Next]_vars => [Environment \/ PresentStep]_presentVars
  <1> SUFFICES ASSUME CoreInv, [Next]_vars PROVE [Environment \/ PresentStep]_presentVars
    OBVIOUS
  <1>1. CASE Render
    BY <1>1, FactsAreElements, FrameIsAnnounced DEF Render, Environment
  <1>2. CASE Change \/ UNCHANGED vars
    BY <1>2 DEF Change, vars
  <1>3. CASE Present \/ Fault \/ Pressure
    BY <1>3 DEF Present, Fault, Pressure, PresentStep
  <1> QED
    BY <1>1, <1>2, <1>3 DEF Next

\* The core and the transaction together implement the transaction under a core
\* that announces its changes (frames go from render() to present()).
THEOREM ImplementsPresentation == Spec => PresentSpec
  <1>1. Init => PresentInit
    BY DEF Init
  <1> QED
    BY <1>1, CoreInvariance, StepRefines, PTL DEF Spec, PresentSpec

\* The type invariant of the core and of the transaction.
THEOREM LayerFramesTypeCorrect == Spec => []LayerFramesTypeOK
  <1>1. CoreInv => CoreTypeOK
    BY DEF CoreInv
  <1> QED
    BY <1>1, CoreInvariance, ImplementsPresentation, PresentTypeCorrect, PTL
       DEF LayerFramesTypeOK

\* From the setters to the composite: no element of a frame is missing from its
\* layer or there as it looked before (#680), and what else a texture draws was
\* promoted out of the layer before the layer's next raster (LeavesByPromotion).
THEOREM LayersShowTheirFrame == Spec => []LayersShowFrame
  BY ImplementsPresentation, PresentShowsFrame, PTL

\* From the setters to the composite: every frame is composited with its own
\* placements.
THEOREM FramesUseTheirPlan == Spec => []PlanIsCurrent
  BY ImplementsPresentation, PresentPlan, PTL

\* From the setters to the composite: the ledger and the adapter agree.
THEOREM FramesKeepTheLedger == Spec => []LedgerMatchesAdapter
  BY ImplementsPresentation, PresentLedger, PTL

\* A core that asks for no more frames has folded every layer and shown every
\* change (has_pending_visual_work).
THEOREM QuiescentTree == Spec => []QuiescentIsSettled
  <1>1. CoreInv => QuiescentIsSettled
    BY DEF CoreInv, RestInv, SceneInv, QuiescentIsSettled
  <1> QED
    BY <1>1, CoreInvariance, PTL

-----------------------------------------------------------------------------
(* Removed elements                                                        *)

\* The elements on the screen of the frame offered last.
DrawnNow == UNION {scene.drawn[m] : m \in scene.layers}

\* Where no fact asks for another raster, a texture draws only elements of the
\* frame; and a frame that draws an element removed since has the root marked,
\* from which the marks reach every layer.
GoneInv ==
  /\ \A l \in cached \ (loose \union staged \union ScrollViews) :
       l \in scene.layers \ (dirty \union pendingDirty) => texture[l].draws \subseteq DrawnNow
  /\ \A l \in staged : texture[l].draws = scene.drawn[l]
  /\ ~(DrawnNow \subseteq Attached) => Root \in structureDirty

\* A mark on the root announces every layer but the scroll views that were only
\* scrolled.
LEMMA RootMarkReachesAll ==
  ASSUME CoreInv, ~FullRebuild, Root \in structureDirty, NEW l \in Boundaries \ ScrollViews
  PROVE  l \in ContentFacts
  <1>1. l \in Elements /\ l \in Attached /\ Root \in Elements
    BY BoundariesFacts, LayerTreeAssumption
  <1>2. l \in Subtree(Root) \cap Attached
    BY <1>1, RootAbove DEF Subtree
  <1>3. l \in Marked
    BY <1>2 DEF Marked, Lowered, CoreInv, CoreTypeOK
  <1> QED
    BY <1>1, <1>3, NearestOfLayer DEF ContentFacts, LayersOf

LEMMA RenderKeepsGone ==
  ASSUME CoreInv, TypeOK, Inv, GoneInv, Render PROVE GoneInv'
  <1>1. /\ scene' = CommittedFrame /\ dirty' = dirty \union ContentFacts
        /\ UNCHANGED <<cached, loose, staged, pendingDirty>> /\ staged = {}
        /\ \A l \in Elements : texture'[l].draws = texture[l].draws
    <2>1. texture' = [l \in Elements |->
            Outdated(l, CommittedFrame, ContentFacts, Repainted)]
      BY DEF Render, Offer
    <2>2. \A l \in Elements : texture'[l].draws = texture[l].draws
      <3> SUFFICES ASSUME NEW l \in Elements PROVE texture'[l].draws = texture[l].draws
        OBVIOUS
      <3>1. texture'[l] = Outdated(l, CommittedFrame, ContentFacts, Repainted)
        BY <2>1
      <3>2. /\ CommittedFrame \in Frame /\ ContentFacts \in SUBSET Elements
            /\ Repainted \in SUBSET Elements
        BY FactsAreElements
      <3> QED
        BY <3>1, <3>2, OutdatedTexture
    <2> QED
      BY <2>2 DEF Render, Offer, ledger, Inv, PhaseInv
  <1>2. DrawnNow' = Attached /\ scene'.layers = Boundaries
    <2> DEFINE f == CommittedFrame
    <2>1. /\ f.layers = Boundaries
          /\ \A l \in Elements : f.drawn[l] = {e \in Attached : l \in Boundaries /\ Nearest(e, Boundaries) = l}
      BY DEF CommittedFrame
    <2>2. \A e \in Attached : Nearest(e, Boundaries) \in Boundaries
      BY BoundariesFacts, NearestIsNearest
    <2>3. Boundaries \subseteq Elements
      BY BoundariesFacts
    <2> HIDE DEF f
    <2>4. UNION {f.drawn[m] : m \in f.layers} = Attached
      BY <2>1, <2>2, <2>3
    <2> QED
      BY <1>1, <2>1, <2>4 DEF DrawnNow, f
  <1>3. Attached' = Attached
    BY DEF Render, Lower, Attached
  <1>4. ASSUME NEW l \in cached \ (loose \union ScrollViews),
               l \in Boundaries \ (dirty \union ContentFacts \union pendingDirty)
        PROVE  texture[l].draws \subseteq Attached
    <2>1. ~FullRebuild
      BY <1>4 DEF ContentFacts
    <2>2. l \in scene.layers
      <3> SUFFICES ASSUME l \notin scene.layers PROVE FALSE
        OBVIOUS
      <3>1. l \in MarkedByHand /\ l \in Attached
        BY <1>4, <2>1, BoundariesFacts DEF CoreInv, SceneInv, MarksInv, FullRebuild
      <3> QED
        BY <1>4, <2>1, <3>1, MarkedIsAnnounced, NearestOfLayer
    <2>3. texture[l].draws \subseteq DrawnNow
      BY <1>1, <1>4, <2>2 DEF GoneInv
    <2>4. DrawnNow \subseteq Attached
      BY <1>4, <2>1, RootMarkReachesAll DEF GoneInv
    <2> QED
      BY <2>3, <2>4
  <1>5. cached \subseteq Elements
    BY DEF TypeOK
  <1> QED
    BY <1>1, <1>2, <1>3, <1>4, <1>5 DEF GoneInv

\* A setter changes nothing of presentation, and a removal marks the root.
LEMMA ChangeKeepsGone ==
  ASSUME CoreInv, GoneInv, Change PROVE GoneInv'
  <1>1. UNCHANGED <<scene, cached, loose, staged, dirty, pendingDirty, texture>> /\ DrawnNow' = DrawnNow
    BY DEF Change, presentVars, handoff, ledger, adapter, DrawnNow
  <1>2. Root \in structureDirty => Root \in structureDirty'
    <2>1. structureDirty \subseteq structureDirty'
      BY DEF Change, Setter, SetStyle, SetTransform, MarkVisual, SetScrollOffset, AppendChild, Remove,
             RegisterFont
    <2> QED
      BY <2>1
  <1>3. Attached \subseteq Attached' \/ Root \in structureDirty'
    <2>1. CASE \E e \in Elements : Remove(e)
      BY <2>1 DEF Remove
    <2>2. CASE \E e \in Elements : AppendChild(e)
      BY <2>2 DEF AppendChild, Attached, CoreInv, CoreTypeOK
    <2>3. CASE UNCHANGED tree
      BY <2>3 DEF Attached
    <2> QED
      BY <2>1, <2>2, <2>3 DEF Change, Setter, SetStyle, SetTransform, SetScrollOffset, RegisterFont
  <1> QED
    BY <1>1, <1>2, <1>3 DEF GoneInv

\* The commit of a present: what it keeps was rasterized by this present or needed
\* no raster.
LEMMA CommitKeepsGone ==
  ASSUME TypeOK, Inv, GoneInv, Commit, UNCHANGED <<tree, structureDirty>> PROVE GoneInv'
  <1> DEFINE old == previousLayers \ scene.layers
             entries == (cached \union staged) \ old
             gone == old \union (entries \ Kept(entries, Budget))
  <1>1. /\ cached' = Kept(entries, Budget) /\ loose' = (loose \ staged) \ gone
        /\ \A l \in Elements \ gone : texture'[l] = texture[l]
        /\ staged' = {} /\ UNCHANGED <<scene, dirty>> /\ phase = "commit"
    BY DEF Commit, Discard, handoff
  <1>2. cached' \subseteq cached \union staged /\ cached' \cap gone = {}
    BY <1>1, KeptIsPart
  <1>3. cached \subseteq Elements /\ staged \subseteq Elements
    BY DEF TypeOK
  <1>4. DrawnNow' = DrawnNow /\ Attached' = Attached
    BY <1>1 DEF DrawnNow, Attached
  <1> HIDE DEF gone, entries, old
  <1>5. ASSUME NEW l \in cached' \ (loose' \union ScrollViews), l \in scene.layers
        PROVE  texture'[l].draws \subseteq DrawnNow
    <2>1. texture'[l] = texture[l] /\ l \in cached \union staged
      BY <1>1, <1>2, <1>3, <1>5
    <2>2. CASE l \in staged
      BY <1>5, <2>1, <2>2 DEF GoneInv, DrawnNow
    <2>3. CASE l \notin staged
      <3>1. l \in cached \ (loose \union staged \union ScrollViews)
        BY <1>1, <1>2, <1>5, <2>1, <2>3
      <3>2. l \notin pendingDirty /\ l \notin dirty
        BY <1>1, <1>5, <2>3 DEF Inv, JobsInv, PhaseInv, NeedsContent
      <3> QED
        BY <1>5, <2>1, <3>1, <3>2 DEF GoneInv
    <2> QED
      BY <2>2, <2>3
  <1> QED
    BY <1>1, <1>4, <1>5 DEF GoneInv

\* A present on its way rasterizes what the frame draws; one that is abandoned
\* disowns what it rasterized; Trim and Invalidate drop entries with their textures.
LEMMA PresentKeepsGone ==
  ASSUME TypeOK, Inv, GoneInv, PresentStep, UNCHANGED <<tree, structureDirty>> PROVE GoneInv'
  <1>1. DrawnNow' = DrawnNow /\ Attached' = Attached /\ UNCHANGED scene
    BY PresentKeepsScene DEF DrawnNow, Attached
  <1>2. CASE Prepare
    BY <1>1, <1>2 DEF Prepare, adapter, GoneInv, Inv, PhaseInv
  <1>3. CASE \E j \in jobs : Rasterize(j)
    <2>1. PICK j \in jobs : Rasterize(j)
      BY <1>3
    <2>2. /\ UNCHANGED <<cached, loose, dirty, pendingDirty>>
          /\ j.layer \in Elements
          /\ \/ UNCHANGED <<texture, staged>>
             \/ /\ staged' = staged \union {j.layer}
                /\ texture'[j.layer].draws = scene.drawn[j.layer]
                /\ \A l \in Elements \ {j.layer} : texture'[l] = texture[l]
      BY <2>1 DEF Rasterize, handoff, ledger, TypeOK, Job
    <2>3. cached \subseteq Elements /\ staged \subseteq Elements
      BY DEF TypeOK
    <2> QED
      BY <1>1, <2>2, <2>3 DEF GoneInv
  <1>4. CASE \E j \in jobs : RasterizeFails(j)
    <2>1. PICK j \in jobs : RasterizeFails(j)
      BY <1>4
    <2>2. /\ UNCHANGED <<cached, dirty, pendingDirty>> /\ staged' = {}
          /\ loose \union staged \subseteq loose'
          /\ \A l \in Elements \ loose' : texture'[l] = texture[l]
      BY <2>1 DEF RasterizeFails, Abandon, handoff, ledger, TypeOK, Job
    <2>3. cached \subseteq Elements
      BY DEF TypeOK
    <2> QED
      BY <1>1, <2>2, <2>3 DEF GoneInv
  <1>5. CASE Composite \/ CompositeFails
    BY <1>1, <1>5 DEF Composite, CompositeFails, Abandon, handoff, ledger, adapter, GoneInv
  <1>6. CASE Commit
    BY <1>6, CommitKeepsGone
  <1>7. CASE Trim
    <2>1. /\ UNCHANGED <<dirty, pendingDirty, staged>>
          /\ cached' = cached \ (cached \ Kept(cached, LowBudget))
          /\ loose' = loose \ (cached \ Kept(cached, LowBudget))
          /\ \A l \in Elements \ (cached \ Kept(cached, LowBudget)) : texture'[l] = texture[l]
      BY <1>7 DEF Trim, Discard, handoff
    <2>2. staged = {} /\ cached \subseteq Elements
      BY <1>7 DEF Trim, Inv, PhaseInv, TypeOK
    <2> QED
      BY <1>1, <2>1, <2>2 DEF GoneInv
  <1>8. CASE Invalidate
    <2>1. cached' = {} /\ staged' = {}
      BY <1>8 DEF Invalidate, Inv, PhaseInv
    <2> QED
      BY <1>1, <2>1 DEF GoneInv
  <1> QED
    BY <1>2, <1>3, <1>4, <1>5, <1>6, <1>7, <1>8 DEF PresentStep

LEMMA GoneInitially == Init => GoneInv
  BY DEF Init, PresentInit, NoFrame, GoneInv, DrawnNow

LEMMA GoneStep == CoreInv /\ TypeOK /\ Inv /\ GoneInv /\ [Next]_vars => GoneInv'
  <1> SUFFICES ASSUME CoreInv, TypeOK, Inv, GoneInv, [Next]_vars PROVE GoneInv'
    OBVIOUS
  <1>1. CASE Render
    BY <1>1, RenderKeepsGone
  <1>2. CASE Change
    BY <1>2, ChangeKeepsGone
  <1>3. CASE Present \/ Fault \/ Pressure
    <2>1. PresentStep /\ UNCHANGED <<tree, structureDirty>>
      BY <1>3 DEF Present, Fault, Pressure, PresentStep, coreVars, marks
    <2> QED
      BY <2>1, PresentKeepsGone
  <1>4. CASE UNCHANGED vars
    BY <1>4 DEF vars, coreVars, presentVars, marks, handoff, ledger, adapter, GoneInv, DrawnNow, Attached
  <1> QED
    BY <1>1, <1>2, <1>3, <1>4 DEF Next

LEMMA GoneImplies == TypeOK /\ Inv /\ GoneInv => RemovedElementsGone
  <1> SUFFICES ASSUME TypeOK, Inv, GoneInv, phase = "commit",
                      NEW l \in scene.layers \ ((loose \ staged) \union ScrollViews)
               PROVE  texture[l].draws \subseteq DrawnNow
    BY DEF RemovedElementsGone, DrawnNow
  <1>1. CASE l \in staged
    BY <1>1 DEF GoneInv, DrawnNow
  <1>2. CASE l \notin staged
    <2>1. l \in cached /\ l \notin pendingDirty \union dirty
      BY <1>2 DEF Inv, JobsInv, PhaseInv, NeedsContent
    <2> QED
      BY <1>2, <2>1 DEF GoneInv
  <1> QED
    BY <1>1, <1>2

\* Whatever is removed from the tree, no layer but a scroll view that was only
\* scrolled goes on showing it: the mark element_remove leaves on the root reaches
\* every layer, through any coalescing, failure or eviction in between.
THEOREM RemovedElementsDisappear == Spec => []RemovedElementsGone
  <1>1. Spec => [](TypeOK /\ Inv)
    BY ImplementsPresentation, PresentInvariance, PTL
  <1>2. Spec => []GoneInv
    BY <1>1, CoreInvariance, GoneInitially, GoneStep, PTL DEF Spec
  <1> QED
    BY <1>1, <1>2, GoneImplies, PTL

=============================================================================
