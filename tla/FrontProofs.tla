------------------------------ MODULE FrontProofs ------------------------------
(***************************************************************************)
(* Proofs of the safety properties of the two fronts that drive frames,    *)
(* each for every value of its constants: the frame loop of a page         *)
(* (FrameLoop), then the Android activity (AndroidFront).  They share      *)
(* nothing but this module.                                                *)
(***************************************************************************)
EXTENDS FrameLoop, AndroidFront, TLAPS

-----------------------------------------------------------------------------
(* The page.  Its three invariants have little in common, so each has its   *)
(* own strengthening, proved on top of the type invariant: what a frame     *)
(* leaves while it runs (WakeInv), how the size the core notified travels   *)
(* to the renderer (SizeInv), and the books of the fonts, which are         *)
(* inductive.                                                               *)

\* While a frame runs the transaction is open and the input is drained; once the
\* queue is flushed nothing is enqueued before the frame ends.
WakeInv ==
  /\ NothingSleeps
  /\ prepared = (phase # "idle")
  /\ phase # "idle" => ~input
  /\ phase = "commit" => queue = NoMutations

\* A notified element keeps its listener and its box, which only a flush changes
\* and the render after it notifies again.
NotifiedInv ==
  \A v \in Views : notified[v] # None =>
    /\ v \in listening /\ box[v] # None
    /\ phase # "commit" => box[v] = notified[v]

\* A size on its way is the one notified last, and is on its way either between
\* frames or inside one; the renderer knows sizes only of listening elements.
SizeInv ==
  /\ phase # "idle" => deliveries = NoSizes
  /\ phase \in {"idle", "commit", "handler"} => rows = NoSizes
  /\ \A v \in Views :
       /\ deliveries[v] # None => deliveries[v] = notified[v]
       /\ rows[v] # None => rows[v] = notified[v]
       /\ draw[v] # Blank => v \in listening
       /\ draw[v].size # None => notified[v] # None

DrawInv == NotifiedInv /\ SizeInv /\ DrawingIsCurrent

-----------------------------------------------------------------------------
(* Types                                                                   *)

LEMMA FontTypesInit == FontInit => FontTypeOK
  <1>1. 0 \in 0 .. MaxAttempts - 1
    BY FontAssumption
  <1> QED
    BY <1>1 DEF FontInit, FontTypeOK

LEMMA DetectTypes ==
  ASSUME FontTypeOK, NEW families \in SUBSET Families, DetectMissing(families)
  PROVE  FontTypeOK'
  BY DEF FontTypeOK, DetectMissing

LEMMA DrainTypes == ASSUME FontTypeOK, DrainMailbox, DriveRequests PROVE FontTypeOK'
  <1> USE DEF FontTypeOK, DrainMailbox, DriveRequests, MarkResults
  <1>1. Loaded \subseteq Families /\ Failed \subseteq Families
    BY DEF Loaded, Failed, Result
  <1>2. attempts' \in [Families -> 0 .. MaxAttempts - 1]
    BY FontAssumption DEF GivesUp
  <1> QED
    BY <1>1, <1>2

LEMMA FetchTypes ==
  ASSUME FontTypeOK, NEW f \in Families, NEW loaded \in BOOLEAN, FetchEnds(f, loaded)
  PROVE  FontTypeOK'
  BY DEF FontTypeOK, FetchEnds, Result, tracker

\* The sizes, paintings and mutations a renderer handles.
LEMMA TypesInit == FrameLoopInit => FrameLoopTypeOK
  <1>1. SUFFICES ASSUME FrameLoopInit PROVE FrameLoopTypeOK
    OBVIOUS
  <1>2. FontTypeOK
    BY <1>1, FontTypesInit DEF FrameLoopInit
  <1>3. NoMutations \in [draws: [Views -> Painting \union {Blank, Unset}],
                          boxes: [Views -> Sizes \union {Unset}],
                          texts: SUBSET Families, motion: BOOLEAN]
    BY DEF NoMutations
  <1>4. NoSizes \in [Views -> Sizes \union {None}]
    BY DEF NoSizes
  <1>5. /\ draw \in [Views -> [value: Painters, size: Sizes \union {None}] \union {Blank}]
        /\ picture \in [Views -> Painting \union {Blank}]
    BY <1>1 DEF FrameLoopInit
  <1>6. changes \in 0 .. MaxChanges /\ throws \in 0 .. MaxThrows
    BY <1>1, FrameLoopAssumption DEF FrameLoopInit
  <1> QED
    BY <1>1, <1>2, <1>3, <1>4, <1>5, <1>6 DEF FrameLoopInit, FrameLoopTypeOK

Queues == [draws: [Views -> Painting \union {Blank, Unset}],
           boxes: [Views -> Sizes \union {Unset}],
           texts: SUBSET Families, motion: BOOLEAN]

LEMMA NoMutationsTypes == NoMutations \in Queues
  BY DEF NoMutations, Queues

LEMMA SameFontTypes == ASSUME FontTypeOK, UNCHANGED fontVars PROVE FontTypeOK'
  BY DEF fontVars, tracker, FontTypeOK

LEMMA RecordTypes ==
  ASSUME FrameLoopTypeOK, NEW v \in Views, NEW painting \in Painting \union {Blank},
         Record(v, painting)
  PROVE  queue' \in Queues /\ scheduled' \in BOOLEAN
  BY DEF Record, EnqueueMutations, Wake, Queues, FrameLoopTypeOK

\* A resize with an actual size gives a painting of the painter of the element.
LEMMA ResizedTypes ==
  ASSUME FrameLoopTypeOK, NEW v \in Views, draw[v] # Blank, rows[v] # None
  PROVE  /\ Resized(v) \in [Views -> [value: Painters, size: Sizes \union {None}]
                                     \union {Blank}]
         /\ Resized(v)[v] \in Painting
  BY DEF Resized, Painting, FrameLoopTypeOK

LEMMA AbortTypes ==
  ASSUME FrameLoopTypeOK, Abort,
         draw' \in [Views -> [value: Painters, size: Sizes \union {None}] \union {Blank}]
  PROVE  FrameLoopTypeOK'
  <1>1. queue' \in Queues /\ rows' \in [Views -> Sizes \union {None}]
    BY NoMutationsTypes DEF Abort, NoSizes
  <1>2. throws' \in 0 .. MaxThrows
    BY FrameLoopAssumption DEF Abort, FrameLoopTypeOK
  <1> QED
    BY <1>1, <1>2, SameFontTypes
    DEF Abort, CloseTransaction, resizeVars, elementVars, FrameLoopTypeOK, Queues

LEMMA CallTypes == ASSUME FrameLoopTypeOK, Application PROVE FrameLoopTypeOK'
  <1> DEFINE Draws == [Views -> [value: Painters, size: Sizes \union {None}] \union {Blank}]
             Outcome == /\ started' \in BOOLEAN /\ scheduled' \in BOOLEAN
                        /\ queue' \in Queues /\ draw' \in Draws /\ listening' \subseteq Views
  <1>1. SUFFICES Outcome
    <2>1. changes' \in 0 .. MaxChanges
      BY FrameLoopAssumption DEF Application, FrameLoopTypeOK
    <2> HIDE DEF Outcome
    <2> QED
      BY <2>1, SameFontTypes DEF Application, frameVars, elementVars, FrameLoopTypeOK, Queues, Outcome
  <1>2. CASE Start \/ Stop
    BY <1>2 DEF Start, Stop, FrameLoopTypeOK, Queues
  <1>3. CASE SetMotion
    BY <1>3 DEF SetMotion, EnqueueMutations, Wake, FrameLoopTypeOK, Queues
  <1>4. ASSUME NEW f \in Families, SetText(f) PROVE Outcome
    BY <1>4 DEF SetText, EnqueueMutations, Wake, FrameLoopTypeOK, Queues
  <1>5. ASSUME NEW v \in Views, NEW s \in Sizes, SetBox(v, s) PROVE Outcome
    BY <1>5 DEF SetBox, EnqueueMutations, Wake, FrameLoopTypeOK, Queues
  <1>6. ASSUME NEW v \in Views, NEW p \in Painters, RegisterDraw(v, p) PROVE Outcome
    BY <1>6 DEF RegisterDraw, FrameLoopTypeOK, Queues
  <1>7. ASSUME NEW v \in Views, NEW p \in Painters, ChangeDraw(v, p) PROVE Outcome
    BY <1>7, RecordTypes DEF ChangeDraw, FrameLoopTypeOK, Queues, Painting
  <1>8. ASSUME NEW v \in Views, ClearDraw(v) PROVE Outcome
    BY <1>8, RecordTypes DEF ClearDraw, FrameLoopTypeOK
  <1> QED
    BY <1>2, <1>3, <1>4, <1>5, <1>6, <1>7, <1>8 DEF Application, RendererCall

THEOREM FrameLoopTypeCorrect == FrameLoopSpec => []FrameLoopTypeOK
  <1>1. ASSUME FrameLoopTypeOK, [FrameLoopNext]_pageVars PROVE FrameLoopTypeOK'
    <2> USE <1>1
    <2>0. FontTypeOK
      BY DEF FrameLoopTypeOK
    <2>1. CASE UNCHANGED pageVars
      BY <2>1 DEF pageVars, rendererVars, frameVars, resizeVars, elementVars, changeVars, fontVars,
                  tracker, FrameLoopTypeOK, FontTypeOK
    <2>2. CASE Application
      BY <2>2, CallTypes
    <2>3. CASE PageInput
      BY <2>3, SameFontTypes DEF PageInput, Wake, frameVars, resizeVars, elementVars, changeVars,
                  FrameLoopTypeOK
    <2>4. CASE FetchTask
      BY <2>0, <2>4, FetchTypes DEF FetchTask, rendererVars, frameVars, resizeVars, elementVars,
                  changeVars, FrameLoopTypeOK
    <2>5. CASE Prepare
      <3>1. FontTypeOK'
        BY <2>0, <2>5, DrainTypes DEF Prepare
      <3>2. deliveries' \in [Views -> Sizes \union {None}]
        BY <2>5 DEF Prepare, NoSizes
      <3> QED
        BY <2>5, <3>1, <3>2 DEF Prepare, OpenTransaction, changeVars, FrameLoopTypeOK
    <2>6. ASSUME NEW v \in Views, DispatchResize(v) PROVE FrameLoopTypeOK'
      <3>1. /\ draw' \in [Views -> [value: Painters, size: Sizes \union {None}]
                                     \union {Blank}]
            /\ queue' \in Queues /\ scheduled' \in BOOLEAN
        <4>1. CASE Resize(v)
          <5>1. Resized(v)[v] \in Painting /\ Record(v, Resized(v)[v]) /\ draw' = Resized(v)
            BY <2>6, <4>1, ResizedTypes DEF DispatchResize, Resize
          <5> QED
            BY <2>6, <4>1, <5>1, ResizedTypes, RecordTypes DEF DispatchResize, Resize
        <4>2. CASE ~Resize(v)
          BY <2>6, <4>2 DEF DispatchResize, FrameLoopTypeOK, Queues
        <4> QED
          BY <4>1, <4>2
      <3>2. rows' \in [Views -> Sizes \union {None}]
        BY <2>6 DEF DispatchResize, FrameLoopTypeOK
      <3> QED
        BY <2>6, <3>1, <3>2, SameFontTypes
        DEF DispatchResize, resizeVars, elementVars, changeVars, FrameLoopTypeOK, Queues
    <2>7. ASSUME NEW v \in Views, PainterThrows(v) PROVE FrameLoopTypeOK'
      BY <2>7, AbortTypes, ResizedTypes DEF PainterThrows, Resize
    <2>8. CASE DispatchClick \/ HandlerReturns
      BY <2>8, SameFontTypes
      DEF DispatchClick, HandlerReturns, rendererVars, resizeVars, elementVars, changeVars,
          FrameLoopTypeOK
    <2>9. CASE HandlerThrows \/ FlushFails
      BY <2>9, AbortTypes DEF HandlerThrows, FlushFails, FrameLoopTypeOK
    <2>10. CASE Flush
      <3>1. queue' \in Queues
        BY <2>10, NoMutationsTypes DEF Flush
      <3>2. /\ box' \in [Views -> Sizes \union {None}]
            /\ picture' \in [Views -> Painting \union {Blank}]
        BY <2>10 DEF Flush, FrameLoopTypeOK
      <3>3. text' \subseteq Families /\ unshaped' \subseteq text' /\ moving' \in BOOLEAN
        BY <2>10 DEF Flush, FrameLoopTypeOK
      <3> QED
        BY <2>10, <3>1, <3>2, <3>3, SameFontTypes
        DEF Flush, resizeVars, changeVars, FrameLoopTypeOK, Queues
    <2>11. CASE Commit \/ PresentFails
      <3>1. Render
        BY <2>11 DEF Commit, PresentFails
      <3>2. FontTypeOK'
        BY <2>0, <3>1, DetectTypes DEF Render, FrameLoopTypeOK
      <3>3. /\ notified' \in [Views -> Sizes \union {None}]
            /\ deliveries' \in [Views -> Sizes \union {None}]
        BY <3>1 DEF Render, FrameLoopTypeOK
      <3>4. scheduled' \in BOOLEAN /\ moving' \in BOOLEAN /\ failed' \in BOOLEAN
        BY <2>11, <3>1 DEF Render, Commit, PresentFails, FrameLoopTypeOK
      <3>5. throws' \in 0 .. MaxThrows
        BY <2>11, FrameLoopAssumption DEF Commit, PresentFails, FrameLoopTypeOK
      <3> QED
        BY <3>1, <3>2, <3>3, <3>4, <3>5 DEF Render, CloseTransaction, FrameLoopTypeOK
    <2> QED
      BY <2>1, <2>2, <2>3, <2>4, <2>5, <2>6, <2>7, <2>8, <2>9, <2>10, <2>11
      DEF FrameLoopNext, Frame
  <1> QED
    BY <1>1, TypesInit, PTL DEF FrameLoopSpec

-----------------------------------------------------------------------------
(* Waking                                                                  *)

LEMMA WakeStep == ASSUME FrameLoopTypeOK, WakeInv, [FrameLoopNext]_pageVars PROVE WakeInv'
  <1> USE DEF WakeInv, NothingSleeps
  <1>1. CASE UNCHANGED pageVars
    BY <1>1 DEF pageVars, rendererVars, frameVars, resizeVars, elementVars, changeVars
  <1>2. CASE Application
    BY <1>2 DEF Application, RendererCall, Start, Stop, SetMotion, SetText, SetBox, RegisterDraw,
                ChangeDraw, ClearDraw, Record, EnqueueMutations, Wake, frameVars, elementVars, FrameLoopTypeOK
  <1>3. CASE PageInput
    BY <1>3 DEF PageInput, Wake, frameVars, elementVars, changeVars, FrameLoopTypeOK
  <1>4. CASE FetchTask
    BY <1>4 DEF FetchTask, rendererVars, frameVars, elementVars, changeVars
  <1>5. CASE Prepare
    BY <1>5 DEF Prepare, OpenTransaction, changeVars
  <1>6. ASSUME NEW v \in Views, DispatchResize(v) PROVE WakeInv'
    BY <1>6 DEF DispatchResize, Record, EnqueueMutations, Wake, elementVars, changeVars, FrameLoopTypeOK
  <1>7. CASE Abort
    BY <1>7 DEF Abort, CloseTransaction, elementVars
  <1>8. CASE DispatchClick \/ HandlerReturns
    BY <1>8 DEF DispatchClick, HandlerReturns, rendererVars, elementVars, changeVars
  <1>9. CASE Flush
    BY <1>9 DEF Flush, Dispatched, changeVars
  <1>10. CASE Commit
    BY <1>10 DEF Commit, Render, CloseTransaction, FrameLoopTypeOK
  <1>11. CASE PresentFails
    BY <1>11 DEF PresentFails, Render, CloseTransaction, FrameLoopTypeOK
  <1> QED
    BY <1>1, <1>2, <1>3, <1>4, <1>5, <1>6, <1>7, <1>8, <1>9, <1>10, <1>11
    DEF FrameLoopNext, Frame, PainterThrows, HandlerThrows, FlushFails

\* A stopped renderer has no frame armed; work that arms the loop is never left
\* without one while no frame runs; and a frame, however it ended, closes its
\* transaction.
THEOREM LoopNeverSleeps == FrameLoopSpec => []NothingSleeps
  <1>1. FrameLoopInit => WakeInv
    BY DEF FrameLoopInit, WakeInv, NothingSleeps
  <1>2. FrameLoopTypeOK /\ WakeInv /\ [FrameLoopNext]_pageVars => WakeInv'
    BY WakeStep
  <1>3. WakeInv => NothingSleeps
    BY DEF WakeInv
  <1> QED
    BY <1>1, <1>2, <1>3, FrameLoopTypeCorrect, PTL DEF FrameLoopSpec

-----------------------------------------------------------------------------
(* The books of the fonts                                                  *)

\* No result is both a success and a failure, and results are of families.
LEMMA ResultFamilies ==
  ASSUME FontTypeOK PROVE Loaded \subseteq Families /\ Failed \subseteq Families
  BY DEF FontTypeOK, Result, Loaded, Failed

LEMMA DetectBooks ==
  ASSUME FontTypeOK, BooksAgree, NEW families \in SUBSET Families, DetectMissing(families)
  PROVE  BooksAgree'
  BY DEF FontTypeOK, BooksAgree, DetectMissing, ShouldRequest, Loaded, Failed

LEMMA DrainBooks ==
  ASSUME FontTypeOK, BooksAgree, DrainMailbox, DriveRequests PROVE BooksAgree'
  <1>1. Loaded' = {} /\ Failed' = {}
    BY DEF DrainMailbox, Loaded, Failed
  <1> QED
    BY <1>1 DEF BooksAgree, DrainMailbox, DriveRequests, MarkResults

LEMMA FetchBooks ==
  ASSUME FontTypeOK, BooksAgree, NEW f \in Families, NEW loaded \in BOOLEAN,
         FetchEnds(f, loaded)
  PROVE  BooksAgree'
  <1> DEFINE new == [family |-> f, loaded |-> loaded]
  <1>1. new.family = f /\ new.loaded = loaded
    OBVIOUS
  <1>2. fontMailbox' = fontMailbox \union {new}
    BY DEF FetchEnds
  <1> HIDE DEF new
  <1>3. CASE loaded
    <2>1. Loaded' = Loaded \union {f} /\ Failed' = Failed
      BY <1>1, <1>2, <1>3 DEF Loaded, Failed
    <2> QED
      BY <2>1 DEF BooksAgree, FetchEnds, tracker
  <1>4. CASE ~loaded
    <2>1. Failed' = Failed \union {f} /\ Loaded' = Loaded
      BY <1>1, <1>2, <1>4 DEF Loaded, Failed
    <2> QED
      BY <2>1 DEF BooksAgree, FetchEnds, tracker
  <1> QED
    BY <1>3, <1>4

\* Shaping accounts for every text it shapes.
LEMMA DetectAccounts ==
  ASSUME FrameLoopTypeOK, MissingFontsAreAccounted, Render PROVE MissingFontsAreAccounted'
  <1>1. FontTypeOK /\ (IF fontsDirty THEN text ELSE unshaped) \in SUBSET Families
    BY DEF FrameLoopTypeOK
  <1>2. BooksAgree'
    BY <1>1, DetectBooks DEF Render, MissingFontsAreAccounted
  <1>3. ASSUME NEW f \in text', Missing(f)' PROVE f \in (inFlight \union exhausted)'
    <2>1. f \in text /\ Missing(f)
      BY <1>3 DEF Render, DetectMissing, Missing
    <2> QED
      BY <2>1 DEF Render, DetectMissing, ShouldRequest, MissingFontsAreAccounted
  <1> QED
    BY <1>2, <1>3 DEF MissingFontsAreAccounted

LEMMA DrainAccounts ==
  ASSUME FrameLoopTypeOK, MissingFontsAreAccounted, Prepare PROVE MissingFontsAreAccounted'
  <1>1. BooksAgree'
    BY DrainBooks DEF Prepare, FrameLoopTypeOK, MissingFontsAreAccounted
  <1>2. ASSUME NEW f \in (text \ unshaped)', Missing(f)', fontsDirty' = FALSE
        PROVE  f \in (inFlight \union exhausted)'
    <2>1. Loaded = {} /\ ~fontsDirty /\ \A g \in Failed : GivesUp(g)
      BY <1>2 DEF Prepare, DrainMailbox, FrameLoopTypeOK, FontTypeOK
    <2>2. f \in text \ unshaped /\ Missing(f)
      BY <1>2, <2>1 DEF Prepare, DrainMailbox, Missing
    <2> QED
      BY <2>1, <2>2 DEF Prepare, DrainMailbox, MarkResults, MissingFontsAreAccounted
  <1>3. fontsDirty' \in BOOLEAN
    BY DEF Prepare, DrainMailbox
  <1> QED
    BY <1>1, <1>2, <1>3 DEF MissingFontsAreAccounted

\* The books of tracker, fetcher and mailbox agree whatever fails, and a family
\* that a shaped text misses is in flight, given up, or shaped for again.
THEOREM NoFontIsForgotten == FrameLoopSpec => []MissingFontsAreAccounted
  <1>1. FrameLoopInit => MissingFontsAreAccounted
    BY DEF FrameLoopInit, FontInit, MissingFontsAreAccounted, BooksAgree, Loaded, Failed
  <1>2. ASSUME FrameLoopTypeOK, MissingFontsAreAccounted, [FrameLoopNext]_pageVars
        PROVE  MissingFontsAreAccounted'
    <2> USE <1>2
    <2>1. CASE UNCHANGED <<text, unshaped, fontVars>>
      BY <2>1 DEF fontVars, tracker, MissingFontsAreAccounted, BooksAgree, Missing, Loaded, Failed
    <2>2. CASE Flush
      BY <2>2 DEF Flush, fontVars, tracker, MissingFontsAreAccounted, BooksAgree, Missing,
                  Loaded, Failed, FrameLoopTypeOK
    <2>3. CASE FetchTask
      <3>1. PICK f \in Families, loaded \in BOOLEAN : FetchEnds(f, loaded)
        BY <2>3 DEF FetchTask
      <3>2. BooksAgree'
        BY <3>1, FetchBooks DEF FrameLoopTypeOK, MissingFontsAreAccounted
      <3> QED
        BY <2>3, <3>1, <3>2 DEF FetchTask, FetchEnds, elementVars, tracker,
                                MissingFontsAreAccounted, Missing
    <2>4. CASE Prepare
      BY <2>4, DrainAccounts
    <2>5. CASE Commit \/ PresentFails
      BY <2>5, DetectAccounts DEF Commit, PresentFails
    <2>6. CASE UNCHANGED pageVars \/ Application \/ PageInput
      BY <2>1, <2>6 DEF pageVars, elementVars, Application, PageInput
    <2>7. CASE Abort \/ DispatchClick \/ HandlerReturns
      BY <2>1, <2>7 DEF Abort, DispatchClick, HandlerReturns, elementVars
    <2>8. ASSUME NEW v \in Views, DispatchResize(v) PROVE MissingFontsAreAccounted'
      BY <2>1, <2>8 DEF DispatchResize, elementVars
    <2> QED
      BY <2>2, <2>3, <2>4, <2>5, <2>6, <2>7, <2>8
      DEF FrameLoopNext, Frame, PainterThrows, HandlerThrows, FlushFails
  <1> QED
    BY <1>1, <1>2, FrameLoopTypeCorrect, PTL DEF FrameLoopSpec

-----------------------------------------------------------------------------
(* Drawing                                                                 *)

\* A drawing of a known size is a painting.
LEMMA KnownSizes ==
  ASSUME NEW d \in [value: Painters, size: Sizes \union {None}] \union {Blank}, d.size # None
  PROVE  d \in Painting /\ d # Unset
  BY FrameLoopAssumption DEF Painting, Blank

\* A call leaves a size alone or forgets it with the drawing, records what it
\* draws, and drops no listener.
LEMMA CallDraws ==
  ASSUME FrameLoopTypeOK, Application, NEW v \in Views
  PROVE  /\ listening \subseteq listening'
         /\ draw'[v] # Blank => draw[v] # Blank \/ v \in listening'
         /\ \/ draw'[v] = draw[v] /\ queue'.draws[v] = queue.draws[v]
            \/ draw[v].size = None /\ draw'[v].size = None /\ queue'.draws[v] = queue.draws[v]
            \/ draw'[v] = Blank /\ queue'.draws[v] = Blank
            \/ draw[v].size # None /\ draw'[v].size = draw[v].size /\ queue'.draws[v] = draw'[v]
  <1> USE DEF FrameLoopTypeOK
  <1>1. CASE Start \/ Stop
    BY <1>1 DEF Start, Stop
  <1>2. CASE SetMotion
    BY <1>2 DEF SetMotion, EnqueueMutations
  <1>3. ASSUME NEW f \in Families, SetText(f) PROVE UNCHANGED <<listening, draw, queue.draws>>
    BY <1>3 DEF SetText, EnqueueMutations
  <1>4. ASSUME NEW w \in Views, NEW s \in Sizes, SetBox(w, s)
        PROVE  UNCHANGED <<listening, draw, queue.draws>>
    BY <1>4 DEF SetBox, EnqueueMutations
  <1>5. ASSUME NEW w \in Views, NEW p \in Painters, RegisterDraw(w, p)
        PROVE  /\ listening' = listening \union {w} /\ UNCHANGED queue
               /\ draw[w] = Blank /\ draw'[w] # Blank => draw'[w].size = None
               /\ w # v => draw'[v] = draw[v]
    BY <1>5 DEF RegisterDraw
  <1>6. ASSUME NEW w \in Views, NEW p \in Painters, ChangeDraw(w, p)
        PROVE  /\ listening' = listening
               /\ draw[w] # Blank /\ draw'[w].size = draw[w].size
               /\ queue'.draws[w] = IF draw[w].size = None THEN queue.draws[w] ELSE draw'[w]
               /\ w # v => draw'[v] = draw[v] /\ queue'.draws[v] = queue.draws[v]
    BY <1>6 DEF ChangeDraw, Record, EnqueueMutations
  <1>7. ASSUME NEW w \in Views, ClearDraw(w)
        PROVE  /\ listening' = listening
               /\ draw'[w] = Blank /\ queue'.draws[w] = Blank
               /\ w # v => draw'[v] = draw[v] /\ queue'.draws[v] = queue.draws[v]
    BY <1>7 DEF ClearDraw, Record, EnqueueMutations
  <1>8. CASE Start \/ Stop \/ SetMotion \/ (\E f \in Families : SetText(f))
    <2>1. UNCHANGED <<listening, draw, queue.draws>>
      BY <1>8, <1>1, <1>2, <1>3 DEF Start, Stop, SetMotion, EnqueueMutations
    <2> QED
      BY <2>1
  <1>9. ASSUME NEW w \in Views, NEW s \in Sizes, SetBox(w, s)
        PROVE  UNCHANGED <<listening, draw[v], queue.draws[v]>>
    BY <1>4, <1>9
  <1>10. ASSUME NEW w \in Views, NEW p \in Painters, RegisterDraw(w, p), w = v
         PROVE  draw[v].size = None /\ draw'[v].size = None /\ v \in listening'
    BY <1>10 DEF RegisterDraw, Blank
  <1> USE DEF Blank
  <1> QED
    <2>1. CASE \E w \in Views : \E p \in Painters : RegisterDraw(w, p)
      BY <2>1, <1>5, <1>10
    <2>2. CASE \E w \in Views : \E p \in Painters : ChangeDraw(w, p)
      BY <2>2, <1>6
    <2>3. CASE \E w \in Views : ClearDraw(w)
      BY <2>3, <1>7
    <2>4. CASE \E w \in Views : \E s \in Sizes : SetBox(w, s)
      BY <2>4, <1>9
    <2>5. CASE Start \/ Stop \/ SetMotion \/ \E f \in Families : SetText(f)
      BY <2>5, <1>8
    <2> QED
      BY <2>1, <2>2, <2>3, <2>4, <2>5 DEF Application, RendererCall
LEMMA DrawStep ==
  ASSUME FrameLoopTypeOK, FrameLoopTypeOK', WakeInv, DrawInv, [FrameLoopNext]_pageVars PROVE DrawInv'
  <1> USE DEF DrawInv
  <1>1. CASE UNCHANGED pageVars
    BY <1>1 DEF pageVars, rendererVars, frameVars, resizeVars, elementVars, changeVars, NotifiedInv,
                SizeInv, DrawingIsCurrent, Due
  <1>2. CASE Application
    <2>1. UNCHANGED <<frameVars, notified, deliveries, box, picture, failed>>
      BY <1>2 DEF Application, elementVars
    <2>2. NotifiedInv' /\ SizeInv'
      BY <1>2, <2>1, CallDraws DEF frameVars, NotifiedInv, SizeInv, Blank
    <2>3. ASSUME NEW v \in Views, ~failed
          PROVE  Due(v)' = IF draw'[v].size = None THEN Blank ELSE draw'[v]
      <3>1. Due(v) = IF draw[v].size = None THEN Blank ELSE draw[v]
        BY <2>3 DEF DrawingIsCurrent
      <3>2. Blank # Unset /\ Blank.size = None
        BY FrameLoopAssumption DEF Blank
      <3>3. draw'[v].size # None => draw'[v] # Unset
        BY KnownSizes DEF FrameLoopTypeOK
      <3> QED
        BY <1>2, <2>1, <3>1, <3>2, <3>3, CallDraws DEF Due
    <2>4. ASSUME NEW v \in Views, ~failed, draw'[v].size # None
          PROVE  draw[v].size = draw'[v].size
      BY <1>2, <2>4, CallDraws DEF Blank
    <2> QED
      BY <2>1, <2>2, <2>3, <2>4 DEF frameVars, DrawingIsCurrent
  <1>3. CASE PageInput
    BY <1>3 DEF PageInput, frameVars, resizeVars, elementVars, changeVars, NotifiedInv,
                SizeInv, DrawingIsCurrent, Due
  <1>4. CASE FetchTask
    BY <1>4 DEF FetchTask, rendererVars, frameVars, resizeVars, elementVars, changeVars, NotifiedInv,
                SizeInv, DrawingIsCurrent, Due
  <1>5. CASE Prepare
    BY <1>5 DEF Prepare, changeVars, NoSizes, NotifiedInv, SizeInv, DrawingIsCurrent, Due
  <1>6. ASSUME NEW v \in Views, DispatchResize(v) PROVE DrawInv'
    <2>1. CASE Resize(v)
      <3>1. /\ draw' = [draw EXCEPT ![v].size = rows[v]]
            /\ queue' = [queue EXCEPT !.draws[v] = draw'[v]]
            /\ draw[v] # Blank
        BY <1>6, <2>1 DEF DispatchResize, Resize, Resized, Record, EnqueueMutations
      <3>2. draw'[v].size = rows[v] /\ queue'.draws[v] = draw'[v]
        BY <3>1 DEF FrameLoopTypeOK
      <3>3. \A w \in Views : w # v => draw'[w] = draw[w] /\ queue'.draws[w] = queue.draws[w]
        BY <3>1 DEF FrameLoopTypeOK
      <3>4. draw'[v] # Unset
        BY <1>6, <3>2, KnownSizes DEF DispatchResize, FrameLoopTypeOK
      <3> QED
        BY <1>6, <3>1, <3>2, <3>3, <3>4
        DEF DispatchResize, resizeVars, elementVars, changeVars, NoSizes, NotifiedInv, SizeInv,
            DrawingIsCurrent, Due, FrameLoopTypeOK
    <2>2. CASE ~Resize(v)
      BY <1>6, <2>2
      DEF DispatchResize, Resize, resizeVars, elementVars, changeVars, NoSizes, Blank, NotifiedInv,
          SizeInv, DrawingIsCurrent, Due, FrameLoopTypeOK
    <2> QED
      BY <2>1, <2>2
  <1>7. CASE DispatchClick \/ HandlerReturns
    BY <1>7 DEF DispatchClick, HandlerReturns, rendererVars, resizeVars, elementVars, changeVars,
                NotifiedInv, SizeInv, DrawingIsCurrent, Due
  <1>8. CASE HandlerThrows \/ FlushFails
    BY <1>8 DEF HandlerThrows, FlushFails, Dispatched, Abort, resizeVars, elementVars, NoSizes,
                NotifiedInv, SizeInv, DrawingIsCurrent
  <1>9. ASSUME NEW v \in Views, PainterThrows(v) PROVE DrawInv'
    BY <1>9 DEF PainterThrows, Resize, Resized, Abort, resizeVars, elementVars, NoSizes,
                NotifiedInv, SizeInv, DrawingIsCurrent, FrameLoopTypeOK
  <1>10. CASE Flush
    BY <1>10, FrameLoopAssumption
    DEF Flush, Dispatched, resizeVars, changeVars, NoSizes, NoMutations,
        NotifiedInv, SizeInv, DrawingIsCurrent, Due, FrameLoopTypeOK
  <1>11. CASE Commit \/ PresentFails
    <2>1. Render /\ (failed => failed')
      BY <1>11 DEF Commit, PresentFails
    <2>2. phase = "commit" /\ phase' = "idle" /\ UNCHANGED <<queue, draw, rows, listening, box, picture>>
      BY <2>1 DEF Render
    <2>3. ASSUME NEW v \in Views
          PROVE  IF v \in listening /\ box[v] # None /\ box[v] # notified[v]
                 THEN notified'[v] = box[v] /\ deliveries'[v] = box[v]
                 ELSE notified'[v] = notified[v] /\ deliveries'[v] = None
      BY <2>1 DEF Render, NewSizes, SizeInv, NoSizes
    <2>4. NotifiedInv'
      BY <2>2, <2>3 DEF NotifiedInv
    <2>5. SizeInv'
      BY <2>2, <2>3 DEF SizeInv, NoSizes
    <2>6. ASSUME NEW v \in Views, draw[v].size # None
          PROVE  box'[v] = notified'[v] /\ (deliveries'[v] = None => notified'[v] = notified[v])
      <3>1. draw[v] # Blank
        BY <2>6 DEF Blank
      <3> QED
        BY <3>1, <2>2, <2>3, <2>6 DEF NotifiedInv, SizeInv
    <2>7. \A v \in Views : deliveries[v] = None /\ rows[v] = None
      BY <2>2 DEF SizeInv, NoSizes
    <2>8. DrawingIsCurrent'
      BY <2>1, <2>2, <2>6, <2>7 DEF DrawingIsCurrent, Due
    <2> QED
      BY <2>4, <2>5, <2>8
  <1> QED
    BY <1>1, <1>2, <1>3, <1>4, <1>5, <1>6, <1>7, <1>8, <1>9, <1>10, <1>11
    DEF FrameLoopNext, Frame

\* As long as no frame failed, the core shows, or is about to be told to show,
\* what the painter last drew, at the size the core last sent.
THEOREM DrawingsAreCurrent == FrameLoopSpec => []DrawingIsCurrent
  <1>1. FrameLoopInit => WakeInv /\ DrawInv
    <2>1. FrameLoopInit => WakeInv
      BY DEF FrameLoopInit, WakeInv, NothingSleeps
    <2>2. FrameLoopInit => NotifiedInv /\ SizeInv
      BY DEF FrameLoopInit, NotifiedInv, SizeInv, NoSizes, Blank
    <2>3. FrameLoopInit => \A v \in Views : draw[v].size = None /\ Due(v) = Blank
      BY DEF FrameLoopInit, Due, NoMutations, Blank
    <2> QED
      BY <2>1, <2>2, <2>3 DEF DrawInv, DrawingIsCurrent
  <1>2. FrameLoopTypeOK /\ WakeInv /\ [FrameLoopNext]_pageVars => WakeInv'
    BY WakeStep
  <1>3. FrameLoopTypeOK /\ FrameLoopTypeOK' /\ WakeInv /\ DrawInv /\ [FrameLoopNext]_pageVars => DrawInv'
    BY DrawStep
  <1>4. DrawInv => DrawingIsCurrent
    BY DEF DrawInv
  <1> QED
    BY <1>1, <1>2, <1>3, <1>4, FrameLoopTypeCorrect, PTL DEF FrameLoopSpec

-----------------------------------------------------------------------------
(* The Android activity.  The session and the bridge meet only in           *)
(* FrameSent, so the heart of the argument is an algebraic fact: a target   *)
(* that holds the baseline and merges the difference to a tree holds that   *)
(* tree (MergeUpdate).  The rest is book-keeping of two threads: where the  *)
(* session exists (PlaceInv), what its records mean (DeliveredInv) and who  *)
(* still has to act when a message or a change waits (RequestInv).          *)

\* The handle of the session is in the slot only while the session exists, messages
\* are in the mailbox only while the handle was; only a renderer makes it active.
PlaceInv ==
  /\ at \in {"unmount", "mount", "await"} => ~ Mounted(session)
  /\ slot => Mounted(session)
  /\ mailbox # <<>> => slot
  /\ session.state = "Active" => raster # "none"

\* What an active session recorded is a whole tree, of the generation it says, and
\* a frame is under way or asked for when that is not the present one.
DeliveredInv ==
  /\ BaselineIsShown
  /\ session.state = "Active" =>
       /\ session.baseline \in Projections
       /\ session.generation \in Nat /\ session.generation <= generation
       /\ (session.generation = generation /\ ~ session.scaleDirty)
            => session.baseline = Projection(tree, session.scale)
       /\ (runtime /\ raster # "failed" /\ NeedsUpdate(session, generation))
            => armed \/ ready \/ at \in {"take", "apply"}

\* Who acts on a waiting message: the callback that left it, the flag, or the frame.
RequestInv ==
  /\ mailbox # <<>> => callAt = "store" \/ armed \/ ready \/ at = "take" \/ wakePending
  /\ wakePending => callAt = "wake" \/ woken \/ at = "tail" \/ ~ runtime
  /\ ready => at = "tail" \/ ~ runtime

Inv == TypeOK /\ PlaceInv /\ DeliveredInv /\ RequestInv

-----------------------------------------------------------------------------
(* The operators of the session                                            *)

LEMMA ForgetTypes ==
  ASSUME NEW s \in Sessions, NEW state \in States, NEW pending \in Nat
  PROVE  /\ Forget(s, state, pending) \in Sessions
         /\ Forget(s, state, pending).state = state
  BY DEF Forget, Sessions

LEMMA NewSessionTypes ==
  ASSUME NEW scale \in Scales
  PROVE  NewSession(scale) \in Sessions /\ NewSession(scale).state = "Dormant"
  BY DEF NewSession, Sessions, States

LEMMA NoSessionTypes == NoSession \in Sessions /\ NoSession.state = "Detached"
  <1>1. (CHOOSE s \in Scales : TRUE) \in Scales
    BY AccessibilityAssumption
  <1> QED
    BY <1>1, NewSessionTypes DEF NoSession, Sessions, States

\* A message leaves a mounted session mounted and never makes it active.
LEMMA MessageTypes ==
  ASSUME NEW s \in Sessions
  PROVE  /\ OnActivate(s) \in Sessions /\ OnDeactivate(s) \in Sessions
         /\ Mounted(OnActivate(s)) <=> Mounted(s)
         /\ Mounted(OnDeactivate(s)) <=> Mounted(s)
         /\ OnActivate(s).state # "Active" /\ OnDeactivate(s).state # "Active"
  <1>1. s.pending + 1 \in Nat /\ 0 \in Nat
    BY DEF Sessions
  <1>2. {"Detached", "Dormant", "InitialPending"} \subseteq States
    BY DEF States
  <1> QED
    BY <1>1, <1>2, ForgetTypes DEF OnActivate, OnDeactivate, Mounted

LEMMA ResetTypes ==
  ASSUME NEW s \in Sessions
  PROVE  /\ ResetForTreeReplacement(s) \in Sessions
         /\ Mounted(ResetForTreeReplacement(s)) <=> Mounted(s)
         /\ ResetForTreeReplacement(s).state # "Active"
  <1>1. s.state \in States /\ "InitialPending" \in States
    BY DEF Sessions, States
  <1> QED
    BY <1>1, ForgetTypes DEF ResetForTreeReplacement, Mounted

LEMMA ScaleTypes ==
  ASSUME NEW s \in Sessions, NEW scale \in Scales
  PROVE  /\ SetBaseDpr(s, scale) \in Sessions
         /\ SetBaseDpr(s, scale).state = s.state
         /\ SetBaseDpr(s, scale).baseline = s.baseline
         /\ SetBaseDpr(s, scale).generation = s.generation
         /\ \/ SetBaseDpr(s, scale) = s
            \/ SetBaseDpr(s, scale).scaleDirty
  BY DEF SetBaseDpr, Sessions

LEMMA RefusedTypes ==
  ASSUME NEW s \in Sessions
  PROVE  Refused(s) \in Sessions /\ Refused(s).state = "Dormant"
  <1>1. Forget(s, "Dormant", 0) \in Sessions /\ Forget(s, "Dormant", 0).state = "Dormant"
    BY ForgetTypes DEF States
  <1> QED
    BY <1>1 DEF Refused, Sessions

LEMMA AppliedTypes ==
  ASSUME NEW s \in Sessions, NEW g \in Nat, NEW nodes \in Projections
  PROVE  /\ Applied(s, g, nodes) \in Sessions
         /\ Applied(s, g, nodes).state = "Active"
         /\ Applied(s, g, nodes).baseline = nodes
         /\ Applied(s, g, nodes).generation = g
         /\ Applied(s, g, nodes).scale = s.scale
         /\ ~ NeedsUpdate(Applied(s, g, nodes), g)
  BY DEF Applied, Sessions, States, NeedsUpdate

LEMMA ProjectionShape ==
  ASSUME NEW t \in Trees, NEW scale \in Scales
  PROVE  /\ Projection(t, scale) \in Projections
         /\ DOMAIN Projection(t, scale) = {Root} \union DOMAIN t
         /\ Projection(t, scale)[Root].children = DOMAIN t
         /\ Projection(t, scale) = [n \in {Root} \union DOMAIN t |-> Projection(t, scale)[n]]
  <1>1. Projection(t, scale) \in Projections
    BY DEF Projections
  <1>2. /\ DOMAIN Projection(t, scale) = {Root} \union DOMAIN t
        /\ Projection(t, scale)[Root] = [children |-> DOMAIN t, scale |-> scale]
        /\ Projection(t, scale) = [n \in {Root} \union DOMAIN t |-> Projection(t, scale)[n]]
    BY DEF Projection
  <1>3. Projection(t, scale)[Root].children = DOMAIN t
    <2>1. [children |-> DOMAIN t, scale |-> scale].children = DOMAIN t
      OBVIOUS
    <2> QED
      BY <1>2, <2>1
  <1> QED
    BY <1>1, <1>2, <1>3

\* A target that holds the baseline of an active session, or whatever it holds when
\* the session sends everything, holds the tree it is sent once it has merged it.
LEMMA MergeUpdate ==
  ASSUME NEW s \in Sessions, NEW t \in Trees, NEW scale \in Scales, NEW h,
         \/ s.state = "InitialPending"
         \/ s.state = "Active" /\ h = s.baseline /\ s.baseline \in Projections
  PROVE  Merge(h, Update(s, Projection(t, scale))) = Projection(t, scale)
  <1> DEFINE nodes == Projection(t, scale)
             update == Update(s, nodes)
             children == IF Root \in DOMAIN update THEN update[Root].children
                         ELSE h[Root].children
  <1>1. /\ DOMAIN nodes = {Root} \union DOMAIN t
        /\ nodes[Root].children = DOMAIN t
        /\ nodes = [n \in {Root} \union DOMAIN t |-> nodes[n]]
    BY ProjectionShape
  <1> HIDE DEF nodes
  <1>2. /\ \A n \in DOMAIN update : update[n] = nodes[n]
        /\ \A n \in DOMAIN nodes \ DOMAIN update : h[n] = nodes[n]
    <2>1. CASE s.state = "InitialPending"
      BY <2>1 DEF Update
    <2>2. CASE s.state = "Active" /\ h = s.baseline
      BY <2>2 DEF Update
    <2> QED
      BY <2>1, <2>2
  <1>3. children = DOMAIN t
    BY <1>1, <1>2
  <1>4. Merge(h, update) =
          [n \in {Root} \union children |-> IF n \in DOMAIN update THEN update[n] ELSE h[n]]
    BY DEF Merge
  <1>5. \A n \in {Root} \union DOMAIN t :
          (IF n \in DOMAIN update THEN update[n] ELSE h[n]) = nodes[n]
    BY <1>1, <1>2
  <1> HIDE DEF update, children
  <1>6. Merge(h, update) = nodes
    BY <1>1, <1>3, <1>4, <1>5
  <1> QED
    BY <1>6 DEF nodes, update
-----------------------------------------------------------------------------
(* What the steps with an outcome do                                       *)

LEMMA CountedTypes ==
  ASSUME TypeOK
  PROVE  /\ Task => calls' \in 0 .. MaxCalls
         /\ Counted => events' \in 0 .. MaxEvents
  BY FrontAssumption DEF TypeOK, DataTypeOK, Task, Counted

\* Generations only grow, and the tree of a generation is one tree.
LEMMA TreeTypes ==
  ASSUME TypeOK, TreeMayChange \/ UNCHANGED <<tree, generation>>
  PROVE  /\ tree' \in Trees /\ generation' \in Nat
         /\ generation <= generation'
         /\ generation' = generation => tree' = tree
  BY DEF TypeOK, DataTypeOK, TreeMayChange

LEMMA PumpTypes ==
  ASSUME TypeOK, Pump
  PROVE  /\ tree' \in Trees /\ generation' \in Nat
         /\ generation <= generation'
         /\ generation' = generation => tree' = tree
         /\ events' \in 0 .. MaxEvents
  <1>1. TreeMayChange \/ UNCHANGED <<tree, generation>>
    BY DEF Pump
  <1>2. events' \in 0 .. MaxEvents
    BY CountedTypes DEF Pump, TypeOK, DataTypeOK
  <1> QED
    BY <1>1, <1>2, TreeTypes

\* An action of the screen reader changes the label of a leaf the tree has.
LEMMA LabelTypes ==
  ASSUME NEW t \in Trees, NEW node \in DOMAIN t, NEW value \in Labels
  PROVE  [t EXCEPT ![node] = value] \in Trees
  <1>1. PICK S \in SUBSET Leaves : t \in [S -> Labels]
    BY DEF Trees
  <1>2. [t EXCEPT ![node] = value] \in [S -> Labels]
    BY <1>1
  <1> QED
    BY <1>2 DEF Trees

LEMMA MessageKinds ==
  ASSUME NEW message \in Messages
  PROVE  message.kind = "Action" => message \in Actions
  BY DEF Messages, Activate, Deactivate, Actions

\* A drained message leaves a session active only if it is an action.
LEMMA ApplyTypes ==
  ASSUME TypeOK, ApplyMessage
  PROVE  /\ session' \in Sessions /\ batch' \in Seq(Messages)
         /\ tree' \in Trees /\ generation' \in Nat
         /\ generation <= generation'
         /\ generation' = generation => tree' = tree
         /\ Mounted(session') <=> Mounted(session)
         /\ session'.state = "Active" => session' = session
  <1> DEFINE message == Head(batch)
  <1>1. message \in Messages /\ batch' \in Seq(Messages)
    BY DEF TypeOK, DataTypeOK, ApplyMessage
  <1>2. session \in Sessions /\ tree \in Trees /\ generation \in Nat
    BY DEF TypeOK, DataTypeOK
  <1>3. CASE session' \in {OnActivate(session), OnDeactivate(session)}
             /\ UNCHANGED <<tree, generation>>
    BY <1>1, <1>2, <1>3, MessageTypes
  <1>4. CASE message.kind = "Action" /\ UNCHANGED session
    <2>1. message.node \in DOMAIN tree =>
            [tree EXCEPT ![message.node] = message.value] \in Trees
      <3>1. message.value \in Labels
        BY <1>1, <1>4, MessageKinds DEF Actions
      <3> QED
        BY <1>2, <3>1, LabelTypes
    <2>2. CASE UNCHANGED <<tree, generation>>
      BY <1>1, <1>2, <1>4, <2>2
    <2>3. CASE /\ message.node \in DOMAIN tree
               /\ tree' = [tree EXCEPT ![message.node] = message.value]
               /\ generation' = generation + 1
      BY <1>1, <1>2, <1>4, <2>1, <2>3
    <2> QED
      BY <1>4, <2>2, <2>3 DEF ApplyMessage, Activate, Deactivate
  <1> QED
    BY <1>3, <1>4 DEF ApplyMessage

\* A delivery leaves a session that is dormant, or active with the target and the
\* bridge holding the present tree and nothing more to send.
LEMMA SentTypes ==
  ASSUME TypeOK, DeliveredInv, FrameSent
  PROVE  /\ session' \in Sessions /\ held' \in Projections \union {Nothing}
         /\ snapshot' \in Projections \union {Nothing}
         /\ Mounted(session) /\ Mounted(session')
         /\ session'.state = "Active" =>
              /\ session'.baseline = Projection(tree', session'.scale)
              /\ session'.baseline \in Projections
              /\ held' = session'.baseline /\ snapshot' = held'
              /\ session'.generation = generation'
              /\ ~ NeedsUpdate(session', generation')
  <1> DEFINE nodes == Projection(tree', session.scale)
  <1>1. /\ session \in Sessions /\ session.scale \in Scales
        /\ held \in Projections \union {Nothing}
        /\ snapshot \in Projections \union {Nothing}
    BY DEF TypeOK, DataTypeOK, Sessions
  <1>2. tree' \in Trees /\ generation' \in Nat
    BY PumpTypes DEF FrameSent
  <1>3. nodes \in Projections
    BY <1>1, <1>2, ProjectionShape
  <1>4. session.state \in {"InitialPending", "Active"}
    BY DEF FrameSent, NeedsUpdate
  <1>5. Mounted(session)
    BY <1>4 DEF Mounted
  <1>6. Merge(held, Update(session, nodes)) = nodes
    <2>1. \/ session.state = "InitialPending"
          \/ session.state = "Active" /\ held = session.baseline
             /\ session.baseline \in Projections
      BY <1>4 DEF DeliveredInv, BaselineIsShown
    <2> QED
      BY <1>1, <1>2, <2>1, MergeUpdate
  <1> HIDE DEF nodes
  <1>7. CASE session' = Refused(session)
    <2>1. session' \in Sessions /\ session'.state = "Dormant"
      BY <1>1, <1>7, RefusedTypes
    <2>2. held' \in {held, nodes} /\ snapshot' \in {snapshot, held'}
      BY <1>6 DEF FrameSent, nodes
    <2> QED
      BY <1>1, <1>3, <1>5, <2>1, <2>2 DEF Mounted
  <1>8. CASE session' = Applied(session, generation', nodes) /\ snapshot' = held' /\ held' = nodes
    BY <1>1, <1>2, <1>3, <1>5, <1>8, AppliedTypes DEF Mounted, nodes
  <1> QED
    BY <1>6, <1>7, <1>8 DEF FrameSent, nodes

-----------------------------------------------------------------------------
(* Types of the control state                                              *)

LEMMA ControlInit == Init => ControlTypeOK
  BY DEF Init, ControlTypeOK

LEMMA ReaderControl == ASSUME ControlTypeOK, ReaderTask PROVE ControlTypeOK'
  <1> USE DEF nativeVars, loopVars, surfaceVars, treeVars, vsyncVars, wakeVars, callVars,
              viewVars, readerVars, Call, ControlTypeOK
  <1>1. CASE FocusGained
    <2>1. activated' \in BOOLEAN /\ callAt' \in {"idle", "enter", "store", "wake"}
      BY <1>1 DEF FocusGained
    <2> QED
      BY <1>1, <2>1 DEF FocusGained
  <1>2. CASE FocusLost
    <2>1. activated' \in BOOLEAN /\ callAt' \in {"idle", "enter", "store", "wake"}
      BY <1>2 DEF FocusLost
    <2>2. focused' \in BOOLEAN
      BY <1>2 DEF FocusLost
    <2> QED
      BY <1>2, <2>1, <2>2 DEF FocusLost
  <1>3. CASE NodeQueried
    BY <1>3 DEF NodeQueried
  <1>4. CASE PerformAction
    BY <1>4 DEF PerformAction
  <1>5. CASE ReaderToggled
    BY <1>5 DEF ReaderToggled
  <1>6. CASE ViewMounted
    <2>1. view' /\ delegate' /\ focused' \in BOOLEAN
      BY <1>6 DEF ViewMounted, PostedTask
    <2> QED
      BY <1>6, <2>1 DEF ViewMounted, PostedTask
  <1>7. CASE DelegateRemoved
    <2>1. delegate' \in BOOLEAN
      BY <1>7 DEF DelegateRemoved, PostedTask
    <2> QED
      BY <1>7, <2>1 DEF DelegateRemoved, PostedTask
  <1> QED
    BY <1>1, <1>2, <1>3, <1>4, <1>5, <1>6, <1>7 DEF ReaderTask

LEMMA CallbackControl == ASSUME ControlTypeOK, Callback PROVE ControlTypeOK'
  <1> USE DEF loopVars, surfaceVars, treeVars, vsyncVars, wakeVars, viewVars, readerVars,
              ControlTypeOK
  <1>1. CASE Enqueue
    BY <1>1 DEF Enqueue
  <1>2. CASE StoreWake
    BY <1>2 DEF StoreWake
  <1>3. CASE WakeLooper
    BY <1>3 DEF WakeLooper
  <1> QED
    BY <1>1, <1>2, <1>3 DEF Callback

LEMMA EventControl == ASSUME ControlTypeOK, Event \/ Vsync \/ Woken PROVE ControlTypeOK'
  <1> USE DEF surfaceVars, treeVars, vsyncVars, wakeVars, callVars, viewVars, readerVars, uiVars,
              ControlTypeOK
  <1>1. CASE InitWindow
    BY <1>1 DEF InitWindow
  <1>2. CASE TerminateWindow
    <2>1. surface' \in BOOLEAN
      BY <1>2 DEF TerminateWindow
    <2> QED
      BY <1>2, <2>1 DEF TerminateWindow
  <1>3. CASE ScaleReported
    BY <1>3 DEF ScaleReported
  <1>4. CASE Input
    BY <1>4 DEF Input
  <1>5. CASE Quit
    <2>1. surface' \in BOOLEAN
      BY <1>5 DEF Quit
    <2> QED
      BY <1>5, <2>1 DEF Quit
  <1>6. CASE Reload
    <2>1. runtime' \in BOOLEAN /\ armed' \in BOOLEAN
      BY <1>6 DEF Reload
    <2> QED
      BY <1>6, <2>1 DEF Reload
  <1>7. CASE Vsync
    <2>1. armed' \in BOOLEAN
      BY <1>7 DEF Vsync
    <2> QED
      BY <1>7, <2>1 DEF Vsync
  <1>8. CASE Woken
    <2>1. woken' \in BOOLEAN
      BY <1>8 DEF Woken
    <2> QED
      BY <1>8, <2>1 DEF Woken
  <1> QED
    BY <1>1, <1>2, <1>3, <1>4, <1>5, <1>6, <1>7, <1>8 DEF Event

LEMMA RemountControl == ASSUME ControlTypeOK, Remount PROVE ControlTypeOK'
  <1> USE DEF surfaceVars, treeVars, vsyncVars, wakeVars, callVars, viewVars, readerVars, uiVars,
              boundVars, ControlTypeOK
  <1>1. CASE Close
    <2>1. slot' \in BOOLEAN
      BY <1>1 DEF Close
    <2> QED
      BY <1>1, <2>1 DEF Close
  <1>2. CASE Unmount
    <2>1. activated' \in BOOLEAN /\ view' \in BOOLEAN
      BY <1>2 DEF Unmount
    <2>2. at' \in {"mount", "tail", "done"} /\ raster' \in {"none", raster}
          /\ goal' \in {"none", goal}
      BY <1>2 DEF Unmount
    <2> QED
      BY <1>2, <2>1, <2>2 DEF Unmount
  <1>3. CASE Mount
    BY <1>3 DEF Mount
  <1>4. CASE MountFails
    BY <1>4 DEF MountFails, SurfaceReady
  <1>5. CASE Publish
    BY <1>5 DEF Publish, SurfaceReady
  <1> QED
    BY <1>1, <1>2, <1>3, <1>4, <1>5 DEF Remount

LEMMA IterateControl == ASSUME ControlTypeOK, Iterate PROVE ControlTypeOK'
  <1> USE DEF loopVars, surfaceVars, treeVars, vsyncVars, wakeVars, callVars, viewVars,
              readerVars, uiVars, Back, ControlTypeOK
  <1>1. CASE NoRuntime
    BY <1>1 DEF NoRuntime
  <1>2. CASE NoFrame
    <2>1. wakePending' \in BOOLEAN
      BY <1>2 DEF NoFrame, TakeWake
    <2> QED
      BY <1>2, <2>1 DEF NoFrame, TakeWake
  <1>3. CASE FrameBegins
    <2>1. ready' \in BOOLEAN /\ wakePending' \in BOOLEAN
      BY <1>3 DEF FrameBegins, TakeWake
    <2> QED
      BY <1>3, <2>1 DEF FrameBegins, TakeWake
  <1>4. CASE TakeMail
    BY <1>4 DEF TakeMail
  <1>5. CASE ApplyMessage
    BY <1>5 DEF ApplyMessage
  <1>6. CASE FrameDropped
    BY <1>6 DEF FrameDropped
  <1>7. CASE Pump
    <2>1. at' \in {"poll", "close"} /\ armed' \in BOOLEAN
      BY <1>7 DEF Pump
    <2> QED
      BY <1>7, <2>1 DEF Pump
  <1> QED
    BY <1>1, <1>2, <1>3, <1>4, <1>5, <1>6, <1>7 DEF Iterate, FrameQuiet, FrameSent

LEMMA ControlStep == ASSUME ControlTypeOK, [Next]_vars PROVE ControlTypeOK'
  <1> USE DEF loopVars, surfaceVars, treeVars, vsyncVars, wakeVars, callVars, viewVars,
              readerVars, uiVars, ControlTypeOK
  <1>1. CASE RasterFails
    BY <1>1 DEF RasterFails
  <1>2. CASE UNCHANGED vars
    BY <1>2 DEF vars
  <1> QED
    BY <1>1, <1>2, ReaderControl, CallbackControl, EventControl, RemountControl, IterateControl
    DEF Next

-----------------------------------------------------------------------------
(* Types of the data.  Only a delivery needs more than the types it starts *)
(* from: that what a target merges is a tree rests on DeliveredInv.        *)

LEMMA DataInit == Init => DataTypeOK
  <1>1. 0 \in 0 .. MaxCalls /\ 0 \in 0 .. MaxEvents /\ BootTree \in Trees
    BY FrontAssumption
  <1> QED
    BY <1>1, NoSessionTypes DEF Init, DataTypeOK

LEMMA ReaderData == ASSUME TypeOK, ReaderTask PROVE DataTypeOK'
  <1> USE DEF nativeVars, loopVars, surfaceVars, treeVars, sessionVars, vsyncVars, wakeVars,
              callVars, viewVars, readerVars, Call, Messages, Activate, Deactivate
  <1> USE CountedTypes
  <1>1. CASE FocusGained
    BY <1>1 DEF FocusGained, TypeOK, DataTypeOK
  <1>2. CASE FocusLost
    BY <1>2 DEF FocusLost, TypeOK, DataTypeOK
  <1>3. CASE NodeQueried
    BY <1>3 DEF NodeQueried, TypeOK, DataTypeOK
  <1>4. CASE PerformAction
    <2>1. DOMAIN snapshot \ {Root} \subseteq Leaves
      <3>1. CASE snapshot = Nothing
        BY <3>1 DEF Nothing
      <3>2. CASE snapshot \in Projections
        <4>1. PICK u \in Trees, scale \in Scales : snapshot = Projection(u, scale)
          BY <3>2 DEF Projections
        <4>2. DOMAIN snapshot = {Root} \union DOMAIN u
          BY <4>1, ProjectionShape
        <4>3. DOMAIN u \subseteq Leaves
          BY DEF Trees
        <4> QED
          BY <4>2, <4>3
      <3> QED
        BY <3>1, <3>2 DEF TypeOK, DataTypeOK
    <2>2. PICK n \in Leaves, v \in Labels : Call([kind |-> "Action", node |-> n, value |-> v])
      BY <1>4, <2>1 DEF PerformAction
    <2>3. callAt' = "enter" /\ calling' \in Messages
      BY <2>2 DEF Actions
    <2> QED
      BY <1>4, <2>3 DEF PerformAction, TypeOK, DataTypeOK
  <1>5. CASE ReaderToggled
    BY <1>5 DEF ReaderToggled, TypeOK, DataTypeOK
  <1>6. CASE ViewMounted \/ DelegateRemoved
    <2>1. posted # <<>> /\ posted' = Tail(posted)
          /\ UNCHANGED <<nativeVars, callVars, snapshot, calls>>
      BY <1>6 DEF ViewMounted, DelegateRemoved, PostedTask
    <2>2. posted' \in Seq({"mount", "remove"})
      <3>1. posted \in Seq({"mount", "remove"})
        BY DEF TypeOK, DataTypeOK
      <3> QED
        BY <2>1, <3>1
    <2> QED
      BY <2>1, <2>2 DEF TypeOK, DataTypeOK
  <1> QED
    BY <1>1, <1>2, <1>3, <1>4, <1>5, <1>6 DEF ReaderTask

LEMMA CallbackData == ASSUME TypeOK, Callback PROVE DataTypeOK'
  <1> USE DEF loopVars, surfaceVars, treeVars, sessionVars, vsyncVars, wakeVars, viewVars,
              readerVars, boundVars
  <1>1. CASE Enqueue
    <2>1. mailbox' \in Seq(Messages)
      <3>1. mailbox \in Seq(Messages) /\ calling \in Messages
        BY <1>1 DEF Enqueue, TypeOK, DataTypeOK
      <3>2. mailbox' \in {mailbox, Append(mailbox, calling)}
        BY <1>1 DEF Enqueue
      <3> QED
        BY <3>1, <3>2
    <2> QED
      BY <1>1, <2>1 DEF Enqueue, TypeOK, DataTypeOK
  <1>2. CASE StoreWake
    BY <1>2 DEF StoreWake, TypeOK, DataTypeOK
  <1>3. CASE WakeLooper
    BY <1>3 DEF WakeLooper, TypeOK, DataTypeOK
  <1> QED
    BY <1>1, <1>2, <1>3 DEF Callback

LEMMA EventData == ASSUME TypeOK, Event \/ Vsync \/ Woken PROVE DataTypeOK'
  <1> USE DEF surfaceVars, treeVars, sessionVars, vsyncVars, wakeVars, callVars, viewVars,
              readerVars, uiVars
  <1> USE CountedTypes, TreeTypes
  <1>1. CASE InitWindow
    BY <1>1 DEF InitWindow, TypeOK, DataTypeOK
  <1>2. CASE TerminateWindow
    BY <1>2 DEF TerminateWindow, TypeOK, DataTypeOK
  <1>3. CASE ScaleReported
    <2>1. session' \in Sessions
      BY <1>3, ScaleTypes DEF ScaleReported, TypeOK, DataTypeOK
    <2> QED
      BY <1>3, <2>1 DEF ScaleReported, TypeOK, DataTypeOK
  <1>4. CASE Input
    BY <1>4 DEF Input, TypeOK, DataTypeOK
  <1>5. CASE Quit
    BY <1>5 DEF Quit, TypeOK, DataTypeOK
  <1>6. CASE Reload
    <2>1. session' \in Sessions
      BY <1>6, ResetTypes DEF Reload, TypeOK, DataTypeOK
    <2>2. tree' \in Trees /\ generation' \in Nat
      BY <1>6 DEF Reload, TypeOK, DataTypeOK
    <2> QED
      BY <1>6, <2>1, <2>2 DEF Reload, TypeOK, DataTypeOK
  <1>7. CASE Vsync
    BY <1>7 DEF Vsync, TypeOK, DataTypeOK
  <1>8. CASE Woken
    BY <1>8 DEF Woken, TypeOK, DataTypeOK
  <1> QED
    BY <1>1, <1>2, <1>3, <1>4, <1>5, <1>6, <1>7, <1>8 DEF Event

LEMMA RemountData == ASSUME TypeOK, Remount PROVE DataTypeOK'
  <1> USE DEF surfaceVars, treeVars, sessionVars, vsyncVars, wakeVars, callVars, viewVars,
              readerVars, uiVars, boundVars
  <1>1. CASE Close
    BY <1>1, NoSessionTypes DEF Close, TypeOK, DataTypeOK
  <1>2. CASE Unmount
    BY <1>2 DEF Unmount, TypeOK, DataTypeOK
  <1>3. CASE Mount
    BY <1>3 DEF Mount, TypeOK, DataTypeOK
  <1>4. CASE MountFails
    BY <1>4, TreeTypes DEF MountFails, SurfaceReady, TypeOK, DataTypeOK
  <1>5. CASE Publish
    <2>1. session' \in Sessions /\ mailbox' \in Seq(Messages) /\ held' = Nothing
      BY <1>5, NewSessionTypes DEF Publish
    <2> QED
      BY <1>5, <2>1, TreeTypes DEF Publish, SurfaceReady, TypeOK, DataTypeOK
  <1> QED
    BY <1>1, <1>2, <1>3, <1>4, <1>5 DEF Remount

LEMMA IterateData == ASSUME TypeOK, DeliveredInv, Iterate PROVE DataTypeOK'
  <1> USE DEF loopVars, surfaceVars, treeVars, sessionVars, vsyncVars, wakeVars, callVars,
              viewVars, readerVars, uiVars, Back
  <1>1. CASE NoRuntime
    BY <1>1 DEF NoRuntime, TypeOK, DataTypeOK
  <1>2. CASE NoFrame
    BY <1>2 DEF NoFrame, TakeWake, TypeOK, DataTypeOK
  <1>3. CASE FrameBegins
    BY <1>3 DEF FrameBegins, TakeWake, TypeOK, DataTypeOK
  <1>4. CASE TakeMail
    BY <1>4 DEF TakeMail, TypeOK, DataTypeOK
  <1>5. CASE ApplyMessage
    BY <1>5, ApplyTypes DEF ApplyMessage, TypeOK, DataTypeOK
  <1>6. CASE FrameDropped
    BY <1>6 DEF FrameDropped, TypeOK, DataTypeOK
  <1>7. ASSUME Pump, session' \in Sessions, held' \in Projections \union {Nothing},
               snapshot' \in Projections \union {Nothing}
        PROVE  DataTypeOK'
    BY <1>7, PumpTypes DEF Pump, TypeOK, DataTypeOK
  <1>8. CASE FrameQuiet
    BY <1>7, <1>8 DEF FrameQuiet, TypeOK, DataTypeOK
  <1>9. CASE FrameSent
    BY <1>7, <1>9, SentTypes DEF FrameSent
  <1> QED
    BY <1>1, <1>2, <1>3, <1>4, <1>5, <1>6, <1>8, <1>9 DEF Iterate

LEMMA DataStep == ASSUME TypeOK, DeliveredInv, [Next]_vars PROVE DataTypeOK'
  <1>1. CASE RasterFails
    BY <1>1 DEF RasterFails, TypeOK, DataTypeOK, loopVars, treeVars, sessionVars, vsyncVars, wakeVars,
                uiVars, callVars, viewVars, readerVars
  <1>2. CASE UNCHANGED vars
    BY <1>2 DEF vars, TypeOK, DataTypeOK, loopVars, surfaceVars, treeVars, sessionVars, vsyncVars, wakeVars,
                callVars, viewVars, readerVars, boundVars
  <1> QED
    BY <1>1, <1>2, ReaderData, CallbackData, EventData, RemountData, IterateData DEF Next

-----------------------------------------------------------------------------
(* The invariant                                                           *)

LEMMA InvInit == Init => Inv
  <1>1. SUFFICES ASSUME Init PROVE Inv
    OBVIOUS
  <1>2. session.state = "Detached"
    BY <1>1, NoSessionTypes DEF Init
  <1>3. TypeOK
    BY <1>1, ControlInit, DataInit DEF TypeOK
  <1> QED
    BY <1>1, <1>2, <1>3
    DEF Init, Inv, PlaceInv, DeliveredInv, BaselineIsShown, RequestInv

\* The UI thread's tasks start outside every callback and leave all the native state.
LEMMA ReaderLeaves ==
  ASSUME ReaderTask
  PROVE  UNCHANGED nativeVars /\ UNCHANGED snapshot /\ callAt = "idle"
  BY DEF ReaderTask, FocusGained, FocusLost, NodeQueried, PerformAction, ReaderToggled,
         ViewMounted, DelegateRemoved, PostedTask, nativeVars

LEMMA PlaceStep == ASSUME Inv, [Next]_vars PROVE PlaceInv'
  <1> USE DEF loopVars, surfaceVars, sessionVars
  <1>1. TypeOK /\ PlaceInv /\ DeliveredInv
    BY DEF Inv
  <1>2. session \in Sessions
    BY <1>1 DEF TypeOK, DataTypeOK
  <1>3. CASE ReaderTask
    BY <1>1, <1>3, ReaderLeaves DEF PlaceInv, nativeVars
  <1>4. CASE Callback
    BY <1>1, <1>4 DEF Callback, Enqueue, StoreWake, WakeLooper, PlaceInv
  <1>5. CASE InitWindow \/ TerminateWindow \/ Input \/ Quit \/ Vsync \/ Woken
    BY <1>1, <1>5 DEF InitWindow, TerminateWindow, Input, Quit, Vsync, Woken, PlaceInv
  <1>6. CASE ScaleReported
    <2>1. session'.state = session.state
      BY <1>2, <1>6, ScaleTypes DEF ScaleReported
    <2> QED
      BY <1>1, <1>6, <2>1 DEF ScaleReported, PlaceInv, Mounted
  <1>7. CASE Reload
    <2>1. /\ Mounted(session') <=> Mounted(session)
          /\ session'.state = "Active" => session' = session
      BY <1>2, <1>7, ResetTypes DEF Reload, Mounted
    <2> QED
      BY <1>1, <1>7, <2>1 DEF Reload, PlaceInv
  <1>8. CASE Close
    BY <1>8, NoSessionTypes DEF Close, PlaceInv, Mounted
  <1>9. CASE Unmount
    <2>1. at = "unmount" /\ UNCHANGED <<session, slot, mailbox>>
      BY <1>9 DEF Unmount
    <2> QED
      BY <1>1, <2>1 DEF PlaceInv, Mounted
  <1>10. CASE Mount
    BY <1>1, <1>10 DEF Mount, PlaceInv
  <1>11. CASE MountFails
    BY <1>1, <1>11 DEF MountFails, SurfaceReady, PlaceInv, Mounted
  <1>12. CASE Publish
    <2>1. session'.state = "Dormant" /\ at' = "tail" /\ mailbox' = <<>>
      BY <1>12, NewSessionTypes DEF Publish, SurfaceReady
    <2> QED
      BY <2>1 DEF PlaceInv, Mounted
  <1>13. CASE NoRuntime \/ NoFrame \/ FrameBegins \/ FrameDropped
    BY <1>1, <1>13
    DEF NoRuntime, NoFrame, FrameBegins, FrameDropped, TakeWake, Back, PlaceInv
  <1>14. CASE TakeMail
    BY <1>1, <1>14 DEF TakeMail, PlaceInv
  <1>15. CASE ApplyMessage
    <2>1. /\ Mounted(session') <=> Mounted(session)
          /\ session'.state = "Active" => session' = session
      BY <1>1, <1>15, ApplyTypes
    <2> QED
      BY <1>1, <1>15, <2>1 DEF ApplyMessage, PlaceInv
  <1>16. CASE FrameQuiet
    BY <1>1, <1>16 DEF FrameQuiet, Pump, Back, PlaceInv
  <1>17. CASE FrameSent
    <2>1. Mounted(session) /\ Mounted(session')
      BY <1>1, <1>17, SentTypes
    <2> QED
      BY <1>1, <1>17, <2>1 DEF FrameSent, Pump, Back, PlaceInv
  <1>18. CASE RasterFails
    BY <1>1, <1>18 DEF RasterFails, PlaceInv
  <1>19. CASE UNCHANGED vars
    BY <1>1, <1>19 DEF vars, PlaceInv
  <1> QED
    BY <1>3, <1>4, <1>5, <1>6, <1>7, <1>8, <1>9, <1>10, <1>11, <1>12, <1>13, <1>14, <1>15, <1>16,
       <1>17, <1>18, <1>19 DEF Next, Event, Remount, Iterate

LEMMA DeliveredStep == ASSUME Inv, [Next]_vars PROVE DeliveredInv'
  <1> USE DEF loopVars, surfaceVars, treeVars, sessionVars, vsyncVars
  <1>1. TypeOK /\ PlaceInv /\ DeliveredInv
    BY DEF Inv
  <1>2. session \in Sessions /\ generation \in Nat
    BY <1>1 DEF TypeOK, DataTypeOK
  <1>3. ASSUME session'.state # "Active" PROVE DeliveredInv'
    BY <1>3 DEF DeliveredInv, BaselineIsShown
  <1>4. ASSUME UNCHANGED <<session, held, snapshot, tree, generation, runtime, raster>>,
               armed \/ ready \/ at \in {"take", "apply"}
                 => armed' \/ ready' \/ at' \in {"take", "apply"}
        PROVE  DeliveredInv'
    BY <1>1, <1>4 DEF DeliveredInv, BaselineIsShown, NeedsUpdate
  \* A tree that may have changed, with a frame asked for.
  <1>5. ASSUME UNCHANGED <<session, held, snapshot>>, generation' \in Nat,
               generation <= generation', generation' = generation => tree' = tree,
               armed' \/ at' \in {"take", "apply"} \/ ~ NeedsUpdate(session, generation')
        PROVE  DeliveredInv'
    BY <1>1, <1>2, <1>5 DEF DeliveredInv, BaselineIsShown
  <1>6. CASE ReaderTask
    BY <1>4, <1>6, ReaderLeaves DEF nativeVars
  <1>7. CASE Callback
    BY <1>4, <1>7 DEF Callback, Enqueue, StoreWake, WakeLooper, readerVars
  <1>8. CASE InitWindow \/ TerminateWindow \/ Quit \/ Vsync \/ Woken
    BY <1>4, <1>8 DEF InitWindow, TerminateWindow, Quit, Vsync, Woken, uiVars
  <1>9. CASE Input
    BY <1>1, <1>5, <1>9, TreeTypes DEF Input, uiVars
  <1>10. CASE ScaleReported
    <2>1. /\ session'.state = session.state /\ session'.baseline = session.baseline
          /\ session'.generation = session.generation
          /\ session' = session \/ session'.scaleDirty
      BY <1>2, <1>10, ScaleTypes DEF ScaleReported
    <2>2. /\ generation' \in Nat /\ generation <= generation'
          /\ generation' = generation => tree' = tree
          /\ UNCHANGED <<held, snapshot>> /\ armed'
      BY <1>1, <1>10, TreeTypes DEF ScaleReported, uiVars
    <2> QED
      BY <1>1, <1>2, <2>1, <2>2 DEF DeliveredInv, BaselineIsShown
  <1>11. CASE Reload
    <2>1. CASE session'.state # "Active"
      BY <1>3, <2>1
    <2>2. CASE UNCHANGED <<session, tree, generation>> /\ ~ runtime'
      BY <1>1, <1>11, <2>2 DEF Reload, uiVars, DeliveredInv, BaselineIsShown
    <2>3. CASE session' = ResetForTreeReplacement(session)
      BY <1>2, <2>1, <2>3, ResetTypes
    <2>4. CASE ~ Mounted(session) /\ session' = session
      BY <2>1, <2>4 DEF Mounted
    <2> QED
      BY <1>11, <2>2, <2>3, <2>4 DEF Reload
  <1>12. CASE Close
    BY <1>3, <1>12, NoSessionTypes DEF Close
  <1>13. CASE Unmount
    BY <1>1, <1>3, <1>13 DEF Unmount, PlaceInv, Mounted
  <1>14. CASE Mount
    BY <1>4, <1>14 DEF Mount
  <1>15. CASE MountFails
    BY <1>1, <1>3, <1>15 DEF MountFails, PlaceInv, Mounted
  <1>16. CASE Publish
    BY <1>3, <1>16, NewSessionTypes DEF Publish
  <1>17. CASE NoRuntime
    BY <1>1, <1>17 DEF NoRuntime, Back, uiVars, DeliveredInv, BaselineIsShown
  <1>18. CASE NoFrame
    BY <1>1, <1>4, <1>18 DEF NoFrame, TakeWake, uiVars
  <1>19. CASE FrameBegins
    <2>1. UNCHANGED <<session, held, snapshot, tree, generation, runtime, raster>>
      BY <1>19 DEF FrameBegins, TakeWake, uiVars
    <2>2. at' \in {"take", "apply"}
      BY <1>19 DEF FrameBegins
    <2> QED
      BY <1>4, <2>1, <2>2
  <1>20. CASE TakeMail
    BY <1>4, <1>20 DEF TakeMail, uiVars
  <1>21. CASE ApplyMessage
    <2>1. /\ generation' \in Nat /\ generation <= generation'
          /\ generation' = generation => tree' = tree
          /\ session'.state = "Active" => session' = session
      BY <1>1, <1>21, ApplyTypes
    <2>2. at' = "apply" /\ UNCHANGED <<held, snapshot>>
      BY <1>21 DEF ApplyMessage, uiVars
    <2> QED
      BY <1>3, <1>5, <2>1, <2>2
  <1>22. CASE FrameDropped
    <2>1. UNCHANGED <<session, held, snapshot, tree, generation, raster>> /\ raster = "failed"
      BY <1>22 DEF FrameDropped, uiVars
    <2> QED
      BY <1>1, <2>1 DEF DeliveredInv, BaselineIsShown
  <1>23. CASE FrameQuiet
    <2>1. CASE session.state # "Active"
      BY <1>3, <1>23, <2>1 DEF FrameQuiet
    <2>2. CASE session.state = "Active"
      <3>1. ~ NeedsUpdate(session, generation')
        BY <1>1, <1>23, <2>2 DEF FrameQuiet, PlaceInv
      <3> QED
        BY <1>1, <1>5, <1>23, <3>1, PumpTypes DEF FrameQuiet
    <2> QED
      BY <2>1, <2>2
  <1>24. CASE FrameSent
    <2>1. CASE session'.state = "Active"
      <3>1. /\ session'.baseline = Projection(tree', session'.scale)
            /\ session'.baseline \in Projections
            /\ held' = session'.baseline /\ snapshot' = held'
            /\ session'.generation = generation' /\ ~ NeedsUpdate(session', generation')
        BY <1>1, <1>24, <2>1, SentTypes
      <3>2. generation' \in Nat
        BY <1>1, <1>24, PumpTypes DEF FrameSent
      <3> QED
        BY <3>1, <3>2 DEF DeliveredInv, BaselineIsShown
    <2> QED
      BY <1>3, <2>1
  <1>25. CASE RasterFails
    BY <1>1, <1>25 DEF RasterFails, uiVars, DeliveredInv, BaselineIsShown
  <1>26. CASE UNCHANGED vars
    BY <1>4, <1>26 DEF vars
  <1> QED
    BY <1>6, <1>7, <1>8, <1>9, <1>10, <1>11, <1>12, <1>13, <1>14, <1>15, <1>16, <1>17, <1>18,
       <1>19, <1>20, <1>21, <1>22, <1>23, <1>24, <1>25, <1>26 DEF Next, Event, Remount, Iterate

LEMMA RequestStep == ASSUME Inv, [Next]_vars PROVE RequestInv'
  <1> USE DEF loopVars, surfaceVars, treeVars, vsyncVars, wakeVars
  <1>1. PlaceInv /\ RequestInv
    BY DEF Inv
  <1>2. CASE ReaderTask
    <2>1. UNCHANGED <<at, runtime, armed, ready, mailbox, wakePending, woken>> /\ callAt = "idle"
      BY <1>2, ReaderLeaves DEF nativeVars
    <2> QED
      BY <1>1, <2>1 DEF RequestInv
  <1>3. CASE Callback
    BY <1>1, <1>3 DEF Callback, Enqueue, StoreWake, WakeLooper, RequestInv
  <1>4. CASE InitWindow \/ TerminateWindow \/ ScaleReported \/ Input \/ Quit
    <2>1. /\ UNCHANGED <<runtime, ready, mailbox, wakePending, woken, callAt>>
          /\ at = "poll" /\ armed'
      BY <1>4 DEF InitWindow, TerminateWindow, ScaleReported, Input, Quit, uiVars, callVars
    <2> QED
      BY <1>1, <2>1 DEF RequestInv
  <1>5. CASE Reload
    BY <1>1, <1>5 DEF Reload, uiVars, callVars, RequestInv
  <1>6. CASE Vsync \/ Woken
    BY <1>1, <1>6 DEF Vsync, Woken, uiVars, callVars, RequestInv
  <1>7. CASE Close
    BY <1>1, <1>7 DEF Close, uiVars, callVars, RequestInv
  <1>8. CASE Unmount \/ Mount
    BY <1>1, <1>8 DEF Unmount, Mount, callVars, RequestInv
  <1>9. CASE MountFails \/ Publish
    BY <1>1, <1>9 DEF MountFails, Publish, SurfaceReady, uiVars, callVars, RequestInv
  <1>10. CASE NoRuntime
    BY <1>1, <1>10 DEF NoRuntime, Back, uiVars, callVars, RequestInv
  <1>11. CASE NoFrame
    BY <1>1, <1>11 DEF NoFrame, TakeWake, Back, uiVars, callVars, RequestInv
  <1>12. CASE FrameBegins
    \* Messages imply a session, so the frame that starts is going to take them.
    <2>1. mailbox # <<>> => Mounted(session)
      BY <1>1 DEF PlaceInv
    <2> QED
      BY <1>1, <1>12, <2>1 DEF FrameBegins, TakeWake, uiVars, callVars, RequestInv
  <1>13. CASE TakeMail \/ ApplyMessage \/ FrameDropped
    BY <1>1, <1>13
    DEF TakeMail, ApplyMessage, FrameDropped, Back, uiVars, callVars, RequestInv
  <1>14. CASE Pump
    <2>1. at = "apply" /\ UNCHANGED <<runtime, ready, mailbox, wakePending, woken, callAt>>
      BY <1>14 DEF Pump, callVars
    <2>2. armed => armed'
      BY <1>14 DEF Pump
    <2> QED
      BY <1>1, <2>1, <2>2 DEF RequestInv
  <1>15. CASE RasterFails \/ UNCHANGED vars
    BY <1>1, <1>15 DEF RasterFails, vars, uiVars, callVars, RequestInv
  <1> QED
    BY <1>2, <1>3, <1>4, <1>5, <1>6, <1>7, <1>8, <1>9, <1>10, <1>11, <1>12, <1>13, <1>14, <1>15
    DEF Next, Event, Remount, Iterate, FrameQuiet, FrameSent

LEMMA InvStep == Inv /\ [Next]_vars => Inv'
  <1>1. SUFFICES ASSUME Inv, [Next]_vars PROVE Inv'
    OBVIOUS
  <1>2. TypeOK'
    BY <1>1, ControlStep, DataStep DEF Inv, TypeOK
  <1> QED
    BY <1>1, <1>2, PlaceStep, DeliveredStep, RequestStep DEF Inv

LEMMA Invariance == Spec => []Inv
  BY InvInit, InvStep, PTL DEF Spec

-----------------------------------------------------------------------------
(* What the front promises                                                 *)

\* Every variable keeps its type; that the target holds a whole tree after merging a
\* difference into what it held is part of it (AndroidTarget.apply).
THEOREM AndroidTypeCorrect == Spec => []TypeOK
  <1>1. Inv => TypeOK
    BY DEF Inv
  <1> QED
    BY <1>1, Invariance, PTL

\* The baseline differences are taken from is always what the screen reader was given
\* (NativeAccessibilitySession::update_after_present, AndroidTarget.apply).
THEOREM BaselineShown == Spec => []BaselineIsShown
  <1>1. Inv => BaselineIsShown
    BY DEF Inv, DeliveredInv
  <1> QED
    BY <1>1, Invariance, PTL

\* When the loop comes to rest the screen reader has the present tree at the present
\* scale, whatever windows, reloads, scales and inputs came before.
THEOREM ReaderSeesTree == Spec => []ReaderIsCurrent
  <1>1. Inv => ReaderIsCurrent
    BY DEF Inv, DeliveredInv, BaselineIsShown, ReaderIsCurrent, NeedsUpdate
  <1> QED
    BY <1>1, Invariance, PTL

\* A message in the mailbox of a loop that sleeps has a frame or a wake to come: the
\* callback and the loop agree on the order of message, flag, looper and drain.
THEOREM WakesAreHeard == Spec => []NoRequestSleeps
  <1>1. Inv => NoRequestSleeps
    BY DEF Inv, RequestInv, NoRequestSleeps, InSlot
  <1> QED
    BY <1>1, Invariance, PTL
=============================================================================
