------------------------------- MODULE FrameLoop -------------------------------
(***************************************************************************)
(* The on-demand frame loop of a page: the Tsubame renderer                *)
(* (renderer-hayate/src/hayate-renderer.ts), the frame transaction of the  *)
(* web adapter (platform/web/src/canvas.rs, app-host/src/lib.rs) and what  *)
(* a frame exchanges with the core: mutations in, deliveries and font      *)
(* requests out.  FontFetch has the fonts.                                 *)
(*                                                                         *)
(* All of it runs on the main thread: a frame is one task, and its steps   *)
(* are separate actions only so that handlers can act and throw between    *)
(* them.  Outside a frame the application, input and fetches take turns.   *)
(*                                                                         *)
(* Mutations of different elements and properties commute and the last of  *)
(* a property wins, so the queue is what it leaves pending for each.  An   *)
(* element is created, placed and styled by one mutation that gives it a   *)
(* size; a painter's display list is the painter and the size it ran at.   *)
(***************************************************************************)
EXTENDS FontFetch

CONSTANTS
  Views,       \* the elements that may have a draw property
  Sizes,       \* the sizes the layout may give them
  Painters,    \* the painters the application may set
  None,        \* no painter, no size
  Unset,       \* no mutation of this property is pending
  MaxChanges,  \* bound on the calls the application makes
  MaxThrows    \* bound on the handlers, painters, packets and presents that fail

Blank == [value |-> None, size |-> None]

Painting == [value: Painters, size: Sizes]

ASSUME FrameLoopAssumption ==
  /\ None \notin Sizes /\ None \notin Painters
  /\ Unset \notin Sizes /\ Unset \notin Painting \union {Blank}
  /\ MaxChanges \in Nat /\ MaxThrows \in Nat

VARIABLES
  \* HayateRenderer
  started,     \* HayateRenderer.started
  scheduled,   \* HayateRenderer.frameHandle is not null
  queue,       \* HayateRenderer.mutations
  draw,        \* HayateRenderer.drawStates: [value, size], Blank where there is none
  \* the frame under way
  phase,       \* where the frame callback stands: "idle" when none runs
  prepared,    \* FrameTransaction.state is Prepared
  rows,        \* the layout_resize deliveries this frame still has to dispatch
  click,       \* whether it also has an input delivery to dispatch
  \* ElementTree
  input,       \* whether the adapter holds input no frame has drained
  box,         \* the laid out size of each element; None when it does not exist
  listening,   \* the elements with a LAYOUT_RESIZE listener
  notified,    \* layout_size_notified
  deliveries,  \* the sizes queued for delivery
  picture,     \* the display list each element shows
  text,        \* the families of the texts of the tree
  unshaped,    \* those of the texts in shape_dirty
  moving,      \* has_pending_visual_work
  \* bounds and history
  changes,     \* calls the application has made
  throws,      \* failures so far
  failed       \* history: whether a frame was aborted or its present failed

rendererVars == <<started, scheduled, queue, draw>>
frameVars == <<phase, prepared, rows, click>>
resizeVars == <<listening, notified, deliveries>>
elementVars == <<box, picture, text, unshaped, moving>>
changeVars == <<changes, throws, failed>>
pageVars == <<rendererVars, frameVars, input, resizeVars, elementVars, changeVars, fontVars>>

NoSizes == [v \in Views |-> None]

NoMutations ==
  [draws |-> [v \in Views |-> Unset], boxes |-> [v \in Views |-> Unset],
   texts |-> {}, motion |-> FALSE]

FrameLoopTypeOK ==
  /\ FontTypeOK
  /\ started \in BOOLEAN /\ scheduled \in BOOLEAN /\ prepared \in BOOLEAN
  /\ queue \in [draws: [Views -> Painting \union {Blank, Unset}],
                boxes: [Views -> Sizes \union {Unset}],
                texts: SUBSET Families, motion: BOOLEAN]
  /\ draw \in [Views -> [value: Painters, size: Sizes \union {None}] \union {Blank}]
  /\ phase \in {"idle", "dispatch", "handler", "commit"}
  /\ rows \in [Views -> Sizes \union {None}]
  /\ click \in BOOLEAN /\ input \in BOOLEAN /\ moving \in BOOLEAN
  /\ box \in [Views -> Sizes \union {None}]
  /\ notified \in [Views -> Sizes \union {None}]
  /\ deliveries \in [Views -> Sizes \union {None}]
  /\ listening \subseteq Views
  /\ picture \in [Views -> Painting \union {Blank}]
  /\ text \subseteq Families /\ unshaped \subseteq text
  /\ changes \in 0 .. MaxChanges /\ throws \in 0 .. MaxThrows
  /\ failed \in BOOLEAN

FrameLoopInit ==
  /\ FontInit
  /\ started = FALSE /\ scheduled = FALSE
  /\ queue = NoMutations
  /\ draw = [v \in Views |-> Blank]
  /\ phase = "idle" /\ prepared = FALSE
  /\ rows = NoSizes /\ click = FALSE /\ input = FALSE
  /\ box = NoSizes /\ notified = NoSizes /\ deliveries = NoSizes
  /\ listening = {}
  /\ picture = [v \in Views |-> Blank]
  /\ text = {} /\ unshaped = {} /\ moving = FALSE
  /\ changes = 0 /\ throws = 0 /\ failed = FALSE

-----------------------------------------------------------------------------
(* What the application calls, in its own tasks or in a handler            *)

\* scheduleFrame, also what the adapter's listeners call through request_redraw:
\* one frame at most, and none before start.
Wake == scheduled' = (scheduled \/ started)

\* Mutant: a mutation does not ask for a frame.
EnqueueSilently(mutations) == queue' = mutations /\ UNCHANGED scheduled

EnqueueMutations(mutations) == queue' = mutations /\ Wake

Start == started' = TRUE /\ scheduled' = TRUE /\ UNCHANGED <<queue, draw, listening>>

Stop == started' = FALSE /\ scheduled' = FALSE /\ UNCHANGED <<queue, draw, listening>>

SetBox(v, s) ==
  /\ EnqueueMutations([queue EXCEPT !.boxes[v] = s])
  /\ UNCHANGED <<started, draw, listening>>

SetText(f) ==
  /\ EnqueueMutations([queue EXCEPT !.texts = @ \union {f}])
  /\ UNCHANGED <<started, draw, listening>>

SetMotion ==
  /\ EnqueueMutations([queue EXCEPT !.motion = TRUE])
  /\ UNCHANGED <<started, draw, listening>>

\* setDraw on an element without one: a listener for its size is registered with
\* the core, and nothing is enqueued.
RegisterDraw(v, p) ==
  /\ draw[v] = Blank
  /\ draw' = [draw EXCEPT ![v] = [value |-> p, size |-> None]]
  /\ listening' = listening \union {v}
  /\ UNCHANGED <<started, scheduled, queue>>

\* recordDraw: the painter runs and its list is queued.
Record(v, painting) == EnqueueMutations([queue EXCEPT !.draws[v] = painting])

\* setDraw with another painter: it runs at once if the size is known.
ChangeDraw(v, p) ==
  LET next == [draw[v] EXCEPT !.value = p]
  IN /\ draw[v] # Blank /\ draw[v].value # p
     /\ draw' = [draw EXCEPT ![v] = next]
     /\ IF next.size = None THEN UNCHANGED <<scheduled, queue>> ELSE Record(v, next)
     /\ UNCHANGED <<started, listening>>

\* setDraw(null) forgets the painter and its size; the listener stays.
ClearDraw(v) ==
  /\ draw[v] # Blank
  /\ draw' = [draw EXCEPT ![v] = Blank]
  /\ Record(v, Blank)
  /\ UNCHANGED <<started, listening>>

RendererCall ==
  \/ Start
  \/ Stop
  \/ SetMotion
  \/ \E f \in Families : SetText(f)
  \/ \E v \in Views :
       \/ \E s \in Sizes : SetBox(v, s)
       \/ \E p \in Painters : RegisterDraw(v, p) \/ ChangeDraw(v, p)
       \/ ClearDraw(v)

Application ==
  /\ phase \in {"idle", "handler"}
  /\ changes < MaxChanges /\ changes' = changes + 1
  /\ RendererCall
  /\ UNCHANGED <<frameVars, input, notified, deliveries, elementVars, throws, failed, fontVars>>

\* A listener of the adapter buffers input and wakes the loop.
PageInput ==
  /\ phase = "idle" /\ ~input
  /\ input' = TRUE /\ Wake
  /\ UNCHANGED <<started, queue, draw, frameVars, resizeVars, elementVars, changeVars, fontVars>>

\* The task of a fetch puts its result into the mailbox.
FetchTask ==
  /\ phase = "idle"
  /\ \E f \in Families, loaded \in BOOLEAN : FetchEnds(f, loaded)
  /\ UNCHANGED <<rendererVars, frameVars, input, resizeVars, elementVars, changeVars>>

-----------------------------------------------------------------------------
(* A frame                                                                 *)

\* FrameTransaction: prepare is refused while a frame is prepared, commit and
\* abort while none is.
OpenTransaction == ~prepared /\ prepared' = TRUE

CloseTransaction == prepared /\ prepared' = FALSE

\* The callback is consumed; prepare_frame drains the input, the font mailbox,
\* the font requests and the deliveries. Input may set something in motion.
Prepare ==
  /\ phase = "idle" /\ scheduled
  /\ phase' = "dispatch" /\ scheduled' = FALSE
  /\ OpenTransaction
  /\ click' = input /\ input' = FALSE
  /\ rows' = deliveries /\ deliveries' = NoSizes
  /\ \E flings \in {FALSE, input} : moving' = (moving \/ flings)
  /\ DrainMailbox
  /\ DriveRequests
  /\ UNCHANGED <<started, queue, draw, listening, notified, box, picture, text, unshaped,
                 changeVars>>

\* Mutant: only the first size reaches the painter.
ResizeOnce(v) == draw[v] # Blank /\ draw[v].size = None

\* onLayoutResize: a new size reaches the painter, the size it knows does not.
Resize(v) == draw[v] # Blank /\ draw[v].size # rows[v]

Resized(v) == [draw EXCEPT ![v].size = rows[v]]

DispatchResize(v) ==
  /\ phase = "dispatch" /\ rows[v] # None
  /\ rows' = [rows EXCEPT ![v] = None]
  /\ IF Resize(v)
     THEN draw' = Resized(v) /\ Record(v, Resized(v)[v])
     ELSE UNCHANGED <<scheduled, queue, draw>>
  /\ UNCHANGED <<started, phase, prepared, click, input, resizeVars, elementVars, changeVars, fontVars>>

\* Input deliveries come after the sizes, which the last commit queued.
DispatchClick ==
  /\ phase = "dispatch" /\ rows = NoSizes /\ click
  /\ phase' = "handler" /\ click' = FALSE
  /\ UNCHANGED <<rendererVars, prepared, rows, input, resizeVars, elementVars, changeVars, fontVars>>

HandlerReturns ==
  /\ phase = "handler" /\ phase' = "dispatch"
  /\ UNCHANGED <<rendererVars, prepared, rows, click, input, resizeVars, elementVars, changeVars,
                 fontVars>>

\* A failure inside the transaction: the queue is dropped, whatever was in it,
\* with the deliveries not yet dispatched, and the frame is aborted.
Abort ==
  /\ throws < MaxThrows /\ throws' = throws + 1
  /\ failed' = TRUE
  /\ queue' = NoMutations
  /\ CloseTransaction
  /\ phase' = "idle" /\ rows' = NoSizes /\ click' = FALSE
  /\ UNCHANGED <<started, scheduled, input, resizeVars, elementVars, changes, fontVars>>

HandlerThrows == phase = "handler" /\ Abort /\ UNCHANGED draw

\* The size is stored before the painter runs.
PainterThrows(v) ==
  /\ phase = "dispatch" /\ rows[v] # None /\ Resize(v)
  /\ draw' = Resized(v)
  /\ Abort

\* Every delivery is dispatched: the queue goes to the core, which applies all
\* of a packet, in order, or nothing.
Dispatched == phase = "dispatch" /\ rows = NoSizes /\ ~click

Flush ==
  /\ Dispatched
  /\ phase' = "commit"
  /\ queue' = NoMutations
  /\ box' = [v \in Views |-> IF queue.boxes[v] = Unset THEN box[v] ELSE queue.boxes[v]]
  /\ picture' = [v \in Views |-> IF queue.draws[v] = Unset THEN picture[v] ELSE queue.draws[v]]
  /\ text' = text \union queue.texts
  /\ unshaped' = unshaped \union queue.texts
  /\ moving' = (moving \/ queue.motion)
  /\ UNCHANGED <<started, scheduled, draw, prepared, rows, click, input, resizeVars, changeVars,
                 fontVars>>

FlushFails == Dispatched /\ queue # NoMutations /\ Abort /\ UNCHANGED draw

\* Mutant: only the first size is notified.
NewSizesOnce == {v \in listening : box[v] # None /\ notified[v] = None}

\* emit_layout_resize_events: the listening elements laid out at a new size.
NewSizes == {v \in listening : box[v] # None /\ box[v] # notified[v]}

\* commit_rendered_frame: layout, with the sizes and the missing families it
\* finds; motion goes on or comes to an end.
Render ==
  /\ phase = "commit" /\ phase' = "idle"
  /\ CloseTransaction
  /\ notified' = [v \in Views |-> IF v \in NewSizes THEN box[v] ELSE notified[v]]
  /\ deliveries' = [v \in Views |-> IF v \in NewSizes THEN box[v] ELSE deliveries[v]]
  /\ unshaped' = {}
  /\ DetectMissing(IF fontsDirty THEN text ELSE unshaped)
  /\ \E goesOn \in {FALSE, moving} : moving' = goesOn
  /\ UNCHANGED <<started, queue, draw, rows, click, input, listening, box, picture, text,
                 changes>>

\* The transaction is closed before the contents are rendered; the loop is armed
\* again only for visual work.
Commit ==
  /\ Render
  /\ scheduled' = (scheduled \/ (started /\ moving'))
  /\ UNCHANGED <<throws, failed>>

\* commit_frame throws after the core has committed: the callback ends there.
PresentFails ==
  /\ Render
  /\ throws < MaxThrows /\ throws' = throws + 1
  /\ failed' = TRUE
  /\ UNCHANGED scheduled

Frame ==
  \/ Prepare
  \/ \E v \in Views : DispatchResize(v) \/ PainterThrows(v)
  \/ DispatchClick \/ HandlerReturns \/ HandlerThrows
  \/ Flush \/ FlushFails
  \/ Commit \/ PresentFails

FrameLoopNext == Application \/ PageInput \/ FetchTask \/ Frame

FrameLoopSpec == FrameLoopInit /\ [][FrameLoopNext]_pageVars

\* The clock calls back a frame it was asked for, and a task that runs ends.
FairFrameLoopSpec == FrameLoopSpec /\ WF_pageVars(Frame)

-----------------------------------------------------------------------------
(* Properties                                                              *)

\* Nothing that arms the loop is left behind by it: a mutation, input or motion
\* that waits while no frame runs has a frame armed (motion unless a frame
\* failed), a stopped renderer has none, and the transaction is closed, so the
\* next prepare_frame is not refused.
NothingSleeps ==
  /\ scheduled => started
  /\ phase = "idle" =>
       /\ ~prepared
       /\ started /\ (queue # NoMutations \/ input \/ (moving /\ ~failed)) => scheduled

\* The picture an element will show once the queue is applied.
Due(v) == IF queue.draws[v] = Unset THEN picture[v] ELSE queue.draws[v]

\* As long as no frame failed, what the core has been told to show is exactly
\* what the painter last drew, the size it drew at is the last one the core sent
\* unless a newer one is on its way, and the core has sent its present size.
DrawingIsCurrent ==
  ~failed => \A v \in Views :
    /\ Due(v) = IF draw[v].size = None THEN Blank ELSE draw[v]
    /\ draw[v].size # None =>
         /\ deliveries[v] = None /\ rows[v] = None => draw[v].size = notified[v]
         /\ phase = "idle" => box[v] = notified[v]

\* The books of tracker, fetcher and mailbox agree, whatever frames are aborted,
\* and a family that a shaped text misses is never forgotten: it is in flight,
\* given up, or about to be shaped for again.
MissingFontsAreAccounted ==
  /\ BooksAgree
  /\ \A f \in text \ unshaped : Missing(f) => f \in inFlight \union exhausted \/ fontsDirty

Shows(v, p, s) == picture[v] = [value |-> p, size |-> s]

\* The application, or a failure, took away the reason to show it.
Withdrawn(v, p, s) == ~started \/ draw[v].value # p \/ box[v] # s

\* While frames keep coming, for whatever reason, a painter drawn once, or whose
\* element was never laid out with a listener, is drawn at the size its element
\* has and shown, unless a frame fails.
AwakeLoopPaints ==
  []<>(phase # "idle") =>
    \A v \in Views, p \in Painters, s \in Sizes :
      (~Withdrawn(v, p, s) /\ (draw[v].size # None \/ notified[v] = None))
        ~> (Shows(v, p, s) \/ Withdrawn(v, p, s) \/ failed)

\* The comments of setDraw and ADR-0143: a painter runs at the size the layout
\* gives its element when that is settled or changes, and what it draws is shown
\* one frame later.
EveryPaintingAppears ==
  \A v \in Views, p \in Painters, s \in Sizes :
    ~Withdrawn(v, p, s) ~> (Shows(v, p, s) \/ Withdrawn(v, p, s))
=============================================================================
