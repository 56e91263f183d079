----------------------------- MODULE AndroidFront -----------------------------
(***************************************************************************)
(* The Android Platform Front: its native main loop                        *)
(* (platform/mobile/android/src/app_tsubame.rs), the one-shot vsync        *)
(* (frame_schedule.rs), the windows that come and go                       *)
(* (core/src/surface_lifecycle.rs) and the accessibility session mounted   *)
(* on each of them, which a screen reader calls from the Java UI thread    *)
(* (android_accessibility.rs, AndroidAccessibilityBridge.kt).              *)
(*                                                                         *)
(* Two threads.  The native thread stands at `at`; the UI thread stands at *)
(* `callAt` inside a callback into native code and at "idle" elsewhere.    *)
(* The slot that holds the handle of the mounted session is a mutex the UI *)
(* thread keeps while it enqueues and wakes; the mailbox is another.       *)
(*                                                                         *)
(* The Raster thread is here only as running, failed or not there:         *)
(* RasterThread has it.  A pump of the application, touch input and a      *)
(* changed viewport each leave some other tree; what they do is not        *)
(* modelled.  A commit is laid out, so there always is an update to send.  *)
(***************************************************************************)
EXTENDS NativeAccessibility

CONSTANTS
  BootTree,  \* what the program builds when it boots
  MaxCalls,  \* bound on what the window focus and the screen reader do
  MaxEvents  \* bound on new windows, reported scales, inputs, reloads and changing pumps

ASSUME FrontAssumption == BootTree \in Trees /\ MaxCalls \in Nat /\ MaxEvents \in Nat

VARIABLES
  \* the native thread
  at,          \* where it stands
  goal,        \* why it unmounts: to "mount" anew, to "stop" or to "quit"
  surface,     \* SurfaceLifecycleState.surface_active
  raster,      \* "none", "running" or "failed"
  session,     \* the accessibility session
  batch,       \* the messages it has drained and not yet applied
  held,        \* AndroidTarget.tree
  runtime,     \* whether there is a Hermes runtime, hence a tree
  tree,        \* the accessibility nodes of the tree
  generation,  \* accessibility_generation
  \* the vsync
  armed,       \* SingleFlightVsync.callback_armed
  ready,       \* ready_timestamp_ms is set
  \* shared by the threads
  slot,        \* whether callback_slot holds the handle of the session
  mailbox,     \* its messages
  wakePending, \* accessibility_wake_pending
  woken,       \* the looper was woken
  \* the UI thread
  callAt,      \* where it stands in a callback
  calling,     \* the message of that callback
  view,        \* mountedView is set
  delegate,    \* the view has the accessibility delegate
  posted,      \* what the native thread posted to this one and did not run yet
  activated,   \* AndroidAccessibilityBridge.activated
  focused,     \* containerFocused
  reading,     \* the screen reader is on
  snapshot,    \* AndroidAccessibilityBridge.snapshot
  \* bounds
  calls, events

loopVars == <<at, goal>>
surfaceVars == <<surface, raster>>
treeVars == <<runtime, tree, generation>>
sessionVars == <<session, held>>
vsyncVars == <<armed, ready>>
wakeVars == <<wakePending, woken>>
callVars == <<callAt, calling>>
viewVars == <<view, delegate, posted>>
readerVars == <<activated, focused, reading>>
boundVars == <<calls, events>>
vars == <<loopVars, surfaceVars, treeVars, sessionVars, batch, vsyncVars, slot, mailbox,
          wakeVars, callVars, viewVars, readerVars, snapshot, boundVars>>

Activate == [kind |-> "Activate"]
Deactivate == [kind |-> "Deactivate"]
Actions == [kind: {"Action"}, node: Leaves, value: Labels]
Messages == {Activate, Deactivate} \union Actions
NoCall == [kind |-> "None"]

\* Where the threads stand and what they remember.
ControlTypeOK ==
  /\ at \in {"poll", "close", "unmount", "mount", "await", "tail", "take", "apply",
             "done"}
  /\ goal \in {"none", "mount", "stop", "quit"}
  /\ at \in {"close", "unmount"} => goal # "none"
  /\ surface \in BOOLEAN /\ raster \in {"none", "running", "failed"}
  /\ runtime \in BOOLEAN /\ armed \in BOOLEAN /\ ready \in BOOLEAN
  /\ slot \in BOOLEAN /\ wakePending \in BOOLEAN /\ woken \in BOOLEAN
  /\ callAt \in {"idle", "enter", "store", "wake"}
  /\ view \in BOOLEAN /\ delegate \in BOOLEAN
  /\ activated \in BOOLEAN /\ focused \in BOOLEAN /\ reading \in BOOLEAN

\* What they hold and hand over.
DataTypeOK ==
  /\ session \in Sessions /\ held \in Projections \union {Nothing}
  /\ batch \in Seq(Messages) /\ mailbox \in Seq(Messages)
  /\ tree \in Trees /\ generation \in Nat
  /\ calling \in Messages \union {NoCall}
  /\ callAt = "enter" => calling \in Messages
  /\ posted \in Seq({"mount", "remove"})
  /\ snapshot \in Projections \union {Nothing}
  /\ calls \in 0 .. MaxCalls /\ events \in 0 .. MaxEvents

TypeOK == ControlTypeOK /\ DataTypeOK

\* The program has booted and asked for its first frame; no window yet.
Init ==
  /\ at = "poll" /\ goal = "none"
  /\ surface = FALSE /\ raster = "none"
  /\ session = NoSession
  /\ held = Nothing /\ batch = <<>> /\ mailbox = <<>>
  /\ runtime = TRUE /\ tree = BootTree /\ generation = 0
  /\ armed = TRUE /\ ready = FALSE
  /\ slot = FALSE /\ wakePending = FALSE /\ woken = FALSE
  /\ callAt = "idle" /\ calling = NoCall
  /\ view = FALSE /\ delegate = FALSE /\ posted = <<>>
  /\ activated = FALSE /\ focused = FALSE /\ reading \in BOOLEAN
  /\ snapshot = Nothing
  /\ calls = 0 /\ events = 0

(***************************************************************************)
(* The UI thread: the bridge of the screen reader.  Each of these is one   *)
(* task of the thread, up to the callback into native code.                *)
(***************************************************************************)

\* A task of the UI thread, counted.
Task == calls < MaxCalls /\ calls' = calls + 1

Call(message) == callAt' = "enter" /\ calling' = message

\* The native state and the mounted view; the UI thread's tasks leave them alone.
nativeVars == <<loopVars, surfaceVars, treeVars, sessionVars, batch, vsyncVars, slot, mailbox,
                wakeVars, events>>

\* setContainerFocused(true)
FocusGained ==
  /\ callAt = "idle" /\ Task
  /\ focused' = TRUE
  /\ IF view /\ reading /\ ~ activated
     THEN activated' = TRUE /\ Call(Activate)
     ELSE UNCHANGED <<activated, callVars>>
  /\ UNCHANGED <<nativeVars, viewVars, reading, snapshot>>

\* setContainerFocused(false)
FocusLost ==
  /\ callAt = "idle" /\ Task
  /\ focused' = FALSE
  /\ IF activated
     THEN activated' = FALSE /\ Call(Deactivate)
     ELSE UNCHANGED <<activated, callVars>>
  /\ UNCHANGED <<nativeVars, viewVars, reading, snapshot>>

\* The screen reader asks the delegate for a node: ensureActivated.
NodeQueried ==
  /\ callAt = "idle" /\ delegate /\ Task
  /\ focused /\ reading /\ ~ activated
  /\ activated' = TRUE /\ Call(Activate)
  /\ UNCHANGED <<nativeVars, viewVars, focused, reading, snapshot>>

\* The screen reader acts on a node it was shown.
PerformAction ==
  /\ callAt = "idle" /\ delegate /\ reading /\ Task
  /\ \E n \in DOMAIN snapshot \ {Root}, v \in Labels :
        Call([kind |-> "Action", node |-> n, value |-> v])
  /\ UNCHANGED <<nativeVars, viewVars, readerVars, snapshot>>

ReaderToggled ==
  /\ callAt = "idle" /\ Task
  /\ reading' = ~ reading
  /\ UNCHANGED <<nativeVars, viewVars, callVars, activated, focused, snapshot>>

PostedTask(task) ==
  /\ callAt = "idle" /\ posted # <<>> /\ Head(posted) = task
  /\ posted' = Tail(posted)
  /\ UNCHANGED <<nativeVars, callVars, activated, reading, snapshot, calls>>

\* The task mount posted, which may run after mount has given it up.
ViewMounted ==
  /\ PostedTask("mount")
  /\ view' = TRUE /\ delegate' = TRUE
  /\ focused' \in BOOLEAN

\* The task unmount posted to the view.
DelegateRemoved ==
  /\ PostedTask("remove")
  /\ delegate' = FALSE
  /\ UNCHANGED <<view, focused>>

(***************************************************************************)
(* The callback: with_callback locks the slot until it returns, and        *)
(* enqueue pushes before it wakes.                                         *)
(***************************************************************************)

InSlot == callAt \in {"store", "wake"}

Enqueue ==
  /\ callAt = "enter"
  /\ IF slot
     THEN mailbox' = Append(mailbox, calling) /\ callAt' = "store"
     ELSE UNCHANGED mailbox /\ callAt' = "idle"
  /\ calling' = NoCall
  /\ UNCHANGED <<loopVars, surfaceVars, treeVars, sessionVars, batch, vsyncVars, slot,
                 wakeVars, viewVars, readerVars, snapshot, boundVars>>

\* Mutant: the looper is woken without the flag.
StoreNothing ==
  /\ callAt = "store" /\ callAt' = "wake"
  /\ UNCHANGED <<loopVars, surfaceVars, treeVars, sessionVars, batch, vsyncVars, slot, mailbox,
                 wakeVars, calling, viewVars, readerVars, snapshot, boundVars>>

StoreWake ==
  /\ callAt = "store"
  /\ wakePending' = TRUE /\ callAt' = "wake"
  /\ UNCHANGED <<loopVars, surfaceVars, treeVars, sessionVars, batch, vsyncVars, slot, mailbox,
                 woken, calling, viewVars, readerVars, snapshot, boundVars>>

WakeLooper ==
  /\ callAt = "wake"
  /\ woken' = TRUE /\ callAt' = "idle"
  /\ UNCHANGED <<loopVars, surfaceVars, treeVars, sessionVars, batch, vsyncVars, slot, mailbox,
                 wakePending, calling, viewVars, readerVars, snapshot, boundVars>>

(***************************************************************************)
(* The native thread, in poll_events.  A lifecycle or an input event asks  *)
(* for a frame as soon as poll_events has returned; nothing else looks at  *)
(* the vsync in between, so it is armed here.                              *)
(***************************************************************************)

uiVars == <<callVars, viewVars, readerVars, snapshot, calls>>

Counted == events < MaxEvents /\ events' = events + 1

\* Some code of the application or of the core ran on the tree.
TreeMayChange ==
  \/ UNCHANGED <<tree, generation>>
  \/ runtime /\ tree' \in Trees \ {tree} /\ generation' = generation + 1

InitWindow ==
  /\ at = "poll" /\ ~ surface /\ Counted
  /\ surface' = TRUE
  /\ at' = "close" /\ goal' = "mount" /\ armed' = TRUE
  /\ UNCHANGED <<raster, treeVars, sessionVars, batch, ready, slot, mailbox, wakeVars, uiVars>>

TerminateWindow ==
  /\ at = "poll" /\ surface
  /\ surface' = FALSE
  /\ at' = "close" /\ goal' = "stop" /\ armed' = TRUE
  /\ UNCHANGED <<raster, treeVars, sessionVars, batch, ready, slot, mailbox, wakeVars, uiVars,
                 events>>

\* WindowResized or ContentRectChanged of the current window.
ScaleReported ==
  /\ at = "poll" /\ surface /\ Counted
  /\ \E s \in Scales : session' = IF Mounted(session) THEN SetBaseDpr(session, s) ELSE session
  /\ TreeMayChange
  /\ at' = "tail" /\ armed' = TRUE
  /\ UNCHANGED <<goal, surfaceVars, runtime, held, batch, ready, slot, mailbox, wakeVars, uiVars>>

\* Touch or IME input, or a lifecycle event with no other effect.
Input ==
  /\ at = "poll" /\ runtime /\ Counted
  /\ TreeMayChange
  /\ at' = "tail" /\ armed' = TRUE
  /\ UNCHANGED <<goal, surfaceVars, runtime, sessionVars, batch, ready, slot, mailbox, wakeVars,
                 uiVars>>

Quit ==
  /\ at = "poll"
  /\ surface' = FALSE
  /\ at' = "tail" /\ goal' = "quit" /\ armed' = TRUE
  /\ UNCHANGED <<raster, treeVars, sessionVars, batch, ready, slot, mailbox, wakeVars, uiVars,
                 events>>

\* A full reload builds a new runtime with a tree of its own, or fails.
Reload ==
  /\ at = "poll" /\ Counted
  /\ at' = "tail"
  /\ \/ /\ runtime' = TRUE /\ tree' \in Trees /\ generation' \in 0 .. generation
        /\ session' = IF Mounted(session) THEN ResetForTreeReplacement(session) ELSE session
        /\ armed' = TRUE
     \/ /\ runtime' = FALSE
        /\ UNCHANGED <<tree, generation, session, armed>>
  /\ UNCHANGED <<goal, surfaceVars, held, batch, ready, slot, mailbox, wakeVars, uiVars>>

\* on_choreographer_frame
Vsync ==
  /\ at = "poll" /\ armed
  /\ armed' = FALSE /\ ready' = TRUE /\ at' = "tail"
  /\ UNCHANGED <<goal, surfaceVars, treeVars, sessionVars, batch, slot, mailbox, wakeVars, uiVars,
                 events>>

Woken ==
  /\ at = "poll" /\ woken
  /\ woken' = FALSE /\ at' = "tail"
  /\ UNCHANGED <<goal, surfaceVars, treeVars, sessionVars, batch, vsyncVars, slot, mailbox,
                 wakePending, uiVars, events>>

(***************************************************************************)
(* destroy_android_accessibility and mount_android_accessibility.          *)
(***************************************************************************)

\* Take the handle, close it (which wakes) and drop the session with its mailbox.
Close ==
  /\ at = "close" /\ ~ InSlot
  /\ slot' = FALSE /\ session' = NoSession /\ held' = Nothing /\ mailbox' = <<>>
  /\ wakePending' = (wakePending \/ slot) /\ woken' = (woken \/ slot)
  /\ at' = "unmount"
  /\ UNCHANGED <<goal, surfaceVars, treeVars, batch, vsyncVars, uiVars, events>>

\* AndroidAccessibilityBridge.unmount
Unmount ==
  /\ at = "unmount"
  /\ snapshot' = Nothing /\ activated' = FALSE
  /\ view' = FALSE /\ posted' = IF view THEN Append(posted, "remove") ELSE posted
  /\ raster' = IF goal = "stop" THEN "none" ELSE raster
  /\ at' = CASE goal = "mount" -> "mount" [] goal = "stop" -> "tail" [] goal = "quit" -> "done"
  /\ goal' = IF goal = "stop" THEN "none" ELSE goal
  /\ UNCHANGED <<surface, treeVars, sessionVars, batch, vsyncVars, slot, mailbox, wakeVars,
                 callVars, delegate, focused, reading, boundVars>>

\* AndroidAccessibilityBridge.mount posts to the UI thread and waits.
Mount ==
  /\ at = "mount"
  /\ posted' = Append(posted, "mount")
  /\ at' = "await"
  /\ UNCHANGED <<goal, surfaceVars, treeVars, sessionVars, batch, vsyncVars, slot, mailbox,
                 wakeVars, callVars, view, delegate, readerVars, snapshot, boundVars>>

\* The UI thread runs what was posted in order: the last mount is the one awaited.
MountPending == \E i \in DOMAIN posted : posted[i] = "mount"

\* The rest of CreateSurface: viewport, renderer, Raster thread or none.
SurfaceReady ==
  /\ raster' \in {"none", "running"}
  /\ TreeMayChange
  /\ at' = "tail" /\ goal' = "none"
  /\ UNCHANGED <<surface, runtime, batch, vsyncVars, wakeVars, uiVars, events>>

\* There is no activity, or the UI thread has not come to it in two seconds.
MountFails ==
  /\ \/ at = "mount"
     \/ at = "await" /\ MountPending
  /\ SurfaceReady
  /\ UNCHANGED <<sessionVars, slot, mailbox>>

Publish ==
  /\ at = "await" /\ ~ MountPending /\ ~ InSlot
  /\ slot' = TRUE /\ mailbox' = <<>> /\ held' = Nothing
  /\ \E s \in Scales : session' = NewSession(s)
  /\ SurfaceReady

(***************************************************************************)
(* The native thread, after poll_events.                                   *)
(***************************************************************************)

\* The end of an iteration.
Back == at' = IF goal = "quit" THEN "close" ELSE "poll"

\* Without a runtime the iteration stops before it looks at any wake.
NoRuntime ==
  /\ at = "tail" /\ ~ runtime
  /\ Back
  /\ UNCHANGED <<goal, surfaceVars, treeVars, sessionVars, batch, vsyncVars, slot, mailbox,
                 wakeVars, uiVars, events>>

\* Mutant: the flag is taken and no frame asked for.
TakeWakeOnly ==
  /\ wakePending' = FALSE
  /\ UNCHANGED <<goal, surfaceVars, treeVars, sessionVars, batch, armed, slot, mailbox, woken,
                 uiVars, events>>

\* accessibility_wake_pending.swap(false), then request_frame.
TakeWake ==
  /\ armed' = (armed \/ wakePending) /\ wakePending' = FALSE
  /\ UNCHANGED <<goal, surfaceVars, treeVars, sessionVars, batch, slot, mailbox, woken, uiVars,
                 events>>

NoFrame ==
  /\ at = "tail" /\ runtime /\ ~ ready
  /\ Back
  /\ UNCHANGED ready
  /\ TakeWake

FrameBegins ==
  /\ at = "tail" /\ runtime /\ ready
  /\ ready' = FALSE
  /\ at' = IF Mounted(session) THEN "take" ELSE "apply"
  /\ TakeWake

\* drain_before_frame: the messages, under the lock of the mailbox ...
TakeMail ==
  /\ at = "take"
  /\ batch' = mailbox /\ mailbox' = <<>>
  /\ at' = "apply"
  /\ UNCHANGED <<goal, surfaceVars, treeVars, sessionVars, vsyncVars, slot, wakeVars, uiVars,
                 events>>

\* ... then one after the other.
ApplyMessage ==
  /\ at = "apply" /\ batch # <<>>
  /\ batch' = Tail(batch)
  /\ LET message == Head(batch) IN
       \/ /\ message.kind = "Activate"
          /\ session' = OnActivate(session)
          /\ UNCHANGED <<tree, generation>>
       \/ /\ message.kind = "Deactivate"
          /\ session' = OnDeactivate(session)
          /\ UNCHANGED <<tree, generation>>
       \/ /\ message.kind = "Action"
          /\ IF Listening(session) /\ message.node \in DOMAIN tree
             THEN /\ tree' = [tree EXCEPT ![message.node] = message.value]
                  /\ generation' = generation + 1
             ELSE UNCHANGED <<tree, generation>>
          /\ UNCHANGED session
  /\ UNCHANGED <<loopVars, surfaceVars, runtime, held, vsyncVars, slot, mailbox, wakeVars, uiVars,
                 events>>

\* A Raster thread that failed for good ends the iteration.
FrameDropped ==
  /\ at = "apply" /\ batch = <<>> /\ raster = "failed"
  /\ Back
  /\ UNCHANGED <<goal, surfaceVars, treeVars, sessionVars, batch, vsyncVars, slot, mailbox,
                 wakeVars, uiVars, events>>

\* The pump: handlers, mutations, commit; it may ask for another frame.
Pump ==
  /\ at = "apply" /\ batch = <<>> /\ raster # "failed"
  /\ \/ Counted /\ TreeMayChange
     \/ UNCHANGED <<tree, generation, events>>
  /\ armed' \in {armed, TRUE}
  /\ Back
  /\ UNCHANGED <<goal, surfaceVars, runtime, batch, ready, slot, mailbox, wakeVars, callVars,
                 viewVars, readerVars, calls>>

\* No renderer, or update_after_present has nothing to send.
FrameQuiet ==
  /\ Pump
  /\ raster = "none" \/ ~ NeedsUpdate(session, generation')
  /\ UNCHANGED <<sessionVars, snapshot>>

\* AndroidTarget.update: merge, hand the whole snapshot to the bridge,
\* which says whether the screen reader is there.  The call may fail.
FrameSent ==
  /\ Pump
  /\ raster # "none" /\ NeedsUpdate(session, generation')
  /\ LET nodes == Projection(tree', session.scale)
         accepted == view /\ reading /\ focused
     IN IF ~ Acceptable(held, session)
        THEN session' = Refused(session) /\ UNCHANGED <<held, snapshot>>
        ELSE /\ held' = Merge(held, Update(session, nodes))
             /\ \/ /\ snapshot' = held'
                   /\ session' = IF accepted THEN Applied(session, generation', nodes)
                                 ELSE Refused(session)
                \/ UNCHANGED snapshot /\ session' = Refused(session)

\* The renderer fails on the Raster thread.
RasterFails ==
  /\ raster = "running" /\ at # "done"
  /\ raster' = "failed"
  /\ UNCHANGED <<loopVars, surface, treeVars, sessionVars, batch, vsyncVars, slot, mailbox,
                 wakeVars, uiVars, events>>

ReaderTask ==
  \/ FocusGained \/ FocusLost \/ NodeQueried \/ PerformAction \/ ReaderToggled
  \/ ViewMounted \/ DelegateRemoved

Callback == Enqueue \/ StoreWake \/ WakeLooper

Event == InitWindow \/ TerminateWindow \/ ScaleReported \/ Input \/ Quit \/ Reload

Remount == Close \/ Unmount \/ Mount \/ MountFails \/ Publish

Iterate ==
  \/ NoRuntime \/ NoFrame \/ FrameBegins \/ TakeMail \/ ApplyMessage
  \/ FrameDropped \/ FrameQuiet \/ FrameSent

Next == ReaderTask \/ Callback \/ Event \/ Vsync \/ Woken \/ Remount \/ Iterate \/ RasterFails

Spec == Init /\ [][Next]_vars

\* The native thread and a callback run on; an iteration of the looper sees
\* every source that is ready, so neither a wake nor a vsync waits for ever.
Fairness ==
  /\ WF_vars(Remount) /\ WF_vars(Iterate) /\ WF_vars(Callback)
  /\ SF_vars(Vsync) /\ SF_vars(Woken)

FairSpec == Spec /\ Fairness

(***************************************************************************)
(* What makes the front correct.                                           *)
(***************************************************************************)

\* An active session, its target and the bridge agree on the nodes the screen
\* reader has: the baseline the next difference is taken from is what was
\* delivered, whatever was refused, remounted, reloaded or reactivated before
\* (update_after_present, AndroidTarget.apply).
BaselineIsShown ==
  session.state = "Active" => held = session.baseline /\ snapshot = held

\* Once the loop is idle, an active session with a renderer shows the present
\* tree at the present scale: every change, report of a scale, reload and
\* remount asked for the frame that sent it.
ReaderIsCurrent ==
  (/\ at = "poll" /\ ~ armed /\ ~ ready /\ runtime
   /\ raster = "running" /\ session.state = "Active")
    => snapshot = Projection(tree, session.scale)

\* A request is never left in the mailbox of a sleeping loop: the flag and the
\* looper are set after the push, and taken before the drain.
NoRequestSleeps ==
  (at = "poll" /\ runtime /\ ~ InSlot /\ mailbox # <<>>) => armed \/ (wakePending /\ woken)

Asked ==
  \/ session.state = "InitialPending"
  \/ \E i \in 1 .. Len(mailbox) : mailbox[i] = Activate
  \/ \E i \in 1 .. Len(batch) : batch[i] = Activate

\* An activation that reached the mailbox is answered with a full tree, or
\* taken back, unless there is no renderer or no runtime to make a frame.
ActivationIsAnswered ==
  Asked ~> (~ Asked \/ raster # "running" \/ ~ runtime \/ goal = "quit")
=============================================================================
