----------------------------- MODULE WorkerEngine -----------------------------
(***************************************************************************)
(* The Web execution adapter of the frame pipeline: the main-thread shim   *)
(* and bridge (host/src/worker-host.ts, worker-boot.ts), the two message   *)
(* channels, and the Worker (worker-entry.ts, worker-engine.ts and the     *)
(* WASM engine crates/platform/web/src/worker_engine.rs).                  *)
(*                                                                         *)
(* JavaScript runs a turn to completion, so a message handler, a promise   *)
(* reaction or a frame callback is one action, with every call into the    *)
(* WASM engine it makes.  Handlers are chained on one promise: while init  *)
(* or detach awaits, no further message is handled, but reactions and      *)
(* callbacks still run.  Whatever throws inside a handler is posted to     *)
(* main as a runtime-failure; inside a reaction or a callback it is lost.  *)
(*                                                                         *)
(* Pointer, wheel, key, edit-intent, composition and frame messages all    *)
(* commit one frame and are one kind, "frame"; register-listener and       *)
(* observe-pipeline answer a promise of main and are one kind, "request".  *)
(* Mutations only change what the next commit contains, and a commit       *)
(* contains whatever Commit allows.                                        *)
(***************************************************************************)
EXTENDS FramePipeline

CONSTANTS
  ScrollLayer,      \* the layers that are scroll views
  Commit,           \* the commits the core may produce: [layers, changed, work]
  MaxPosts,         \* bound on the messages main posts before detach
  MaxAccepted,      \* bound on accepted commands when the Worker commits alone
  RendererMayFail   \* whether presenting or its completion may fail

ASSUME WorkerBarriers == Barrier = {"Resize", "Shutdown"}

ASSUME WorkerBounds == MaxPosts \in Nat /\ MaxAccepted \in Nat

ASSUME WorkerCommits ==
  /\ ScrollLayer \subseteq Layer
  /\ Commit \subseteq [layers: SUBSET Layer, changed: Changes, work: BOOLEAN]
  /\ RendererMayFail \in BOOLEAN

VARIABLES
  main,          \* the bridge: "open", "detaching" or "terminated"
  boot,          \* its ready promise: "pending", "ready" or "failed"
  awaiting,      \* requests of main whose promise has not settled
  posted,        \* messages posted so far (bounds the model)
  toWorker,      \* messages posted to the Worker, oldest first
  toMain,        \* messages posted to main, oldest first
  chain,         \* what the dispatch chain awaits
  raw,           \* whether WasmWorkerEngine.raw is set
  detached,      \* HayateWorkerEngine.detached
  pipeline,      \* HayateWorkerEngine.pipeline
  completionActive,  \* WasmWorkerEngine.completionActive: its promise is unsettled
  continuation,  \* whether a continuation frame callback is requested
  message,       \* history: the command being executed
  log,           \* history: every accepted command, uncoalesced, in order
  spans          \* history: the part of log each pending entry stands for

mainVars == <<main, boot, awaiting, posted>>
historyVars == <<message, log, spans>>
engineVars == <<raw, detached, pipeline, completionActive, continuation, historyVars>>
vars == <<mainVars, toWorker, toMain, chain, engineVars>>

Idle == [kind |-> "Nothing", frame |-> NoFrame, barrier |-> NoBarrier]

\* The chain is free, awaits the engine's boot, awaits a detach waiter, or has
\* had that waiter resolved.
ChainState == {"idle", "booting", "detaching", "released"}

ToWorker == {"init", "frame", "resize", "request", "detach"}

ToMain == {"ready", "boot-failure", "runtime-failure", "reply", "detached"}

TypeOK ==
  /\ main \in {"open", "detaching", "terminated"}
  /\ boot \in {"pending", "ready", "failed"}
  /\ awaiting \in Nat
  /\ posted \in Nat
  /\ toWorker \in Seq(ToWorker)
  /\ toMain \in Seq(ToMain)
  /\ chain \in ChainState
  /\ raw \in BOOLEAN
  /\ detached \in BOOLEAN
  /\ pipeline \in Pipeline
  /\ completionActive \in BOOLEAN
  /\ continuation \in BOOLEAN
  /\ message \in PipelineCommand \cup {Idle}
  /\ log \in Seq(PipelineCommand)
  /\ spans \in Seq([lo: Nat, hi: Nat])

\* bootWorkerEngineBridge posts init before it returns.
Init ==
  /\ main = "open"
  /\ boot = "pending"
  /\ awaiting = 0
  /\ posted = 0
  /\ toWorker = <<"init">>
  /\ toMain = <<>>
  /\ chain = "idle"
  /\ raw = FALSE
  /\ detached = FALSE
  /\ pipeline = NewPipeline
  /\ completionActive = FALSE
  /\ continuation = FALSE
  /\ message = Idle
  /\ log = <<>>
  /\ spans = <<>>

-----------------------------------------------------------------------------
(* The main thread. *)

\* MainThreadShim.post: nothing is sent once the shim is detached.
Post(kind) ==
  /\ main = "open"
  /\ posted < MaxPosts
  /\ toWorker' = Append(toWorker, kind)
  /\ posted' = posted + 1
  /\ UNCHANGED <<main, boot, toMain, chain, engineVars>>

PostFrame == Post("frame") /\ UNCHANGED awaiting

PostResize == Post("resize") /\ UNCHANGED awaiting

PostRequest == Post("request") /\ awaiting' = awaiting + 1

\* Mutant of Detach: the listeners and the shim stay connected.
DetachStillOpen ==
  /\ main = "open"
  /\ toWorker' = Append(toWorker, "detach")
  /\ UNCHANGED <<mainVars, toMain, chain, engineVars>>

\* The bridge's detach(): the last message to the Worker, and a timer.
Detach ==
  /\ main = "open"
  /\ main' = "detaching"
  /\ toWorker' = Append(toWorker, "detach")
  /\ UNCHANGED <<boot, awaiting, posted, toMain, chain, engineVars>>

\* The timer of WORKER_DETACH_TIMEOUT_MS.
DetachTimeout ==
  /\ main = "detaching"
  /\ main' = "terminated"
  /\ UNCHANGED <<boot, awaiting, posted, toWorker, toMain, chain, engineVars>>

\* Mutant of Settled: any answer settles a request.
SettledByAny(kind) == IF kind # "runtime-failure" THEN awaiting - 1 ELSE awaiting

\* The requests left after a message: handleWorkerMessage resolves the promise
\* the reply names.
Settled(kind) == IF kind = "reply" THEN awaiting - 1 ELSE awaiting

\* What main does with a message.  It has no branch for a runtime-failure.
MainReceives ==
  /\ main # "terminated"
  /\ toMain # <<>>
  /\ toMain' = Tail(toMain)
  /\ main' = IF Head(toMain) = "detached" THEN "terminated" ELSE main
  /\ boot' = CASE Head(toMain) = "ready" -> "ready"
               [] Head(toMain) = "boot-failure" -> "failed"
               [] OTHER -> boot
  /\ awaiting' = Settled(Head(toMain))
  /\ UNCHANGED <<posted, toWorker, chain, engineVars>>

-----------------------------------------------------------------------------
(* HayateWorkerEngine.start_admitted and WasmWorkerEngine.drive, as the end  *)
(* of a turn that left the pipeline at p, its spans at sp and                *)
(* completionActive at busy.                                                 *)

IsShutdown(c) == c.barrier = "Shutdown"

\* start_next has nothing: drive() leaves completionActive as it was.
NothingToStart(p, sp, busy) ==
  /\ ~CanStart(p)
  /\ pipeline' = p
  /\ spans' = sp
  /\ completionActive' = busy
  /\ message' = IF busy THEN message ELSE Idle
  /\ UNCHANGED detached

\* A frame is presented, a Resize or a Shutdown is executed; drive() waits for
\* the completion.
StartsNext(p, sp) ==
  /\ CanStart(p)
  /\ pipeline' = StartNext(p)
  /\ spans' = Tail(sp)
  /\ message' = Head(p.pending)
  /\ completionActive' = TRUE
  /\ detached' = (detached \/ IsShutdown(Head(p.pending)))

\* present_layers fails: the pipeline is failed and the call throws.
PresentThrows(p, busy) ==
  /\ RendererMayFail
  /\ CanStart(p)
  /\ IsFrame(Head(p.pending))
  /\ pipeline' = Fail(StartNext(p))
  /\ spans' = <<>>
  /\ message' = Idle
  /\ completionActive' = busy
  /\ UNCHANGED detached

\* Mutant of Drive: a completion starts nothing more.
DriveNothing(p, sp, busy) ==
  /\ pipeline' = p
  /\ spans' = sp
  /\ completionActive' = busy
  /\ message' = IF busy THEN message ELSE Idle
  /\ UNCHANGED detached

Drive(p, sp, busy) == NothingToStart(p, sp, busy) \/ StartsNext(p, sp)

\* Mutant of ResolveDetached: nobody tells the waiting detach handler.
ResolveNothing == UNCHANGED chain

\* A detach handler waits for the engine to be detached and for the completion
\* of the Shutdown.
ResolveDetached ==
  chain' = IF chain = "detaching" /\ detached' /\ ~completionActive'
           THEN "released" ELSE chain

-----------------------------------------------------------------------------
(* Admission: render, resize_surface and detach of HayateWorkerEngine. *)

SpansAfter(c) ==
  IF Coalesces(pipeline, c)
  THEN [spans EXCEPT ![Len(spans)].hi = Len(log) + 1]
  ELSE Append(spans, [lo |-> Len(log) + 1, hi |-> Len(log) + 1])

Accepts(c) ==
  /\ ~pipeline.failure
  /\ log' = Append(log, c)
  /\ Drive(Admit(pipeline, c), SpansAfter(c), completionActive)

\* The call throws after the pipeline accepted the command.
AcceptsAndThrows(c) ==
  /\ ~pipeline.failure
  /\ log' = Append(log, c)
  /\ PresentThrows(Admit(pipeline, c), completionActive)

\* The pipeline is terminal: it counts the command and the call throws.
RefusesAndThrows(c) ==
  /\ pipeline.failure
  /\ pipeline' = Admit(pipeline, c)
  /\ UNCHANGED <<detached, completionActive, historyVars>>

Throws(c) == AcceptsAndThrows(c) \/ RefusesAndThrows(c)

\* The frame submission frozen from a commit, told apart by its place in log.
Submission(commit) ==
  Frame(FromCommittedFrame(Len(log) + 1, commit.layers,
                           commit.layers \cap ScrollLayer,
                           commit.changed, commit.work))

\* Mutant of UpdateContinuation: a requested callback is never cancelled.
RequestContinuation(commit) == continuation' = (continuation \/ commit.work)

\* updateContinuation after a render that returned.
UpdateContinuation(commit) == continuation' = commit.work

\* Mutant of CancelContinuation.
CancelNothing == UNCHANGED continuation

CancelContinuation == continuation' = FALSE

-----------------------------------------------------------------------------
(* The dispatch chain: one message at a time, in the order of arrival. *)

\* The Worker runs until it is terminated.
Alive == main # "terminated"

Handles(kind) ==
  /\ Alive
  /\ chain = "idle"
  /\ toWorker # <<>>
  /\ Head(toWorker) = kind
  /\ toWorker' = Tail(toWorker)
  /\ UNCHANGED mainVars

PostToMain(kind) == toMain' = Append(toMain, kind)

\* engine() throws while raw is not set.
HandleWithoutEngine ==
  /\ ~raw
  /\ \E kind \in {"frame", "resize", "request"} : Handles(kind)
  /\ PostToMain("runtime-failure")
  /\ UNCHANGED <<chain, engineVars>>

HandleInit ==
  /\ Handles("init")
  /\ chain' = "booting"
  /\ UNCHANGED <<toMain, engineVars>>

BootSucceeds ==
  /\ Alive
  /\ chain = "booting"
  /\ chain' = "idle"
  /\ raw' = TRUE
  /\ PostToMain("ready")
  /\ UNCHANGED <<mainVars, toWorker, detached, pipeline, completionActive,
                 continuation, historyVars>>

BootFails ==
  /\ Alive
  /\ chain = "booting"
  /\ chain' = "idle"
  /\ PostToMain("boot-failure")
  /\ UNCHANGED <<mainVars, toWorker, engineVars>>

\* ensure_attached() precedes every admission but that of detach().
CommitFrame(commit) ==
  /\ ~detached
  /\ Accepts(Submission(commit))
  /\ UpdateContinuation(commit)

CommitThrows(commit) ==
  IF detached
  THEN UNCHANGED <<detached, pipeline, completionActive, historyVars>>
  ELSE Throws(Submission(commit))

HandleFrame ==
  /\ raw
  /\ Handles("frame")
  /\ \E commit \in Commit :
       \/ /\ CommitFrame(commit)
          /\ UNCHANGED toMain
       \/ /\ CommitThrows(commit)
          /\ PostToMain("runtime-failure")
          /\ UNCHANGED continuation
  /\ UNCHANGED <<chain, raw>>

HandleResize ==
  /\ raw
  /\ Handles("resize")
  /\ ~detached
  /\ \/ Accepts(Lifecycle("Resize")) /\ UNCHANGED toMain
     \/ Throws(Lifecycle("Resize")) /\ PostToMain("runtime-failure")
  /\ UNCHANGED <<chain, raw, continuation>>

\* Mutant of HandleRequest: a failed pipeline no longer answers.
HandleRequestUnlessFailed ==
  /\ raw
  /\ Handles("request")
  /\ PostToMain(IF pipeline.failure THEN "runtime-failure" ELSE "reply")
  /\ UNCHANGED <<chain, engineVars>>

\* The observation and the listener registry outlive a failed renderer.
HandleRequest ==
  /\ raw
  /\ Handles("request")
  /\ PostToMain("reply")
  /\ UNCHANGED <<chain, engineVars>>

HandleDetachWithoutEngine ==
  /\ ~raw
  /\ Handles("detach")
  /\ PostToMain("detached")
  /\ UNCHANGED <<chain, engineVars>>

\* Having admitted the barrier, detach() waits unless it has already completed.
WaitForShutdown ==
  chain' = IF ~detached' \/ completionActive' THEN "detaching" ELSE "released"

HandleDetach ==
  /\ raw
  /\ Handles("detach")
  /\ CancelContinuation
  /\ \/ /\ Accepts(Lifecycle("Shutdown"))
        /\ WaitForShutdown
        /\ UNCHANGED toMain
     \/ /\ Throws(Lifecycle("Shutdown"))
        /\ PostToMain("runtime-failure")
        /\ UNCHANGED chain
  /\ UNCHANGED raw

\* The rest of detach() after its waiter was resolved.
DetachReturns ==
  /\ Alive
  /\ chain = "released"
  /\ chain' = "idle"
  /\ raw' = FALSE
  /\ PostToMain("detached")
  /\ UNCHANGED <<mainVars, toWorker, detached, pipeline, completionActive,
                 continuation, historyVars>>

-----------------------------------------------------------------------------
(* Promise reactions and the frame callback. *)

CompletionResolves ==
  /\ Alive
  /\ raw
  /\ completionActive
  /\ \/ Drive(CompleteActive(pipeline), spans, FALSE)
     \/ PresentThrows(CompleteActive(pipeline), FALSE)
  /\ ResolveDetached
  /\ UNCHANGED <<mainVars, toWorker, toMain, raw, continuation, log>>

\* Only the completion of a frame can reject: a lifecycle command's is ready
\* when it is made.
CompletionRejects ==
  /\ Alive
  /\ raw
  /\ RendererMayFail
  /\ completionActive
  /\ IsFrame(message)
  /\ pipeline' = Fail(pipeline)
  /\ completionActive' = FALSE
  /\ message' = Idle
  /\ spans' = <<>>
  /\ CancelContinuation
  /\ UNCHANGED <<mainVars, toWorker, toMain, raw, detached, log>>
  /\ ResolveDetached

\* commitFrame(raw, timestampMs, true); an exception leaves the callback
\* consumed and goes nowhere.
ContinuationFires ==
  /\ Alive
  /\ continuation
  /\ Len(log) < MaxAccepted
  /\ IF raw
     THEN \E commit \in Commit :
            \/ CommitFrame(commit)
            \/ CommitThrows(commit) /\ continuation' = FALSE
     ELSE /\ continuation' = FALSE
          /\ UNCHANGED <<detached, pipeline, completionActive, historyVars>>
  /\ UNCHANGED <<mainVars, toWorker, toMain, chain, raw>>

-----------------------------------------------------------------------------

Main == PostFrame \/ PostResize \/ PostRequest \/ Detach \/ DetachTimeout \/ MainReceives

Dispatch ==
  \/ HandleWithoutEngine
  \/ HandleInit
  \/ BootSucceeds
  \/ BootFails
  \/ HandleFrame
  \/ HandleResize
  \/ HandleRequest
  \/ HandleDetachWithoutEngine
  \/ HandleDetach
  \/ DetachReturns

Settle == CompletionResolves \/ CompletionRejects

Next == Main \/ Dispatch \/ Settle \/ ContinuationFires

Spec == Init /\ [][Next]_vars

\* Both event loops run, the engine's boot settles, and so does every
\* completion promise.  The detach timer is left out: it would hide a detach
\* the Worker never answers.
Fairness ==
  /\ WF_vars(MainReceives)
  /\ WF_vars(Dispatch)
  /\ WF_vars(Settle)
  /\ WF_vars(ContinuationFires)

FairSpec == Spec /\ Fairness

-----------------------------------------------------------------------------
(* Properties. *)

Outstanding ==
  IF spans = <<>> THEN <<>> ELSE SubSeq(log, spans[1].lo, Len(log))

Handoff ==
  INSTANCE FrameHandoff WITH
    outstanding <- Outstanding,
    serving <- message,
    phase <- IF pipeline.failure THEN "failed" ELSE "open"

\* The Worker keeps the promise of ADR-0157 as the Raster thread does, however
\* messages, promise reactions and frame callbacks interleave: commands are
\* served oldest first, a barrier alone and a run of frames as one merged
\* frame, and a failure ends it.
HandoffSpec == Handoff!TurnSpec

\* The Shutdown barrier closes the hand-off although the pipeline knows no
\* closing: neither a message posted around detach() nor a continuation frame
\* already requested is accepted behind it, and a Worker that booted is only
\* declared detached once everything accepted has been executed.
ShutdownIsLast ==
  /\ \A k \in 1..Len(log) : IsShutdown(log[k]) => k = Len(log) /\ ~continuation
  /\ (\E k \in 1..Len(toMain) : toMain[k] = "detached") =>
       log = <<>> \/ (detached /\ pipeline.pending = <<>> /\ ~completionActive)

\* The Worker keeps committing on its own clock exactly while the newest frame
\* left visual work, whatever is queued behind the GPU: an animation neither
\* stalls behind a busy renderer nor keeps an idle Worker awake.
ContinuesWhileWorkRemains ==
  LET frames == {k \in 1..Len(log) : IsFrame(log[k])}
  IN (frames # {} /\ ~pipeline.failure /\ ~IsShutdown(log[Len(log)])) =>
       (continuation <=> \E k \in frames : log[k].frame.work /\ \A j \in frames : j <= k)

\* detach() is answered without the help of the timer unless the renderer
\* failed, however much was in flight.
DetachIsAnswered == main = "detaching" ~> main = "terminated" \/ pipeline.failure

\* Every request of main settles while the bridge is open, a failed renderer
\* notwithstanding, unless the engine never booted.
RequestsAreAnswered ==
  awaiting > 0 ~> awaiting = 0 \/ main # "open" \/ boot = "failed"

\* Every accepted command is eventually started unless the renderer fails or
\* the bridge gives up on the Worker.
AcceptedIsServed ==
  \A n \in 1..MaxAccepted :
    Len(log) >= n ~>
      \/ spans = <<>>
      \/ spans[1].lo > n
      \/ main = "terminated"
=============================================================================
