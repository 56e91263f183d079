----------------------------- MODULE RasterThread -----------------------------
(***************************************************************************)
(* The native execution adapter of the frame pipeline,                     *)
(* crates/scene-renderers/compositor/src/raster_thread.rs.  Two threads    *)
(* share AdapterState (pipeline, closed) under one mutex and a condition   *)
(* variable: the UI thread sends and shuts down, the Raster thread takes a *)
(* command, drives the sink without the lock, and reports back under it.   *)
(* A critical section is one action; what runs outside the lock (the sink, *)
(* the gap between closing and notifying) separates two actions.           *)
(*                                                                         *)
(* The last four variables are history: they record what was accepted and  *)
(* how much of it was served, and no action reads them for a decision.     *)
(***************************************************************************)
EXTENDS FramePipeline

CONSTANTS
  ScrollLayer,   \* the layers that are scroll views
  Commit,        \* the commits the core may produce: [layers, changed, work]
  MaxSends,      \* bound on accepted commands
  SinkMayPanic   \* whether the sink may unwind instead of returning

ASSUME MaxSendsAssumption == MaxSends \in Nat

ASSUME CommitAssumption ==
  /\ ScrollLayer \subseteq Layer
  /\ Commit \subseteq [layers: SUBSET Layer, changed: Changes, work: BOOLEAN]

ASSUME BarrierAssumption == NoBarrier \notin Barrier

ASSUME SinkAssumption == SinkMayPanic \in BOOLEAN

VARIABLES
  pipeline,   \* AdapterState.pipeline
  closed,     \* AdapterState.closed
  worker,     \* where the Raster thread is
  message,    \* the command the Raster thread is driving
  owner,      \* where the UI thread is in shutdown()
  reply,      \* what the last send() returned
  log,        \* history: every accepted command, uncoalesced, in order
  spans,      \* history: the part of log each pending entry stands for
  started,    \* history: how many pending entries were taken
  refused     \* history: sends refused because the renderer had failed

vars == <<pipeline, closed, worker, message, owner, reply, log, spans, started, refused>>

Idle == [kind |-> "Nothing", frame |-> NoFrame, barrier |-> NoBarrier]

\* The Raster thread is about to lock, waits on the condvar, drives the sink,
\* has left its loop, or was unwound by the sink.
WorkerState == {"locking", "waiting", "driving", "exited", "panicked"}

\* The UI thread has the handle open, has set closed but not yet notified, is
\* joining, or has returned from shutdown().
OwnerState == {"open", "closing", "joining", "down"}

Reply == {"none", "Ok", "TerminalFailure", "Disconnected"}

Span == [lo: Nat, hi: Nat]

TypeOK ==
  /\ pipeline \in Pipeline
  /\ closed \in BOOLEAN
  /\ worker \in WorkerState
  /\ message \in PipelineCommand \cup {Idle}
  /\ owner \in OwnerState
  /\ reply \in Reply
  /\ log \in Seq(PipelineCommand)
  /\ spans \in Seq(Span)
  /\ started \in Nat
  /\ refused \in Nat

Init ==
  /\ pipeline = NewPipeline
  /\ closed = FALSE
  /\ worker = "locking"
  /\ message = Idle
  /\ owner = "open"
  /\ reply = "none"
  /\ log = <<>>
  /\ spans = <<>>
  /\ started = 0
  /\ refused = 0

-----------------------------------------------------------------------------
(* The UI thread. *)

\* Mutant of Notified: the notification is forgotten.
NotNotified == worker

\* Waking the condvar returns the Raster thread to the lock.
Notified == IF worker = "waiting" THEN "locking" ELSE worker

\* The part of the log an admitted command ends up in: the last pending
\* entry's when it coalesces, one of its own otherwise.
SpansAfter(c) ==
  IF Coalesces(pipeline, c)
  THEN [spans EXCEPT ![Len(spans)].hi = Len(log) + 1]
  ELSE Append(spans, [lo |-> Len(log) + 1, hi |-> Len(log) + 1])

Accept(c) ==
  /\ owner = "open"
  /\ ~pipeline.failure
  /\ ~closed
  /\ Len(log) < MaxSends
  /\ pipeline' = Admit(pipeline, c)
  /\ worker' = Notified
  /\ reply' = "Ok"
  /\ log' = Append(log, c)
  /\ spans' = SpansAfter(c)
  /\ UNCHANGED <<closed, message, owner, started, refused>>

\* A frame is the submission frozen from one commit; its scene is told apart
\* by its place in the sequence of commits.
SendFrame ==
  \E commit \in Commit :
    Accept(Frame(FromCommittedFrame(Len(log) + 1, commit.layers,
                                    commit.layers \cap ScrollLayer,
                                    commit.changed, commit.work)))

SendBarrier == \E b \in Barrier : Accept(Lifecycle(b))

\* send() looks at the failure flag itself and returns before admit().
SendAfterFailure ==
  /\ owner = "open"
  /\ pipeline.failure
  /\ refused < MaxSends
  /\ reply' = "TerminalFailure"
  /\ refused' = refused + 1
  /\ UNCHANGED <<pipeline, closed, worker, message, owner, log, spans, started>>

\* shutdown() took the shared state, so there is nothing left to send to.
SendAfterShutdown ==
  /\ owner = "down"
  /\ reply' = "Disconnected"
  /\ UNCHANGED <<pipeline, closed, worker, message, owner, log, spans, started, refused>>

ShutdownClose ==
  /\ owner = "open"
  /\ owner' = "closing"
  /\ closed' = TRUE
  /\ UNCHANGED <<pipeline, worker, message, reply, log, spans, started, refused>>

\* Mutant of ShutdownNotify: joins without waking the worker.
ShutdownWithoutNotify ==
  /\ owner = "closing"
  /\ owner' = "joining"
  /\ UNCHANGED <<pipeline, closed, worker, message, reply, log, spans, started,
                 refused>>

ShutdownNotify ==
  /\ owner = "closing"
  /\ owner' = "joining"
  /\ worker' = Notified
  /\ UNCHANGED <<pipeline, closed, message, reply, log, spans, started, refused>>

ShutdownJoin ==
  /\ owner = "joining"
  /\ worker \in {"exited", "panicked"}
  /\ owner' = "down"
  /\ UNCHANGED <<pipeline, closed, worker, message, reply, log, spans, started, refused>>

-----------------------------------------------------------------------------
(* The Raster thread. *)

Take ==
  /\ worker = "locking"
  /\ CanStart(pipeline)
  /\ worker' = "driving"
  /\ message' = Head(pipeline.pending)
  /\ pipeline' = StartNext(pipeline)
  /\ spans' = Tail(spans)
  /\ started' = started + 1
  /\ UNCHANGED <<closed, owner, reply, log, refused>>

\* Mutant of Exit: leaves as soon as the hand-off is closed.
ExitAtOnce ==
  /\ worker = "locking"
  /\ closed
  /\ worker' = "exited"
  /\ UNCHANGED <<pipeline, closed, message, owner, reply, log, spans, started,
                 refused>>

Exit ==
  /\ worker = "locking"
  /\ ~CanStart(pipeline)
  /\ closed
  /\ worker' = "exited"
  /\ UNCHANGED <<pipeline, closed, message, owner, reply, log, spans, started, refused>>

Wait ==
  /\ worker = "locking"
  /\ ~CanStart(pipeline)
  /\ ~closed
  /\ worker' = "waiting"
  /\ UNCHANGED <<pipeline, closed, message, owner, reply, log, spans, started, refused>>

\* A condition variable may wake without a notification.
SpuriousWake ==
  /\ worker = "waiting"
  /\ worker' = "locking"
  /\ UNCHANGED <<pipeline, closed, message, owner, reply, log, spans, started, refused>>

DriveSucceeds ==
  /\ worker = "driving"
  /\ pipeline' = CompleteActive(pipeline)
  /\ worker' = "locking"
  /\ message' = Idle
  /\ UNCHANGED <<closed, owner, reply, log, spans, started, refused>>

DriveFails ==
  /\ worker = "driving"
  /\ pipeline' = Fail(pipeline)
  /\ closed' = TRUE
  /\ worker' = "exited"
  /\ message' = Idle
  /\ spans' = <<>>
  /\ UNCHANGED <<owner, reply, log, started, refused>>

\* The sink unwinds the thread while the lock is free: nothing is reported.
DrivePanics ==
  /\ SinkMayPanic
  /\ worker = "driving"
  /\ worker' = "panicked"
  /\ UNCHANGED <<pipeline, closed, message, owner, reply, log, spans, started, refused>>

-----------------------------------------------------------------------------

Send == SendFrame \/ SendBarrier \/ SendAfterFailure \/ SendAfterShutdown

Shutdown == ShutdownClose \/ ShutdownNotify \/ ShutdownJoin

Drive == DriveSucceeds \/ DriveFails \/ DrivePanics

Next == Send \/ Shutdown \/ Take \/ Exit \/ Wait \/ SpuriousWake \/ Drive

Spec == Init /\ [][Next]_vars

\* The Raster thread is scheduled and its sink returns; a UI thread inside
\* shutdown() keeps running.  Nothing obliges the UI thread to send or to shut
\* down, or the condition variable to wake spuriously.
Fairness ==
  /\ WF_vars(Take \/ Exit \/ Wait)
  /\ WF_vars(Drive)
  /\ WF_vars(ShutdownNotify)
  /\ WF_vars(ShutdownJoin)

FairSpec == Spec /\ Fairness

-----------------------------------------------------------------------------
(* Properties. *)

\* The outstanding commands of the hand-off: accepted, not yet taken, and not
\* discarded by a failure.
Outstanding ==
  IF spans = <<>> THEN <<>> ELSE SubSeq(log, spans[1].lo, Len(log))

Handoff ==
  INSTANCE FrameHandoff WITH
    outstanding <- Outstanding,
    serving <- message,
    phase <- IF pipeline.failure THEN "failed"
             ELSE IF closed THEN "closed" ELSE "open"

\* Whatever the interleaving, the two threads implement the abstract hand-off:
\* commands are served oldest first, a barrier alone and a run of frames as
\* one, nothing is served twice or after a failure, and nothing is admitted
\* once the hand-off is closed.
HandoffSpec == Handoff!Spec

\* The pending entries partition the accepted commands that are still owed:
\* each stands for a non-empty interval of the log, the intervals follow one
\* another without gap, and the last one reaches the newest command.
BacklogPartition ==
  /\ Len(spans) = Len(pipeline.pending)
  /\ \A i \in 1..Len(spans) : spans[i].lo \in 1..spans[i].hi
  /\ \A i \in 1..Len(spans) :
       spans[i].hi = IF i = Len(spans) THEN Len(log) ELSE spans[i + 1].lo - 1

\* Coalescing (ReplaceWithLatest, applied one frame at a time) loses no fact
\* of a superseded frame and crosses no barrier: each pending entry is the
\* merge of all the commands it stands for, and more than one only if all of
\* them are frames.
PendingFaithful ==
  \A i \in 1..Len(spans) :
    /\ pipeline.pending[i] = Handoff!Merged(log, spans[i].lo, spans[i].hi)
    /\ spans[i].lo < spans[i].hi =>
         \A k \in spans[i].lo..spans[i].hi : IsFrame(log[k])

\* A slow Raster thread cannot grow the queue with frames: between two
\* pending barriers, and behind the last one, at most one frame waits.
NoAdjacentFrames ==
  \A i \in 1..Len(pipeline.pending) - 1 :
    ~(IsFrame(pipeline.pending[i]) /\ IsFrame(pipeline.pending[i + 1]))

\* complete_active() is only reached with an active command, so the worker's
\* expect() never fires; and while the worker is not driving, the pipeline
\* does not believe a command is active (except after a panic).
ActiveIsDriven ==
  /\ worker = "driving" => pipeline.active
  /\ pipeline.active => worker \in {"driving", "panicked"}
  /\ pipeline.failure => closed /\ worker = "exited" /\ pipeline.pending = <<>>

\* shutdown() returns only when everything accepted was driven, or the
\* renderer failed, or the sink unwound the thread.
DrainedWhenDown ==
  owner = "down" =>
    \/ pipeline.failure
    \/ worker = "panicked"
    \/ pipeline.pending = <<>> /\ ~pipeline.active

\* The worker never sleeps on work: whenever it waits, nothing is pending, and
\* nobody has closed the hand-off without still owing it a notification.
NoLostWakeup ==
  worker = "waiting" =>
    /\ pipeline.pending = <<>>
    /\ closed => owner = "closing"

\* shutdown() always returns, whatever the worker was doing when it was called.
ShutdownReturns == owner = "closing" ~> owner = "down"

\* Every accepted command is eventually taken by the Raster thread, unless the
\* renderer fails or the sink unwinds first.
AcceptedIsServed ==
  \A n \in 1..MaxSends :
    Len(log) >= n ~>
      \/ spans = <<>>
      \/ spans[1].lo > n
      \/ worker = "panicked"

\* The observation adds up: every accepted command was merged into another,
\* taken, is still pending, or was discarded by the failure.
Conservation ==
  pipeline.accepted =
    pipeline.coalesced + started + Len(pipeline.pending) + pipeline.dropped
=============================================================================
