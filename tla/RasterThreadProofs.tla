-------------------------- MODULE RasterThreadProofs --------------------------
(***************************************************************************)
(* Theorems about the native hand-off, for every set of layers, barriers   *)
(* and commits and for any number of sends: types, the thread's control,   *)
(* the history invariants and the refinement of FrameHandoff.  What        *)
(* happens to the queue itself is proved in BacklogProofs.                 *)
(***************************************************************************)
EXTENDS RasterThread, BacklogProofs

-----------------------------------------------------------------------------
(* Type correctness.  The span an incoming frame extends exists because     *)
(* there is one span per pending entry, so that fact rides along.           *)

TypeInv == TypeOK /\ Len(spans) = Len(pipeline.pending)

LEMMA InitTypeInv == Init => TypeInv
  <1> SUFFICES ASSUME Init PROVE TypeInv
    OBVIOUS
  <1>1. NewPipeline \in Pipeline /\ NewPipeline.pending = <<>>
    BY DEF NewPipeline, Pipeline
  <1>2. <<>> \in Seq(PipelineCommand) /\ <<>> \in Seq(Span)
    OBVIOUS
  <1>3. QED
    BY <1>1, <1>2
    DEF Init, TypeInv, TypeOK, WorkerState, OwnerState, Reply

LEMMA AcceptTypeInv ==
  ASSUME TypeInv, NEW c \in PipelineCommand, Accept(c)
  PROVE  TypeInv'
  <1>1. pipeline' \in Pipeline
    BY AdmitType DEF Accept, TypeInv, TypeOK
  <1>2. log' \in Seq(PipelineCommand) /\ worker' \in WorkerState
    BY DEF Accept, TypeInv, TypeOK, Notified, WorkerState
  <1>3. spans' \in Seq(Span) /\ Len(spans') = Len(pipeline'.pending)
    <2>1. /\ pipeline \in Pipeline /\ ~pipeline.failure
          /\ spans \in Seq(Span) /\ log \in Seq(PipelineCommand)
          /\ Len(spans) = Len(pipeline.pending)
          /\ spans' = SpansAfter(c) /\ pipeline' = Admit(pipeline, c)
      BY DEF Accept, TypeInv, TypeOK
    <2>2. Len(log) + 1 \in Nat
      BY <2>1
    <2>3. CASE Coalesces(pipeline, c)
      <3>1. spans' = [spans EXCEPT ![Len(spans)].hi = Len(log) + 1]
        BY <2>1, <2>3 DEF SpansAfter
      <3>2. Len(spans) \in 1..Len(spans)
        BY <2>1, <2>3, PendingLengths DEF Coalesces, Pipeline
      <3>3. [spans[Len(spans)] EXCEPT !.hi = Len(log) + 1] \in Span
        <4>1. spans[Len(spans)] \in Span
          BY <2>1, <3>2
        <4>2. QED
          BY <2>2, <4>1 DEF Span
      <3>4. spans' \in Seq(Span) /\ Len(spans') = Len(spans)
        BY <2>1, <3>1, <3>2, <3>3
      <3>5. QED
        BY <2>1, <2>3, <3>4, PendingLengths
    <2>4. CASE ~Coalesces(pipeline, c)
      <3>1. spans' = Append(spans, [lo |-> Len(log) + 1, hi |-> Len(log) + 1])
        BY <2>1, <2>4 DEF SpansAfter
      <3>2. [lo |-> Len(log) + 1, hi |-> Len(log) + 1] \in Span
        BY <2>2 DEF Span
      <3>3. spans' \in Seq(Span) /\ Len(spans') = Len(spans) + 1
        BY <2>1, <3>1, <3>2
      <3>4. QED
        BY <2>1, <2>4, <3>3, PendingLengths
    <2>5. QED
      BY <2>3, <2>4
  <1>4. QED
    BY <1>1, <1>2, <1>3 DEF Accept, TypeInv, TypeOK, Reply

LEMMA SendIsAccept ==
  ASSUME TypeInv, SendFrame \/ SendBarrier
  PROVE  \E c \in PipelineCommand : Accept(c)
  <1>1. CASE SendFrame
    <2>1. PICK commit \in Commit :
            Accept(Frame(FromCommittedFrame(Len(log) + 1, commit.layers,
                                            commit.layers \cap ScrollLayer,
                                            commit.changed, commit.work)))
      BY <1>1 DEF SendFrame
    <2>2. /\ commit.layers \in SUBSET Layer
          /\ commit.layers \cap ScrollLayer \in SUBSET Layer
          /\ commit.changed \in Changes
          /\ commit.work \in BOOLEAN
      BY CommitAssumption
    <2>3. Len(log) + 1 \in Nat
      BY DEF TypeInv, TypeOK
    <2>4. QED
      BY <2>1, <2>2, <2>3, FromCommittedFrameType, CommandTypes
  <1>2. CASE SendBarrier
    BY <1>2, CommandTypes DEF SendBarrier
  <1>3. QED
    BY <1>1, <1>2

LEMMA StepTypeInv == TypeInv /\ [Next]_vars => TypeInv'
  <1> SUFFICES ASSUME TypeInv, [Next]_vars
               PROVE  TypeInv'
    OBVIOUS
  <1> USE DEF TypeInv, TypeOK
  <1>1. CASE SendFrame \/ SendBarrier
    BY <1>1, SendIsAccept, AcceptTypeInv
  <1>2. CASE SendAfterFailure
    BY <1>2 DEF SendAfterFailure, Reply
  <1>3. CASE SendAfterShutdown
    BY <1>3 DEF SendAfterShutdown, Reply
  <1>4. CASE Shutdown
    BY <1>4 DEF Shutdown, ShutdownClose, ShutdownNotify, ShutdownJoin,
                OwnerState, WorkerState, Notified
  <1>5. CASE Take
    <2>1. /\ StartNext(pipeline) \in Pipeline
          /\ Head(pipeline.pending) \in PipelineCommand
      BY <1>5, StartNextType DEF Take
    <2>2. pipeline.pending # <<>> /\ pipeline.pending \in Seq(PipelineCommand)
      BY <1>5 DEF Take, CanStart, Pipeline
    <2>3. Tail(spans) \in Seq(Span) /\ Len(Tail(spans)) = Len(spans) - 1
      BY <2>2
    <2>4. Len(StartNext(pipeline).pending) = Len(pipeline.pending) - 1
      BY <2>2, <1>5 DEF Take, StartNext, Pipeline
    <2>5. QED
      BY <1>5, <2>1, <2>3, <2>4 DEF Take, WorkerState
  <1>6. CASE Exit \/ Wait \/ SpuriousWake
    BY <1>6 DEF Exit, Wait, SpuriousWake, WorkerState
  <1>7. CASE DriveSucceeds
    <2>1. CompleteActive(pipeline) \in Pipeline
      BY CompleteActiveType
    <2>2. CompleteActive(pipeline).pending = pipeline.pending
      BY DEF CompleteActive, Pipeline
    <2>3. QED
      BY <1>7, <2>1, <2>2 DEF DriveSucceeds, WorkerState
  <1>8. CASE DriveFails
    <2>1. Fail(pipeline) \in Pipeline /\ Fail(pipeline).pending = <<>>
      BY FailType DEF Fail, Pipeline
    <2>2. QED
      BY <1>8, <2>1 DEF DriveFails, WorkerState
  <1>9. CASE DrivePanics
    BY <1>9 DEF DrivePanics, WorkerState
  <1>10. CASE UNCHANGED vars
    BY <1>10 DEF vars
  <1>11. QED
    BY <1>1, <1>2, <1>3, <1>4, <1>5, <1>6, <1>7, <1>8, <1>9, <1>10
    DEF Next, Send, Drive

\* In every reachable state each variable has its type, and there is exactly
\* one history span per pending command.
THEOREM TypeCorrect == Spec => []TypeInv
  BY InitTypeInv, StepTypeInv, PTL DEF Spec

\* The type invariant of the runs, for every instance.
THEOREM TypeSafety == Spec => []TypeOK
  <1>1. TypeInv => TypeOK
    BY DEF TypeInv
  <1>2. QED
    BY <1>1, TypeCorrect, PTL

-----------------------------------------------------------------------------
(* Control: who holds what while the threads move.  The invariants of the   *)
(* runs lean on one another, so they are proved together, strengthened by   *)
(* what the exited worker and the closed handle imply.                      *)

\* What lets shutdown() trust a worker that has left its loop.
ExitedIsDone ==
  worker = "exited" =>
    closed /\ (pipeline.failure \/ (pipeline.pending = <<>> /\ ~pipeline.active))

ClosedByOwner ==
  /\ owner # "open" => closed
  /\ owner = "down" => worker \in {"exited", "panicked"}

ControlInv ==
  /\ ActiveIsDriven
  /\ ExitedIsDone
  /\ ClosedByOwner
  /\ NoLostWakeup

LEMMA InitControlInv == Init => ControlInv
  BY DEF Init, NewPipeline, ControlInv, ActiveIsDriven, ExitedIsDone,
         ClosedByOwner, NoLostWakeup

LEMMA StepControlInv == TypeInv /\ ControlInv /\ [Next]_vars => ControlInv'
  <1> SUFFICES ASSUME TypeInv, ControlInv, [Next]_vars
               PROVE  ControlInv'
    OBVIOUS
  <1> USE DEF ControlInv, ActiveIsDriven, ExitedIsDone, ClosedByOwner, NoLostWakeup
  <1>0. pipeline \in Pipeline
    BY DEF TypeInv, TypeOK
  <1>1. CASE SendFrame \/ SendBarrier
    <2>1. PICK c \in PipelineCommand : Accept(c)
      BY <1>1, SendIsAccept
    <2>2. pipeline'.active = pipeline.active /\ ~pipeline'.failure
      BY <2>1, <1>0, PipelineFlags DEF Accept
    <2>3. worker' # "waiting" /\ (worker # "waiting" => worker' = worker)
          /\ worker' # "exited" /\ (worker = "waiting" => worker' = "locking")
      BY <2>1 DEF Accept, Notified
    <2>4. QED
      BY <2>1, <2>2, <2>3 DEF Accept
  <1>2. CASE SendAfterFailure \/ SendAfterShutdown
    BY <1>2 DEF SendAfterFailure, SendAfterShutdown
  <1>3. CASE Shutdown
    BY <1>3 DEF Shutdown, ShutdownClose, ShutdownNotify, ShutdownJoin, Notified
  <1>4. CASE Take
    <2>1. /\ pipeline'.active = TRUE
          /\ pipeline'.failure = FALSE
      BY <1>4, <1>0, StartNextType DEF Take, CanStart, StartNext, Pipeline
    <2>2. QED
      BY <1>4, <2>1 DEF Take
  <1>5. CASE Exit \/ Wait \/ SpuriousWake
    BY <1>5 DEF Exit, Wait, SpuriousWake, CanStart
  <1>6. CASE DriveSucceeds
    <2>1. /\ pipeline'.active = FALSE
          /\ pipeline'.failure = pipeline.failure
      BY <1>6, <1>0 DEF DriveSucceeds, CompleteActive, Pipeline
    <2>2. QED
      BY <1>6, <2>1 DEF DriveSucceeds
  <1>7. CASE DriveFails
    <2>1. /\ pipeline'.active = FALSE
          /\ pipeline'.failure = TRUE
          /\ pipeline'.pending = <<>>
      BY <1>7, <1>0 DEF DriveFails, Fail, Pipeline
    <2>2. QED
      BY <1>7, <2>1 DEF DriveFails
  <1>8. CASE DrivePanics
    BY <1>8 DEF DrivePanics
  <1>9. CASE UNCHANGED vars
    BY <1>9 DEF vars
  <1>10. QED
    BY <1>1, <1>2, <1>3, <1>4, <1>5, <1>6, <1>7, <1>8, <1>9
    DEF Next, Send, Drive

THEOREM ControlCorrect == Spec => []ControlInv
  BY InitControlInv, StepControlInv, TypeCorrect, PTL DEF Spec

\* The worker's expect() on complete_active() never fires, and a failed
\* pipeline is closed, empty and left by its worker.
THEOREM ActiveIsDrivenSafe == Spec => []ActiveIsDriven
  <1>1. ControlInv => ActiveIsDriven
    BY DEF ControlInv
  <1>2. QED
    BY <1>1, ControlCorrect, PTL

\* shutdown() returns only after everything accepted was driven, unless the
\* renderer failed or the sink unwound the thread.
THEOREM DrainedSafe == Spec => []DrainedWhenDown
  <1>1. ControlInv => DrainedWhenDown
    BY DEF ControlInv, ExitedIsDone, ClosedByOwner, DrainedWhenDown
  <1>2. QED
    BY <1>1, ControlCorrect, PTL

\* No interleaving of sends, shutdown and the worker's loop loses a wakeup.
THEOREM WakeupSafe == Spec => []NoLostWakeup
  <1>1. ControlInv => NoLostWakeup
    BY DEF ControlInv
  <1>2. QED
    BY <1>1, ControlCorrect, PTL

-----------------------------------------------------------------------------
(* The history invariants. *)

\* The log holds unmerged commands, and the queue is the faithful merge of the
\* part of it that is not started yet.
HistoryInv == Backlog(pipeline, spans, log) /\ Conservation

\* The hand-off's vocabulary is this module's.
LEMMA SameWords ==
  /\ Handoff!PipelineCommand = PipelineCommand
  /\ Handoff!Nothing = Idle
  /\ \A c : Handoff!IsFrame(c) <=> IsFrame(c)
  BY DEF Handoff!PipelineCommand, Handoff!FrameSubmission, Handoff!Changes,
         Handoff!Fact, Handoff!Nothing, Handoff!NoFrame, Handoff!NoBarrier,
         Handoff!IsFrame, PipelineCommand, FrameSubmission, Changes, Fact,
         Idle, NoFrame, NoBarrier, IsFrame

LEMMA SameMerge ==
  ASSUME NEW s, NEW lo, NEW hi
  PROVE  Handoff!Merged(s, lo, hi) = MergeOf(s, lo, hi)
  BY DEF MergeOf, Handoff!Merged, Handoff!IsFrame, Handoff!Frame, Handoff!Fact,
         Handoff!NoBarrier, IsFrame, Frame, Fact, NoBarrier

\* The backlog is what the runs check.
LEMMA HistoryMeaning ==
  HistoryInv => BacklogPartition /\ PendingFaithful /\ NoAdjacentFrames
  BY SameMerge
  DEF HistoryInv, Backlog, Partition, Faithful, FramesApart, BacklogPartition,
      PendingFaithful, NoAdjacentFrames

\* What a send adds was never merged.
LEMMA SendIsCommitted ==
  ASSUME TypeInv, SendFrame \/ SendBarrier
  PROVE  \E c \in PipelineCommand : Accept(c) /\ Committed(c)
  <1>1. CASE SendFrame
    <2>1. PICK commit \in Commit :
            Accept(Frame(FromCommittedFrame(Len(log) + 1, commit.layers,
                                            commit.layers \cap ScrollLayer,
                                            commit.changed, commit.work)))
      BY <1>1 DEF SendFrame
    <2> DEFINE f == FromCommittedFrame(Len(log) + 1, commit.layers,
                                       commit.layers \cap ScrollLayer,
                                       commit.changed, commit.work)
    <2>2. /\ commit.layers \in SUBSET Layer
          /\ commit.layers \cap ScrollLayer \in SUBSET Layer
          /\ commit.changed \in Changes
          /\ commit.work \in BOOLEAN
      BY CommitAssumption
    <2>3. Len(log) + 1 \in Nat
      BY DEF TypeInv, TypeOK
    <2>4. Frame(f) \in PipelineCommand
      BY <2>2, <2>3, FromCommittedFrameType, CommandTypes
    <2>5. f.contentDirty = f.scroll \cap f.changed["content"]
      BY DEF FromCommittedFrame
    <2> HIDE DEF f
    <2>6. Frame(f).frame = f
      BY DEF Frame
    <2>7. Committed(Frame(f))
      BY <2>5, <2>6 DEF Committed
    <2>8. QED
      BY <2>1, <2>4, <2>7 DEF f
  <1>2. CASE SendBarrier
    BY <1>2, CommandTypes DEF SendBarrier, Committed, Lifecycle, IsFrame
  <1>3. QED
    BY <1>1, <1>2

\* How the books stay balanced when a frame is merged, and when an entry is
\* taken.
LEMMA BalanceMerged ==
  ASSUME NEW a \in Nat, NEW c \in Nat, NEW t \in Nat, NEW n \in Nat,
         NEW d \in Nat, a = c + t + n + d
  PROVE  a + 1 = (c + 1) + t + n + d
  OBVIOUS

LEMMA BalanceTaken ==
  ASSUME NEW a \in Nat, NEW c \in Nat, NEW t \in Nat, NEW n \in Nat,
         NEW d \in Nat, a = c + t + n + d
  PROVE  a = c + (t + 1) + (n - 1) + d
  OBVIOUS

LEMMA InitHistoryInv == Init => HistoryInv
  <1> SUFFICES ASSUME Init PROVE HistoryInv
    OBVIOUS
  <1>1. pipeline \in Pipeline /\ pipeline.pending = <<>> /\ log = <<>> /\ spans = <<>>
    BY DEF Init, NewPipeline, Pipeline
  <1>2. log \in Seq(PipelineCommand) /\ Unmerged(log)
    BY <1>1 DEF Unmerged
  <1>3. Backlog(pipeline, spans, log)
    BY <1>1, <1>2, EmptyBacklog
  <1>4. Conservation
    BY DEF Init, NewPipeline, Conservation
  <1>5. QED
    BY <1>3, <1>4 DEF HistoryInv

\* An accepted command, merged or pushed.
LEMMA AcceptHistoryInv ==
  ASSUME TypeInv, HistoryInv, NEW c \in PipelineCommand, Accept(c), Committed(c)
  PROVE  HistoryInv'
  <1>1. /\ pipeline \in Pipeline /\ ~pipeline.failure
        /\ pipeline' = Admit(pipeline, c)
        /\ spans' = Extended(pipeline, spans, log, c)
        /\ log' = Append(log, c)
        /\ started' = started
    BY DEF Accept, TypeInv, TypeOK, SpansAfter, Extended
  <1>2. Backlog(pipeline', spans', log')
    BY <1>1, AdmitBacklog DEF HistoryInv
  <1>3. Conservation'
    <2> DEFINE n == Len(pipeline.pending)
               m == Len(Admit(pipeline, c).pending)
    <2>1. /\ pipeline.accepted \in Nat /\ pipeline.coalesced \in Nat
          /\ pipeline.dropped \in Nat /\ started \in Nat
          /\ pipeline.pending \in Seq(PipelineCommand) /\ n \in Nat
      BY <1>1 DEF TypeInv, TypeOK, Pipeline
    <2>2. pipeline.accepted = pipeline.coalesced + started + n + pipeline.dropped
      BY DEF HistoryInv, Conservation
    <2>3. CASE Coalesces(pipeline, c)
      <3>1. /\ Admit(pipeline, c).accepted = pipeline.accepted + 1
            /\ Admit(pipeline, c).coalesced = pipeline.coalesced + 1
            /\ Admit(pipeline, c).dropped = pipeline.dropped
            /\ m = n
        BY <1>1, <2>3, CoalescedQueue
      <3> HIDE DEF n, m
      <3>2. n \in Nat
        BY <2>1
      <3>3. pipeline.accepted + 1
              = (pipeline.coalesced + 1) + started + n + pipeline.dropped
        BY <2>1, <2>2, <3>2, BalanceMerged
      <3>4. QED
        BY <1>1, <3>1, <3>3 DEF Conservation, m
    <2>4. CASE ~Coalesces(pipeline, c)
      <3>1. /\ Admit(pipeline, c).accepted = pipeline.accepted + 1
            /\ Admit(pipeline, c).coalesced = pipeline.coalesced
            /\ Admit(pipeline, c).dropped = pipeline.dropped
            /\ m = n + 1
        BY <1>1, <2>1, <2>4, PushedQueue
      <3> HIDE DEF n, m
      <3>2. n \in Nat
        BY <2>1
      <3>3. pipeline.accepted + 1
              = pipeline.coalesced + started + (n + 1) + pipeline.dropped
        <4> DEFINE a == pipeline.accepted
                   k == pipeline.coalesced
                   d == pipeline.dropped
        <4>1. a \in Nat /\ k \in Nat /\ d \in Nat /\ started \in Nat
          BY <2>1
        <4>2. a = k + started + n + d
          BY <2>2
        <4> HIDE DEF a, k, d
        <4>3. a + 1 = k + started + (n + 1) + d
          BY <3>2, <4>1, <4>2
        <4>4. QED
          BY <4>3 DEF a, k, d
      <3>4. QED
        BY <1>1, <3>1, <3>3 DEF Conservation, m
    <2>5. QED
      BY <2>3, <2>4
  <1>4. QED
    BY <1>2, <1>3 DEF HistoryInv

\* Taking the oldest entry shifts the queue and its spans together.
LEMMA TakeHistoryInv ==
  ASSUME TypeInv, HistoryInv, Take
  PROVE  HistoryInv'
  <1>1. /\ pipeline \in Pipeline /\ CanStart(pipeline)
        /\ pipeline.pending \in Seq(PipelineCommand) /\ pipeline.pending # <<>>
        /\ pipeline' = StartNext(pipeline)
        /\ spans' = Tail(spans) /\ log' = log /\ started' = started + 1
    BY DEF Take, CanStart, TypeInv, TypeOK, Pipeline
  <1>2. /\ pipeline'.pending = Tail(pipeline.pending)
        /\ pipeline'.accepted = pipeline.accepted
        /\ pipeline'.coalesced = pipeline.coalesced
        /\ pipeline'.dropped = pipeline.dropped
    BY <1>1 DEF StartNext, Pipeline
  <1>3. Backlog(pipeline', spans', log')
    BY <1>1, <1>2, StartNextType, StartBacklog DEF HistoryInv
  <1>4. Conservation'
    <2> DEFINE n == Len(pipeline.pending)
    <2>1. /\ pipeline.accepted \in Nat /\ pipeline.coalesced \in Nat
          /\ pipeline.dropped \in Nat /\ started \in Nat
      BY <1>1 DEF TypeInv, TypeOK, Pipeline
    <2>2. pipeline.accepted = pipeline.coalesced + started + n + pipeline.dropped
      BY DEF HistoryInv, Conservation
    <2>3. Len(pipeline'.pending) = n - 1
      BY <1>1, <1>2
    <2>4. n \in Nat
      BY <1>1
    <2> HIDE DEF n
    <2>5. pipeline.accepted
            = pipeline.coalesced + (started + 1) + (n - 1) + pipeline.dropped
      BY <2>1, <2>2, <2>4, BalanceTaken
    <2>6. QED
      BY <1>1, <1>2, <2>3, <2>5 DEF Conservation
  <1>5. QED
    BY <1>3, <1>4 DEF HistoryInv

\* A failure discards the queue and counts what it discards.
LEMMA FailHistoryInv ==
  ASSUME TypeInv, HistoryInv, DriveFails
  PROVE  HistoryInv'
  <1>1. /\ pipeline \in Pipeline
        /\ pipeline.pending \in Seq(PipelineCommand)
        /\ pipeline' = Fail(pipeline)
        /\ spans' = <<>> /\ log' = log /\ started' = started
    BY DEF DriveFails, TypeInv, TypeOK, Pipeline
  <1>2. /\ pipeline'.pending = <<>>
        /\ pipeline'.accepted = pipeline.accepted
        /\ pipeline'.coalesced = pipeline.coalesced
        /\ pipeline'.dropped = pipeline.dropped + Len(pipeline.pending)
    BY <1>1 DEF Fail, Pipeline
  <1>3. Backlog(pipeline', spans', log')
    <2>1. log \in Seq(PipelineCommand) /\ Unmerged(log)
      BY DEF HistoryInv, Backlog, Typed
    <2>2. pipeline' \in Pipeline
      BY <1>1, FailType
    <2>3. QED
      BY <1>1, <1>2, <2>1, <2>2, EmptyBacklog
  <1>4. Conservation'
    <2>1. /\ pipeline.accepted \in Nat /\ pipeline.coalesced \in Nat
          /\ pipeline.dropped \in Nat /\ started \in Nat
          /\ Len(pipeline.pending) \in Nat
      BY <1>1 DEF TypeInv, TypeOK, Pipeline
    <2>2. pipeline.accepted = pipeline.coalesced + started
                              + Len(pipeline.pending) + pipeline.dropped
      BY DEF HistoryInv, Conservation
    <2>3. Len(<<>>) = 0
      OBVIOUS
    <2>4. QED
      BY <1>1, <1>2, <2>1, <2>2, <2>3 DEF Conservation
  <1>5. QED
    BY <1>3, <1>4 DEF HistoryInv

\* Steps that touch neither the queue nor its history.
LEMMA OtherHistoryInv ==
  ASSUME HistoryInv, UNCHANGED <<log, spans, started>>, pipeline' \in Pipeline,
         pipeline'.pending = pipeline.pending,
         pipeline'.accepted = pipeline.accepted,
         pipeline'.coalesced = pipeline.coalesced,
         pipeline'.dropped = pipeline.dropped
  PROVE  HistoryInv'
  <1>1. Backlog(pipeline', spans', log')
    BY SameBacklog DEF HistoryInv
  <1>2. QED
    BY <1>1 DEF HistoryInv, Conservation

LEMMA StepHistoryInv == TypeInv /\ HistoryInv /\ [Next]_vars => HistoryInv'
  <1> SUFFICES ASSUME TypeInv, HistoryInv, [Next]_vars
               PROVE  HistoryInv'
    OBVIOUS
  <1>1. CASE SendFrame \/ SendBarrier
    BY <1>1, SendIsCommitted, AcceptHistoryInv
  <1>2. CASE Take
    BY <1>2, TakeHistoryInv
  <1>3. CASE DriveFails
    BY <1>3, FailHistoryInv
  <1>4. CASE DriveSucceeds
    <2>1. /\ pipeline' \in Pipeline
          /\ pipeline'.pending = pipeline.pending
          /\ pipeline'.accepted = pipeline.accepted
          /\ pipeline'.coalesced = pipeline.coalesced
          /\ pipeline'.dropped = pipeline.dropped
      BY <1>4 DEF DriveSucceeds, CompleteActive, TypeInv, TypeOK, Pipeline
    <2>2. QED
      BY <1>4, <2>1, OtherHistoryInv DEF DriveSucceeds
  <1>5. CASE UNCHANGED <<pipeline, log, spans, started>>
    BY <1>5, OtherHistoryInv DEF TypeInv, TypeOK
  <1>6. QED
    BY <1>1, <1>2, <1>3, <1>4, <1>5
    DEF Next, Send, Drive, Shutdown, vars, SendAfterFailure, SendAfterShutdown,
        ShutdownClose, ShutdownNotify, ShutdownJoin, Exit, Wait, SpuriousWake,
        DrivePanics

\* In every reachable state the queue is the faithful merge of what is owed.
THEOREM HistoryCorrect == Spec => []HistoryInv
  BY InitHistoryInv, StepHistoryInv, TypeCorrect, PTL DEF Spec

\* Coalescing loses no fact of a superseded frame and crosses no barrier.
THEOREM CoalescingFaithful == Spec => [](BacklogPartition /\ PendingFaithful)
  <1>1. HistoryInv => BacklogPartition /\ PendingFaithful
    BY HistoryMeaning
  <1>2. QED
    BY <1>1, HistoryCorrect, PTL

\* At most one frame waits between barriers, however slow the Raster thread is.
THEOREM BoundedFrames == Spec => []NoAdjacentFrames
  <1>1. HistoryInv => NoAdjacentFrames
    BY HistoryMeaning
  <1>2. QED
    BY <1>1, HistoryCorrect, PTL

\* The published counters add up to the accepted commands.
THEOREM CountersAddUp == Spec => []Conservation
  <1>1. HistoryInv => Conservation
    BY DEF HistoryInv
  <1>2. QED
    BY <1>1, HistoryCorrect, PTL

-----------------------------------------------------------------------------
(* The refinement of FrameHandoff. *)

\* A command is being executed exactly while the worker drives it, or did when
\* it was unwound.
MessageInv ==
  /\ worker \in {"driving", "panicked"} => message \in PipelineCommand
  /\ worker \notin {"driving", "panicked"} => message = Idle

Phase == IF pipeline.failure THEN "failed" ELSE IF closed THEN "closed" ELSE "open"

RefinementInv == TypeInv /\ ControlInv /\ HistoryInv /\ MessageInv

LEMMA InitMessageInv == Init => MessageInv
  BY DEF Init, MessageInv

LEMMA StepMessageInv == TypeInv /\ MessageInv /\ [Next]_vars => MessageInv'
  <1> SUFFICES ASSUME TypeInv, MessageInv, [Next]_vars
               PROVE  MessageInv'
    OBVIOUS
  <1> USE DEF MessageInv
  <1>1. CASE SendFrame \/ SendBarrier
    <2>1. PICK c \in PipelineCommand : Accept(c)
      BY <1>1, SendIsAccept
    <2>2. QED
      BY <2>1 DEF Accept, Notified
  <1>2. CASE SendAfterFailure \/ SendAfterShutdown \/ Shutdown
    BY <1>2 DEF SendAfterFailure, SendAfterShutdown, Shutdown, ShutdownClose,
                ShutdownNotify, ShutdownJoin, Notified
  <1>3. CASE Take
    BY <1>3, StartNextType DEF Take, TypeInv, TypeOK
  <1>4. CASE Exit \/ Wait \/ SpuriousWake
    BY <1>4 DEF Exit, Wait, SpuriousWake
  <1>5. CASE Drive
    BY <1>5 DEF Drive, DriveSucceeds, DriveFails, DrivePanics
  <1>6. CASE UNCHANGED vars
    BY <1>6 DEF vars
  <1>7. QED
    BY <1>1, <1>2, <1>3, <1>4, <1>5, <1>6 DEF Next, Send

LEMMA RefinementInvariant == Spec => []RefinementInv
  <1>1. Spec => []MessageInv
    BY InitMessageInv, StepMessageInv, TypeCorrect, PTL DEF Spec
  <1>2. QED
    BY <1>1, TypeCorrect, ControlCorrect, HistoryCorrect, PTL DEF RefinementInv

LEMMA InitRefines == Init => Handoff!Init
  BY SameWords DEF Init, Handoff!Init, Outstanding, NewPipeline

LEMMA OutstandingIsOwed == Outstanding = Owed(spans, log)
  BY DEF Outstanding, Owed

\* An accepted command is a submission at the back of what is outstanding.
LEMMA AcceptRefines ==
  ASSUME RefinementInv, NEW c \in PipelineCommand, Accept(c), Committed(c)
  PROVE  Handoff!Submit
  <1>1. /\ Backlog(pipeline, spans, log)
        /\ log' = Append(log, c)
        /\ spans' = Extended(pipeline, spans, log, c)
        /\ ~pipeline.failure /\ ~closed /\ closed' = closed /\ message' = message
        /\ pipeline' = Admit(pipeline, c) /\ pipeline \in Pipeline
    BY DEF Accept, SpansAfter, Extended, RefinementInv, HistoryInv, TypeInv, TypeOK
  <1>2. ~pipeline'.failure
    BY <1>1, PipelineFlags
  <1>3. /\ Outstanding = Owed(spans, log)
        /\ Outstanding' = Owed(Extended(pipeline, spans, log, c), Append(log, c))
    BY <1>1, OutstandingIsOwed DEF Outstanding, Owed
  <1>4. /\ Len(Outstanding') = Len(Outstanding) + 1
        /\ \A k \in 1..Len(Outstanding) : Outstanding'[k] = Outstanding[k]
        /\ Outstanding'[Len(Outstanding')] = c
    <2>1. LET o == Owed(spans, log)
              o2 == Owed(Extended(pipeline, spans, log, c), Append(log, c))
          IN /\ Len(o2) = Len(o) + 1
             /\ \A k \in 1..Len(o) : o2[k] = o[k]
             /\ o2[Len(o2)] = c
      BY <1>1, AdmitOwed
    <2>2. QED
      BY <1>3, <2>1, Zenon
  <1>5. QED
    BY <1>1, <1>2, <1>4, SameWords DEF Handoff!Submit

LEMMA SameRun ==
  ASSUME NEW s, NEW n
  PROVE  Handoff!IsRun(s, n) <=> IsRunOf(s, n)
  BY SameWords DEF Handoff!IsRun, IsRunOf

\* Taking an entry serves the run of commands it stands for.
LEMMA TakeRefines ==
  ASSUME RefinementInv, Take
  PROVE  Handoff!Serve
  <1>1. /\ pipeline \in Pipeline /\ ~pipeline.failure /\ pipeline.pending # <<>>
        /\ pipeline' = StartNext(pipeline) /\ spans' = Tail(spans)
        /\ message' = Head(pipeline.pending) /\ message = Idle
        /\ log' = log /\ closed' = closed
        /\ Backlog(pipeline, spans, log)
    BY DEF Take, CanStart, RefinementInv, TypeInv, TypeOK, MessageInv, HistoryInv
  <1>2. pipeline'.failure = pipeline.failure
    BY <1>1 DEF StartNext, Pipeline
  <1>3. Outstanding = Owed(spans, log) /\ Outstanding' = Owed(Tail(spans), log)
    BY <1>1 DEF Outstanding, Owed
  <1>4. PICK m \in 1..Len(Owed(spans, log)) :
          /\ IsRunOf(Owed(spans, log), m)
          /\ MergeOf(Owed(spans, log), 1, m) = Head(pipeline.pending)
          /\ SubSeq(Owed(spans, log), m + 1, Len(Owed(spans, log)))
               = Owed(Tail(spans), log)
    BY <1>1, StartServes
  <1>5. /\ m \in 1..Len(Outstanding)
        /\ Handoff!IsRun(Outstanding, m)
        /\ message' = Handoff!Merged(Outstanding, 1, m)
        /\ Outstanding' = SubSeq(Outstanding, m + 1, Len(Outstanding))
    BY <1>1, <1>3, <1>4, SameRun, SameMerge
  <1>6. QED
    BY <1>1, <1>2, <1>5, SameWords DEF Handoff!Serve, Handoff!ServeFrom

\* Every step is a step of the hand-off or leaves it alone.
LEMMA StepRefines ==
  RefinementInv /\ [Next]_vars => [Handoff!Next]_(Handoff!vars)
  <1> SUFFICES ASSUME RefinementInv, [Next]_vars
               PROVE  Handoff!Next \/ UNCHANGED Handoff!vars
    OBVIOUS
  <1> USE DEF Handoff!Next
  <1>1. CASE SendFrame \/ SendBarrier
    BY <1>1, SendIsCommitted, AcceptRefines DEF RefinementInv
  <1>2. CASE Take
    BY <1>2, TakeRefines
  <1>3. CASE DriveSucceeds
    <2>1. message # Idle
      BY <1>3 DEF DriveSucceeds, RefinementInv, MessageInv, Idle, PipelineCommand
    <2>2. pipeline'.failure = pipeline.failure
      BY <1>3 DEF DriveSucceeds, CompleteActive, RefinementInv, TypeInv, TypeOK, Pipeline
    <2>3. Handoff!Finish
      BY <1>3, <2>1, <2>2, SameWords DEF DriveSucceeds, Handoff!Finish, Outstanding
    <2>4. QED
      BY <2>3
  <1>4. CASE DriveFails
    <2>1. pipeline'.failure
      BY <1>4 DEF DriveFails, Fail, RefinementInv, TypeInv, TypeOK, Pipeline
    <2>2. Handoff!Terminate
      BY <1>4, <2>1, SameWords DEF DriveFails, Handoff!Terminate, Outstanding
    <2>3. QED
      BY <2>2
  <1>5. CASE ShutdownClose
    BY <1>5 DEF ShutdownClose, Handoff!Close, Handoff!vars, Outstanding
  <1>6. CASE UNCHANGED <<pipeline, closed, message, log, spans>>
    BY <1>6 DEF Handoff!vars, Outstanding
  <1>7. QED
    BY <1>1, <1>2, <1>3, <1>4, <1>5, <1>6
    DEF Next, Send, Drive, Shutdown, vars, SendAfterFailure, SendAfterShutdown,
        ShutdownNotify, ShutdownJoin, Exit, Wait, SpuriousWake, DrivePanics

\* The two threads implement ADR-0157's hand-off, for every set of layers,
\* barriers and commits and any number of sends.
THEOREM Refinement == Spec => HandoffSpec
  BY InitRefines, StepRefines, RefinementInvariant, PTL
  DEF Spec, HandoffSpec, Handoff!Spec
=============================================================================
