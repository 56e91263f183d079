-------------------------- MODULE WorkerEngineProofs --------------------------
(***************************************************************************)
(* Theorems about the Web execution adapter, for every set of layers and   *)
(* commits, any number of messages and any failure of the renderer: the    *)
(* refinement of FrameHandoff, the finality of the Shutdown barrier, the   *)
(* rule by which the Worker goes on committing by itself, and the types.   *)
(***************************************************************************)
EXTENDS WorkerEngine, BacklogProofs, FiniteSetTheorems

-----------------------------------------------------------------------------
(* The steps of the engine. *)

\* A command that the adapter may admit.
Admissible(c) == c \in PipelineCommand /\ Committed(c)

\* What a step does to the engine: it admits a command, which may start it,
\* throw or be refused; a completion settles; or nothing moves.
EngineStep ==
  \/ \E c : Admissible(c) /\ (Accepts(c) \/ Throws(c))
  \/ /\ completionActive
     /\ \/ Drive(CompleteActive(pipeline), spans, FALSE)
        \/ PresentThrows(CompleteActive(pipeline), FALSE)
     /\ log' = log
  \/ /\ completionActive
     /\ pipeline' = Fail(pipeline)
     /\ completionActive' = FALSE
     /\ message' = Idle
     /\ spans' = <<>>
     /\ UNCHANGED <<detached, log>>
  \/ UNCHANGED <<detached, pipeline, completionActive, historyVars>>

LEMMA SubmissionAdmissible ==
  ASSUME log \in Seq(PipelineCommand), NEW commit \in Commit
  PROVE  Admissible(Submission(commit)) /\ IsFrame(Submission(commit))
  <1> DEFINE f == FromCommittedFrame(Len(log) + 1, commit.layers,
                                     commit.layers \cap ScrollLayer,
                                     commit.changed, commit.work)
  <1>1. /\ commit.layers \in SUBSET Layer
        /\ commit.layers \cap ScrollLayer \in SUBSET Layer
        /\ commit.changed \in Changes
        /\ commit.work \in BOOLEAN
    BY WorkerCommits
  <1>2. Len(log) + 1 \in Nat
    OBVIOUS
  <1>3. Frame(f) \in PipelineCommand
    BY <1>1, <1>2, FromCommittedFrameType, CommandTypes
  <1>4. f.contentDirty = f.scroll \cap f.changed["content"]
    BY DEF FromCommittedFrame
  <1>5. Submission(commit) = Frame(f)
    BY DEF Submission
  <1> HIDE DEF f
  <1>6. Frame(f).frame = f /\ IsFrame(Frame(f))
    BY DEF Frame, IsFrame
  <1>7. Committed(Frame(f))
    BY <1>4, <1>6 DEF Committed
  <1>8. QED
    BY <1>3, <1>5, <1>6, <1>7 DEF Admissible

LEMMA BarrierAdmissible ==
  ASSUME NEW b \in {"Resize", "Shutdown"}
  PROVE  /\ Admissible(Lifecycle(b)) /\ ~IsFrame(Lifecycle(b))
         /\ IsShutdown(Lifecycle(b)) <=> b = "Shutdown"
  <1>1. Lifecycle(b) \in PipelineCommand
    BY WorkerBarriers, CommandTypes
  <1>2. ~IsFrame(Lifecycle(b)) /\ Lifecycle(b).barrier = b
    BY DEF IsFrame, Lifecycle
  <1>3. QED
    BY <1>1, <1>2 DEF Admissible, Committed, IsShutdown

\* A frame is no Shutdown.
LEMMA FrameIsNoShutdown ==
  ASSUME NEW c, Admissible(c), IsFrame(c)
  PROVE  ~IsShutdown(c)
  BY DEF Admissible, Committed, Frame, IsShutdown, NoBarrier

\* No step does anything else to the engine.
LEMMA StepsOfEngine ==
  ASSUME log \in Seq(PipelineCommand), [Next]_vars
  PROVE  EngineStep
  <1>1. ASSUME NEW commit \in Commit, CommitFrame(commit) \/ CommitThrows(commit)
        PROVE  EngineStep
    <2>1. Admissible(Submission(commit))
      BY SubmissionAdmissible
    <2>2. QED
      BY <1>1, <2>1 DEF CommitFrame, CommitThrows, EngineStep
  <1>2. CASE HandleFrame
    BY <1>1, <1>2 DEF HandleFrame
  <1>3. CASE HandleResize \/ HandleDetach
    <2>1. PICK b \in {"Resize", "Shutdown"} : Accepts(Lifecycle(b)) \/ Throws(Lifecycle(b))
      BY <1>3 DEF HandleResize, HandleDetach
    <2>2. QED
      BY <2>1, BarrierAdmissible DEF EngineStep
  <1>4. CASE CompletionResolves
    BY <1>4 DEF CompletionResolves, EngineStep
  <1>5. CASE CompletionRejects
    BY <1>5 DEF CompletionRejects, EngineStep
  <1>6. CASE ContinuationFires
    <2>1. CASE raw
      <3>1. PICK commit \in Commit : CommitFrame(commit) \/ CommitThrows(commit)
        BY <1>6, <2>1 DEF ContinuationFires
      <3>2. QED
        BY <1>1, <3>1
    <2>2. CASE ~raw
      BY <1>6, <2>2 DEF ContinuationFires, EngineStep
    <2>3. QED
      BY <2>1, <2>2
  <1>7. CASE UNCHANGED <<detached, pipeline, completionActive, historyVars>>
    BY <1>7 DEF EngineStep
  <1>8. QED
    BY <1>2, <1>3, <1>4, <1>5, <1>6, <1>7
    DEF Next, Main, Dispatch, Settle, vars, engineVars, PostFrame, PostResize,
        PostRequest, Post, Detach, DetachTimeout, MainReceives,
        HandleWithoutEngine, HandleInit, BootSucceeds, BootFails, HandleRequest,
        HandleDetachWithoutEngine, DetachReturns

-----------------------------------------------------------------------------
(* The engine: its pipeline, the promise it waits for, and its history. *)

\* A command is being executed exactly while a completion is awaited, and
\* within the turn that makes it idle the engine starts whatever is pending: an
\* idle engine has nothing left to start.  A failure leaves nothing behind.
EngineInv ==
  /\ Backlog(pipeline, spans, log)
  /\ pipeline.active = completionActive
  /\ completionActive => message \in PipelineCommand
  /\ ~completionActive => message = Idle /\ pipeline.pending = <<>>
  /\ pipeline.failure => ~completionActive

LEMMA InitEngineInv == Init => EngineInv
  <1> SUFFICES ASSUME Init PROVE EngineInv
    OBVIOUS
  <1>1. /\ pipeline \in Pipeline /\ pipeline.pending = <<>>
        /\ log = <<>> /\ spans = <<>>
        /\ pipeline.active = FALSE /\ completionActive = FALSE /\ message = Idle
    BY DEF Init, NewPipeline, Pipeline
  <1>2. log \in Seq(PipelineCommand) /\ Unmerged(log)
    BY <1>1 DEF Unmerged
  <1>3. Backlog(pipeline, spans, log)
    BY <1>1, <1>2, EmptyBacklog
  <1>4. QED
    BY <1>1, <1>3 DEF EngineInv

\* A turn that left the books p, sp in order and then drives keeps them so.
LEMMA DriveKeepsEngine ==
  ASSUME NEW p, NEW sp, NEW busy, Backlog(p, sp, log'), p.active = busy,
         busy => message \in PipelineCommand,
         p.failure => ~busy /\ p.pending = <<>>,
         Drive(p, sp, busy)
  PROVE  EngineInv'
  <1>1. p \in Pipeline /\ p.active \in BOOLEAN
    BY DEF Backlog, Typed, Pipeline
  <1>2. CASE NothingToStart(p, sp, busy)
    <2>1. /\ pipeline' = p /\ spans' = sp /\ completionActive' = busy
          /\ message' = IF busy THEN message ELSE Idle
          /\ p.active \/ p.failure \/ p.pending = <<>>
      BY <1>2 DEF NothingToStart, CanStart
    <2>2. QED
      BY <1>1, <2>1 DEF EngineInv
  <1>3. CASE StartsNext(p, sp)
    <2>1. /\ CanStart(p) /\ p.pending # <<>> /\ ~p.failure
          /\ pipeline' = StartNext(p) /\ spans' = Tail(sp)
          /\ message' = Head(p.pending) /\ completionActive' = TRUE
      BY <1>3 DEF StartsNext, CanStart
    <2>2. /\ StartNext(p) \in Pipeline /\ Head(p.pending) \in PipelineCommand
      BY <1>1, <2>1, StartNextType
    <2>3. /\ StartNext(p).pending = Tail(p.pending)
          /\ StartNext(p).active = TRUE
          /\ StartNext(p).failure = p.failure
      BY <1>1 DEF StartNext, Pipeline
    <2>4. Backlog(StartNext(p), Tail(sp), log')
      BY <2>1, <2>2, <2>3, StartBacklog
    <2>5. QED
      BY <2>1, <2>2, <2>3, <2>4 DEF EngineInv
  <1>4. QED
    BY <1>2, <1>3 DEF Drive

\* A failure empties the books.
LEMMA FailKeepsEngine ==
  ASSUME NEW p \in Pipeline, NEW s \in Seq(PipelineCommand), Unmerged(s),
         pipeline' = Fail(p), spans' = <<>>, log' = s, message' = Idle,
         completionActive' = FALSE
  PROVE  EngineInv'
  <1>1. /\ Fail(p) \in Pipeline /\ Fail(p).pending = <<>>
        /\ Fail(p).active = FALSE
    BY FailType DEF Fail, Pipeline
  <1>2. Backlog(Fail(p), <<>>, s)
    BY <1>1, EmptyBacklog
  <1>3. QED
    BY <1>1, <1>2 DEF EngineInv

LEMMA ThrowKeepsEngine ==
  ASSUME NEW p, NEW sp, NEW busy, Backlog(p, sp, log'), p.active = busy,
         PresentThrows(p, busy)
  PROVE  EngineInv' /\ pipeline'.failure
  <1>1. /\ p \in Pipeline /\ p.active \in BOOLEAN
        /\ log' \in Seq(PipelineCommand) /\ Unmerged(log')
    BY DEF Backlog, Typed, Pipeline
  <1>2. /\ CanStart(p) /\ busy = FALSE
        /\ pipeline' = Fail(StartNext(p)) /\ spans' = <<>> /\ message' = Idle
        /\ completionActive' = busy
    BY <1>1 DEF PresentThrows, CanStart
  <1>3. StartNext(p) \in Pipeline
    BY <1>1, <1>2, StartNextType
  <1>4. Fail(StartNext(p)).failure
    BY <1>3 DEF Fail, Pipeline
  <1>5. QED
    BY <1>1, <1>2, <1>3, <1>4, FailKeepsEngine

\* The books right after an admission, before the turn drives on.
LEMMA Admitted ==
  ASSUME EngineInv, NEW c, Admissible(c), ~pipeline.failure, log' = Append(log, c)
  PROVE  LET p == Admit(pipeline, c)
             sp == SpansAfter(c)
         IN /\ Backlog(p, sp, log')
            /\ p.active = completionActive
            /\ ~p.failure
            /\ p.pending # <<>>
  <1>1. c \in PipelineCommand /\ Committed(c) /\ pipeline \in Pipeline
    BY DEF Admissible, EngineInv, Backlog, Typed
  <1>2. SpansAfter(c) = Extended(pipeline, spans, log, c)
    BY DEF SpansAfter, Extended
  <1>3. Backlog(Admit(pipeline, c), SpansAfter(c), log')
    BY <1>1, <1>2, AdmitBacklog DEF EngineInv
  <1>4. /\ Admit(pipeline, c).active = completionActive
        /\ ~Admit(pipeline, c).failure
    <2>1. /\ Admit(pipeline, c).active = pipeline.active
          /\ Admit(pipeline, c).failure = pipeline.failure
      BY <1>1, PipelineFlags
    <2>2. QED
      BY <2>1 DEF EngineInv
  <1>5. Admit(pipeline, c).pending # <<>>
    BY <1>1, PendingLengths, PushedQueue DEF Pipeline
  <1>6. QED
    BY <1>3, <1>4, <1>5

\* The books right after a completion.
LEMMA Completed ==
  ASSUME EngineInv, completionActive, log' = log
  PROVE  LET p == CompleteActive(pipeline)
         IN /\ Backlog(p, spans, log')
            /\ p.active = FALSE
            /\ ~p.failure
            /\ p.pending = pipeline.pending
  <1>1. /\ pipeline \in Pipeline /\ ~pipeline.failure
    BY DEF EngineInv, Backlog, Typed
  <1>2. /\ CompleteActive(pipeline).active = FALSE
        /\ CompleteActive(pipeline).failure = pipeline.failure
        /\ CompleteActive(pipeline).pending = pipeline.pending
    BY <1>1 DEF CompleteActive, Pipeline
  <1>3. Backlog(CompleteActive(pipeline), spans, log')
    BY <1>1, <1>2, CompleteActiveType, SameBacklog DEF EngineInv
  <1>4. QED
    BY <1>1, <1>2, <1>3

LEMMA StepEngineInv == EngineInv /\ [Next]_vars => EngineInv'
  <1> SUFFICES ASSUME EngineInv, EngineStep
               PROVE  EngineInv'
    BY StepsOfEngine DEF EngineInv, Backlog, Typed
  <1>0. /\ pipeline \in Pipeline /\ log \in Seq(PipelineCommand) /\ Unmerged(log)
    BY DEF EngineInv, Backlog, Typed
  <1>1. ASSUME NEW c, Admissible(c), Accepts(c)
        PROVE  EngineInv'
    BY <1>1, Admitted, DriveKeepsEngine DEF Accepts, EngineInv
  <1>2. ASSUME NEW c, Admissible(c), AcceptsAndThrows(c)
        PROVE  EngineInv'
    BY <1>2, Admitted, ThrowKeepsEngine DEF AcceptsAndThrows
  <1>3. ASSUME NEW c, Admissible(c), RefusesAndThrows(c)
        PROVE  EngineInv'
    <2>1. /\ pipeline.failure /\ pipeline' = Reject(pipeline)
          /\ UNCHANGED <<completionActive, message, log, spans>>
      BY <1>3 DEF RefusesAndThrows, Admit, historyVars
    <2>2. /\ Reject(pipeline).pending = pipeline.pending
          /\ Reject(pipeline).active = pipeline.active
          /\ Reject(pipeline).failure = pipeline.failure
      BY <1>0 DEF Reject, Pipeline
    <2>3. Backlog(pipeline', spans', log')
      BY <1>0, <2>1, <2>2, RejectType, SameBacklog DEF EngineInv
    <2>4. QED
      BY <2>1, <2>2, <2>3 DEF EngineInv
  <1>4. ASSUME completionActive, Drive(CompleteActive(pipeline), spans, FALSE), log' = log
        PROVE  EngineInv'
    BY <1>4, Completed, DriveKeepsEngine
  <1>5. ASSUME completionActive, PresentThrows(CompleteActive(pipeline), FALSE), log' = log
        PROVE  EngineInv'
    BY <1>5, Completed, ThrowKeepsEngine
  <1>6. ASSUME pipeline' = Fail(pipeline), completionActive' = FALSE, message' = Idle,
               spans' = <<>>, log' = log
        PROVE  EngineInv'
    BY <1>0, <1>6, FailKeepsEngine
  <1>7. ASSUME UNCHANGED <<pipeline, completionActive, historyVars>>
        PROVE  EngineInv'
    BY <1>7 DEF EngineInv, historyVars
  <1>8. QED
    BY <1>1, <1>2, <1>3, <1>4, <1>5, <1>6, <1>7 DEF EngineStep, Throws

LEMMA EngineCorrect == Spec => []EngineInv
  BY InitEngineInv, StepEngineInv, PTL DEF Spec

-----------------------------------------------------------------------------
(* The refinement of FrameHandoff. *)

\* The hand-off's vocabulary is this module's.
LEMMA SameWords ==
  /\ Handoff!PipelineCommand = PipelineCommand
  /\ Handoff!Nothing = Idle
  /\ \A c : Handoff!IsFrame(c) <=> IsFrame(c)
  BY DEF Handoff!PipelineCommand, Handoff!FrameSubmission, Handoff!Changes,
         Handoff!Fact, Handoff!Nothing, Handoff!NoFrame, Handoff!NoBarrier,
         Handoff!IsFrame, PipelineCommand, FrameSubmission, Changes, Fact,
         Idle, NoFrame, NoBarrier, IsFrame

LEMMA SameMerge ==
  ASSUME NEW s, NEW lo, NEW hi
  PROVE  Handoff!Merged(s, lo, hi) = MergeOf(s, lo, hi)
  BY DEF MergeOf, Handoff!Merged, Handoff!IsFrame, Handoff!Frame, Handoff!Fact,
         Handoff!NoBarrier, IsFrame, Frame, Fact, NoBarrier

LEMMA SameRun ==
  ASSUME NEW s, NEW n
  PROVE  Handoff!IsRun(s, n) <=> IsRunOf(s, n)
  BY SameWords DEF Handoff!IsRun, IsRunOf

LEMMA IdleIsNoCommand == Idle \notin PipelineCommand
  BY DEF Idle, PipelineCommand

LEMMA InitRefines == Init => Handoff!Init
  BY SameWords DEF Init, Handoff!Init, Outstanding, NewPipeline

\* What an idle engine admits is all there is to start.
LEMMA IdleAdmits ==
  ASSUME EngineInv, ~completionActive, NEW c, Admissible(c), ~pipeline.failure
  PROVE  /\ Outstanding = <<>>
         /\ Head(Admit(pipeline, c).pending) = c
         /\ Tail(Admit(pipeline, c).pending) = <<>>
         /\ Tail(SpansAfter(c)) = <<>>
  <1>1. /\ pipeline.pending = <<>> /\ c \in PipelineCommand
        /\ pipeline \in Pipeline /\ spans \in Seq(Interval)
        /\ Len(spans) = Len(pipeline.pending)
    BY DEF EngineInv, Backlog, Typed, Partition, Admissible
  <1>2. spans = <<>>
    <2>1. Len(spans) = 0
      BY <1>1
    <2>2. QED
      BY <1>1, <2>1
  <1>3. ~Coalesces(pipeline, c)
    BY <1>1 DEF Coalesces
  <1>4. Admit(pipeline, c).pending = Append(<<>>, c)
    BY <1>1, <1>3, PushedQueue
  <1>5. SpansAfter(c) = Append(<<>>, [lo |-> Len(log) + 1, hi |-> Len(log) + 1])
    BY <1>2, <1>3 DEF SpansAfter
  <1>6. ASSUME NEW x
        PROVE  Head(Append(<<>>, x)) = x /\ Tail(Append(<<>>, x)) = <<>>
    OBVIOUS
  <1>7. QED
    BY <1>2, <1>4, <1>5, <1>6 DEF Outstanding

\* An admission joins what is outstanding, or is served at once.
LEMMA AcceptRefines ==
  ASSUME EngineInv, NEW c, Admissible(c), Accepts(c)
  PROVE  Handoff!Submit \/ Handoff!AcceptAndServe
  <1> DEFINE p == Admit(pipeline, c)
             sp == SpansAfter(c)
  <1>1. /\ ~pipeline.failure /\ log' = Append(log, c)
        /\ Drive(p, sp, completionActive)
    BY DEF Accepts
  <1>2. /\ p.active = completionActive /\ ~p.failure /\ p.pending # <<>>
    BY <1>1, Admitted
  <1>3. c \in PipelineCommand /\ Committed(c) /\ Backlog(pipeline, spans, log)
        /\ p \in Pipeline
    BY AdmitType DEF Admissible, EngineInv, Backlog, Typed
  <1>4. CASE NothingToStart(p, sp, completionActive)
    <2>1. /\ pipeline' = p /\ spans' = sp /\ completionActive /\ message' = message
      BY <1>2, <1>4 DEF NothingToStart, CanStart
    <2>2. /\ Outstanding = Owed(spans, log)
          /\ Outstanding' = Owed(Extended(pipeline, spans, log, c), Append(log, c))
      BY <1>1, <2>1 DEF Outstanding, Owed, SpansAfter, Extended
    <2>3. LET o == Owed(spans, log)
              o2 == Owed(Extended(pipeline, spans, log, c), Append(log, c))
          IN /\ Len(o2) = Len(o) + 1
             /\ \A k \in 1..Len(o) : o2[k] = o[k]
             /\ o2[Len(o2)] = c
      BY <1>1, <1>3, AdmitOwed
    <2>4. /\ Len(Outstanding') = Len(Outstanding) + 1
          /\ \A k \in 1..Len(Outstanding) : Outstanding'[k] = Outstanding[k]
          /\ Outstanding'[Len(Outstanding')] = c
      BY <2>2, <2>3, Zenon
    <2>5. ~pipeline'.failure
      BY <1>2, <2>1
    <2>6. QED
      BY <1>1, <1>3, <2>1, <2>4, <2>5, SameWords DEF Handoff!Submit
  <1>5. CASE StartsNext(p, sp)
    <2>1. /\ CanStart(p) /\ pipeline' = StartNext(p) /\ spans' = Tail(sp)
          /\ message' = Head(p.pending)
      BY <1>5 DEF StartsNext
    <2>2. ~completionActive
      BY <1>2, <2>1 DEF CanStart
    <2>3. message = Idle
      BY <2>2 DEF EngineInv
    <2>4. Outstanding = <<>> /\ message' = c /\ spans' = <<>>
      BY <1>1, <2>1, <2>2, IdleAdmits
    <2>5. ~pipeline'.failure
      BY <1>2, <1>3, <2>1 DEF StartNext, Pipeline
    <2>6. Outstanding' = <<>>
      BY <2>4 DEF Outstanding
    <2>7. QED
      BY <1>1, <1>3, <2>3, <2>4, <2>5, <2>6, SameWords DEF Handoff!AcceptAndServe
  <1>6. QED
    BY <1>1, <1>4, <1>5 DEF Drive

\* Whatever fails ends the hand-off.
LEMMA FailureRefines ==
  ASSUME message' = Idle, spans' = <<>>, pipeline'.failure
  PROVE  Handoff!Terminate
  BY SameWords DEF Handoff!Terminate, Outstanding

\* A completion finishes the command being served, and serves the next run in
\* the same turn if there is one.
LEMMA CompletionRefines ==
  ASSUME EngineInv, completionActive, log' = log,
         Drive(CompleteActive(pipeline), spans, FALSE)
  PROVE  Handoff!Finish \/ Handoff!FinishAndServe
  <1> DEFINE p == CompleteActive(pipeline)
  <1>1. /\ Backlog(p, spans, log) /\ ~p.failure /\ p \in Pipeline
        /\ ~pipeline.failure
    BY Completed DEF EngineInv, Backlog, Typed
  <1>2. message # Idle
    BY IdleIsNoCommand DEF EngineInv
  <1>3. CASE NothingToStart(p, spans, FALSE)
    <2>1. pipeline' = p /\ spans' = spans /\ message' = Idle
      BY <1>3 DEF NothingToStart
    <2>2. Outstanding' = Outstanding
      BY <2>1 DEF Outstanding
    <2>3. QED
      BY <1>1, <1>2, <2>1, <2>2, SameWords DEF Handoff!Finish
  <1>4. CASE StartsNext(p, spans)
    <2>1. /\ p.pending # <<>> /\ pipeline' = StartNext(p) /\ spans' = Tail(spans)
          /\ message' = Head(p.pending)
      BY <1>4 DEF StartsNext, CanStart
    <2>2. ~pipeline'.failure
      BY <1>1, <2>1 DEF StartNext, Pipeline
    <2>3. Outstanding = Owed(spans, log) /\ Outstanding' = Owed(Tail(spans), log)
      BY <2>1 DEF Outstanding, Owed
    <2> HIDE DEF p
    <2>4. PICK m \in 1..Len(Owed(spans, log)) :
            /\ IsRunOf(Owed(spans, log), m)
            /\ MergeOf(Owed(spans, log), 1, m) = Head(p.pending)
            /\ SubSeq(Owed(spans, log), m + 1, Len(Owed(spans, log)))
                 = Owed(Tail(spans), log)
      BY <1>1, <2>1, StartServes
    <2>5. /\ m \in 1..Len(Outstanding)
          /\ Handoff!IsRun(Outstanding, m)
          /\ message' = Handoff!Merged(Outstanding, 1, m)
          /\ Outstanding' = SubSeq(Outstanding, m + 1, Len(Outstanding))
      BY <2>1, <2>3, <2>4, SameRun, SameMerge
    <2>6. QED
      BY <1>1, <1>2, <2>2, <2>5, SameWords
      DEF Handoff!FinishAndServe, Handoff!ServeFrom
  <1>5. QED
    BY <1>3, <1>4 DEF Drive

\* Every step is a turn of the hand-off or leaves it alone.
LEMMA StepRefines ==
  EngineInv /\ [Next]_vars
    => [Handoff!Next \/ Handoff!AcceptAndServe \/ Handoff!FinishAndServe]_(Handoff!vars)
  <1> SUFFICES ASSUME EngineInv, EngineStep
               PROVE  \/ Handoff!Next \/ Handoff!AcceptAndServe \/ Handoff!FinishAndServe
                      \/ UNCHANGED Handoff!vars
    BY StepsOfEngine DEF EngineInv, Backlog, Typed
  <1>0. pipeline \in Pipeline
    BY DEF EngineInv, Backlog, Typed
  <1>1. ASSUME NEW c, Admissible(c), Accepts(c)
        PROVE  Handoff!Submit \/ Handoff!AcceptAndServe
    BY <1>1, AcceptRefines
  <1>2. ASSUME NEW c, Admissible(c), AcceptsAndThrows(c)
        PROVE  Handoff!Terminate
    <2>1. pipeline'.failure
      BY <1>2, Admitted, ThrowKeepsEngine DEF AcceptsAndThrows
    <2>2. QED
      BY <1>2, <2>1, FailureRefines DEF AcceptsAndThrows, PresentThrows
  <1>3. ASSUME NEW c, Admissible(c), RefusesAndThrows(c)
        PROVE  UNCHANGED Handoff!vars
    <2>1. pipeline' = Reject(pipeline) /\ UNCHANGED <<message, log, spans>>
      BY <1>3 DEF RefusesAndThrows, Admit, historyVars
    <2>2. pipeline'.failure = pipeline.failure
      BY <1>0, <2>1 DEF Reject, Pipeline
    <2>3. QED
      BY <2>1, <2>2 DEF Handoff!vars, Outstanding
  <1>4. ASSUME completionActive, Drive(CompleteActive(pipeline), spans, FALSE), log' = log
        PROVE  Handoff!Finish \/ Handoff!FinishAndServe
    BY <1>4, CompletionRefines
  <1>5. ASSUME completionActive, PresentThrows(CompleteActive(pipeline), FALSE), log' = log
        PROVE  Handoff!Terminate
    <2>1. pipeline'.failure
      BY <1>5, Completed, ThrowKeepsEngine
    <2>2. QED
      BY <1>5, <2>1, FailureRefines DEF PresentThrows
  <1>6. ASSUME pipeline' = Fail(pipeline), message' = Idle, spans' = <<>>
        PROVE  Handoff!Terminate
    <2>1. pipeline'.failure
      BY <1>0, <1>6 DEF Fail, Pipeline
    <2>2. QED
      BY <1>6, <2>1, FailureRefines
  <1>7. ASSUME UNCHANGED <<pipeline, historyVars>>
        PROVE  UNCHANGED Handoff!vars
    BY <1>7 DEF Handoff!vars, Outstanding, historyVars
  <1>8. QED
    BY <1>1, <1>2, <1>3, <1>4, <1>5, <1>6, <1>7
    DEF EngineStep, Throws, Handoff!Next

\* The Worker keeps ADR-0157's hand-off, starting commands within the turns
\* that make them startable, for every set of layers and commits and any number
\* of messages.
THEOREM WorkerRefinement == Spec => HandoffSpec
  BY InitRefines, StepRefines, EngineCorrect, PTL
  DEF Spec, HandoffSpec, Handoff!TurnSpec

-----------------------------------------------------------------------------
(* The life of the Worker, from init to the Shutdown barrier. *)

Closing == \E k \in 1..Len(log) : IsShutdown(log[k])

Answered == \E k \in 1..Len(toMain) : toMain[k] = "detached"

\* The bridge posts init before and detach after everything else.
ChannelInv ==
  \A k \in 1..Len(toWorker) :
    /\ toWorker[k] = "init" => k = 1 /\ chain = "idle" /\ ~raw /\ log = <<>>
    /\ toWorker[k] = "detach" => k = Len(toWorker) /\ main # "open"

\* An engine that has not booted accepted nothing; one that is waited for is
\* there, and its barrier was admitted.
ChainInv ==
  /\ chain = "booting" => /\ ~raw
                          /\ log = <<>>
                          /\ \A k \in 1..Len(toWorker) : toWorker[k] # "init"
  /\ chain \in {"detaching", "released"} => raw /\ Closing
  /\ chain = "released" => detached /\ ~completionActive
  /\ ~raw => log = <<>> \/ Closing

\* Once the barrier is admitted nothing can follow it: the message that asked
\* for it was the last, the dispatch chain waits for it, and the callback is
\* cancelled.
ClosingInv ==
  /\ Closing => /\ toWorker = <<>>
                /\ ~continuation
                /\ main # "open"
                /\ raw => chain \in {"detaching", "released"}
                /\ \A k \in 1..Len(log) : IsShutdown(log[k]) => k = Len(log)
  /\ detached => Closing /\ pipeline.pending = <<>>

\* A detach that was answered leaves an engine nobody drives any more.
AnsweredInv ==
  Answered => /\ toWorker = <<>>
              /\ chain = "idle"
              /\ ~raw
              /\ main # "open"
              /\ log = <<>> \/ (detached /\ ~completionActive)

Channels == toWorker \in Seq(ToWorker) /\ toMain \in Seq(ToMain)

LifeInv ==
  /\ Channels
  /\ ChannelInv
  /\ ChainInv
  /\ ClosingInv
  /\ AnsweredInv

LEMMA InitLifeInv == Init => LifeInv
  <1> SUFFICES ASSUME Init PROVE LifeInv
    OBVIOUS
  <1>1. /\ toWorker = <<"init">> /\ toMain = <<>> /\ chain = "idle" /\ raw = FALSE
        /\ log = <<>> /\ detached = FALSE
    BY DEF Init
  <1>2. Channels /\ Len(toWorker) = 1 /\ toWorker[1] = "init"
    BY <1>1 DEF Channels, ToWorker, ToMain
  <1>3. ~Closing /\ ~Answered
    BY <1>1 DEF Closing, Answered
  <1>4. ChannelInv
    BY <1>1, <1>2 DEF ChannelInv
  <1>5. QED
    BY <1>1, <1>2, <1>3, <1>4 DEF LifeInv, ChainInv, ClosingInv, AnsweredInv

\* The next message, taken by its handler.
LEMMA Taking ==
  ASSUME Channels, NEW kind, Handles(kind)
  PROVE  /\ toWorker # <<>> /\ toWorker[1] = kind /\ 1 \in 1..Len(toWorker)
         /\ toWorker' \in Seq(ToWorker)
         /\ Len(toWorker') = Len(toWorker) - 1
         /\ \A k \in 1..Len(toWorker') : /\ k + 1 \in 1..Len(toWorker)
                                        /\ k + 1 # 1
                                        /\ toWorker'[k] = toWorker[k + 1]
         /\ chain = "idle" /\ Alive
         /\ UNCHANGED mainVars
  BY DEF Handles, Channels

\* An answer to main.
LEMMA Answering ==
  ASSUME Channels, NEW kind \in ToMain, PostToMain(kind)
  PROVE  /\ toMain' \in Seq(ToMain)
         /\ Answered' <=> Answered \/ kind = "detached"
  <1>1. /\ toMain \in Seq(ToMain) /\ toMain' = Append(toMain, kind)
    BY DEF Channels, PostToMain
  <1>2. /\ Len(toMain') = Len(toMain) + 1 /\ Len(toMain) \in Nat
        /\ \A k \in 1..Len(toMain) : toMain'[k] = toMain[k] /\ k \in 1..Len(toMain')
        /\ toMain'[Len(toMain) + 1] = kind
    BY <1>1
  <1>3. \A k \in 1..Len(toMain') : k \in 1..Len(toMain) \/ k = Len(toMain) + 1
    BY <1>2
  <1>4. QED
    BY <1>1, <1>2, <1>3 DEF Answered

\* The channel after its first message was taken.
LEMMA TakingKeepsChannel ==
  ASSUME Channels, ChannelInv, NEW kind, Handles(kind)
  PROVE  /\ ChannelInv'
         /\ \A k \in 1..Len(toWorker') : toWorker'[k] # "init"
         /\ kind = "detach" => toWorker' = <<>> /\ main' # "open"
  <1>1. /\ toWorker[1] = kind /\ 1 \in 1..Len(toWorker)
        /\ toWorker' \in Seq(ToWorker)
        /\ Len(toWorker') = Len(toWorker) - 1
        /\ \A k \in 1..Len(toWorker') : /\ k + 1 \in 1..Len(toWorker)
                                       /\ k + 1 # 1
                                       /\ toWorker'[k] = toWorker[k + 1]
        /\ main' = main
    BY Taking DEF mainVars
  <1>2. Len(toWorker) \in Nat
    BY DEF Channels
  <1>3. \A k \in 1..Len(toWorker') : toWorker'[k] # "init"
    BY <1>1 DEF ChannelInv
  <1>4. \A k \in 1..Len(toWorker') :
          toWorker'[k] = "detach" => k = Len(toWorker') /\ main' # "open"
    <2>1. TAKE k \in 1..Len(toWorker')
    <2>2. HAVE toWorker'[k] = "detach"
    <2>3. k + 1 = Len(toWorker) /\ main # "open"
      BY <1>1, <2>2 DEF ChannelInv
    <2>4. QED
      BY <1>1, <1>2, <2>3
  <1>5. kind = "detach" => toWorker' = <<>> /\ main' # "open"
    <2>1. HAVE kind = "detach"
    <2>2. Len(toWorker) = 1 /\ main # "open"
      BY <1>1, <2>1 DEF ChannelInv
    <2>3. Len(toWorker') = 1 - 1
      BY <1>1, <2>2, Zenon
    <2>4. QED
      BY <1>1, <2>2, <2>3
  <1>6. QED
    BY <1>3, <1>4, <1>5 DEF ChannelInv

-----------------------------------------------------------------------------
(* The barrier, from its admission to its execution. *)

LastOnly(s) == \A k \in 1..Len(s) : IsShutdown(s[k]) => k = Len(s)

\* A Shutdown at the head of the queue is the whole queue.
LEMMA ShutdownServed ==
  ASSUME NEW p, NEW sp, NEW s, Backlog(p, sp, s), LastOnly(s),
         p.pending # <<>>, IsShutdown(Head(p.pending))
  PROVE  /\ Tail(p.pending) = <<>>
         /\ \E k \in 1..Len(s) : IsShutdown(s[k])
  <1> DEFINE n == Len(sp)
             hi == sp[1].hi
  <1>1. /\ p.pending \in Seq(PipelineCommand) /\ sp \in Seq(Interval)
        /\ s \in Seq(PipelineCommand) /\ n = Len(p.pending)
    BY DEF Backlog, Typed, Partition, Pipeline
  <1>2. n \in Nat \ {0} /\ 1 \in 1..n /\ Head(p.pending) = p.pending[1]
    BY <1>1
  <1>3. /\ hi \in Nat /\ hi >= 1 /\ hi <= Len(s)
        /\ hi = IF 1 = n THEN Len(s) ELSE sp[2].lo - 1
    <2>1. \A i \in 1..n : /\ sp[i].lo \in 1..sp[i].hi
                         /\ sp[i].hi = IF i = n THEN Len(s) ELSE sp[i + 1].lo - 1
      BY DEF Backlog, Partition
    <2>2. hi <= Len(s)
      BY <1>2 DEF Backlog, Inside
    <2>3. sp[1] \in Interval
      BY <1>1, <1>2
    <2>4. hi \in Nat /\ hi >= 1
      BY <1>2, <2>1, <2>3 DEF Interval
    <2>5. hi = IF 1 = n THEN Len(s) ELSE sp[1 + 1].lo - 1
      BY <1>2, <2>1
    <2>6. QED
      BY <2>2, <2>4, <2>5
  <1>4. IsShutdown(s[hi])
    <2>1. p.pending[1] = MergeOf(s, sp[1].lo, hi)
      BY <1>1, <1>2 DEF Backlog, Faithful
    <2>2. CASE IsFrame(s[hi])
      <3>1. MergeOf(s, sp[1].lo, hi).barrier = NoBarrier
        BY <2>2 DEF MergeOf, Frame
      <3>2. QED
        BY <1>2, <2>1, <3>1 DEF IsShutdown, NoBarrier
    <2>3. CASE ~IsFrame(s[hi])
      BY <1>2, <2>1, <2>3 DEF MergeOf
    <2>4. QED
      BY <2>2, <2>3
  <1>5. hi \in 1..Len(s) /\ hi = Len(s)
    <2>1. hi \in 1..Len(s)
      BY <1>1, <1>3
    <2>2. QED
      BY <1>4, <2>1 DEF LastOnly
  <1>6. n = 1
    <2>1. SUFFICES ASSUME n # 1 PROVE FALSE
      OBVIOUS
    <2>2. 2 \in 1..n
      <3> HIDE DEF n
      <3>1. QED
        BY <1>2, <2>1
    <2>3. /\ sp[2].lo \in 1..sp[2].hi /\ sp[2].hi <= Len(s)
          /\ sp[2] \in Interval
      BY <1>1, <2>2 DEF Backlog, Partition, Inside
    <2>4. hi = sp[2].lo - 1
      BY <1>3, <2>1
    <2>5. sp[2].lo <= Len(s) /\ sp[2].lo \in Nat
      BY <1>1, <2>3 DEF Interval
    <2>6. QED
      BY <1>1, <1>5, <2>4, <2>5
  <1>7. Tail(p.pending) = <<>>
    <2>1. Len(p.pending) = 1
      BY <1>1, <1>6
    <2>2. /\ Tail(p.pending) \in Seq(PipelineCommand)
          /\ Len(Tail(p.pending)) = 0
      BY <1>1, <2>1
    <2> DEFINE rest == Tail(p.pending)
    <2> HIDE DEF rest
    <2>3. rest = <<>>
      <3>1. rest \in Seq(PipelineCommand) /\ Len(rest) = 0
        BY <2>2 DEF rest
      <3>2. QED
        BY <3>1
    <2>4. QED
      BY <2>3 DEF rest
  <1>8. QED
    BY <1>4, <1>5, <1>7

\* A turn that starts the barrier detaches the engine and leaves no queue.
LEMMA DriveDetaches ==
  ASSUME NEW p, NEW sp, NEW busy, Backlog(p, sp, log'), LastOnly(log'),
         detached => Closing' /\ p.pending = <<>>,
         Drive(p, sp, busy)
  PROVE  detached' => Closing' /\ pipeline'.pending = <<>>
  <1>1. p \in Pipeline
    BY DEF Backlog, Typed
  <1>2. CASE NothingToStart(p, sp, busy)
    BY <1>2 DEF NothingToStart
  <1>3. CASE StartsNext(p, sp)
    <2>1. /\ p.pending # <<>> /\ pipeline' = StartNext(p)
          /\ detached' = (detached \/ IsShutdown(Head(p.pending)))
      BY <1>3 DEF StartsNext, CanStart
    <2>2. ~detached
      BY <2>1
    <2>3. StartNext(p).pending = Tail(p.pending)
      BY <1>1 DEF StartNext, Pipeline
    <2>4. ASSUME detached'
          PROVE  Closing' /\ pipeline'.pending = <<>>
      <3>1. IsShutdown(Head(p.pending))
        BY <2>1, <2>2, <2>4
      <3>2. /\ Tail(p.pending) = <<>>
            /\ \E k \in 1..Len(log') : IsShutdown(log'[k])
        BY <2>1, <3>1, ShutdownServed
      <3>3. QED
        BY <2>1, <2>3, <3>2 DEF Closing
    <2>5. QED
      BY <2>4
  <1>4. QED
    BY <1>2, <1>3 DEF Drive

\* The log after an admission.
LEMMA LogGrows ==
  ASSUME log \in Seq(PipelineCommand), NEW c, log' = Append(log, c)
  PROVE  /\ Closing' <=> Closing \/ IsShutdown(c)
         /\ ~Closing => LastOnly(log')
  <1>1. /\ Len(log') = Len(log) + 1 /\ Len(log) \in Nat
        /\ \A k \in 1..Len(log) : log'[k] = log[k] /\ k \in 1..Len(log')
        /\ log'[Len(log) + 1] = c /\ Len(log) + 1 \in 1..Len(log')
    OBVIOUS
  <1>2. \A k \in 1..Len(log') : k \in 1..Len(log) \/ k = Len(log) + 1
    BY <1>1
  <1>3. Closing' <=> Closing \/ IsShutdown(c)
    BY <1>1, <1>2 DEF Closing
  <1>4. ~Closing => LastOnly(log')
    BY <1>1, <1>2 DEF Closing, LastOnly
  <1>5. QED
    BY <1>3, <1>4

\* An admission while nothing is closing: only the barrier closes the hand-off,
\* and only it detaches the engine.
LEMMA Accepting ==
  ASSUME EngineInv, ~Closing, ~detached, NEW c, Admissible(c), Accepts(c)
  PROVE  /\ Closing' <=> IsShutdown(c)
         /\ LastOnly(log')
         /\ detached' => Closing' /\ pipeline'.pending = <<>>
  <1>1. log' = Append(log, c) /\ ~pipeline.failure
    BY DEF Accepts
  <1>2. (Closing' <=> IsShutdown(c)) /\ LastOnly(log')
    BY <1>1, LogGrows DEF EngineInv, Backlog, Typed
  <1>3. Backlog(Admit(pipeline, c), SpansAfter(c), log')
    BY <1>1, Admitted
  <1>4. detached' => Closing' /\ pipeline'.pending = <<>>
    BY <1>2, <1>3, DriveDetaches DEF Accepts
  <1>5. QED
    BY <1>2, <1>4

\* A call that throws closes nothing: what an idle engine fails to present is
\* the command just admitted, and that is a frame.
LEMMA Throwing ==
  ASSUME EngineInv, ~Closing, ~detached, NEW c, Admissible(c), Throws(c)
  PROVE  ~Closing' /\ ~detached'
  <1>1. CASE AcceptsAndThrows(c)
    <2>1. /\ log' = Append(log, c) /\ ~pipeline.failure
          /\ CanStart(Admit(pipeline, c)) /\ IsFrame(Head(Admit(pipeline, c).pending))
          /\ detached' = detached
      BY <1>1 DEF AcceptsAndThrows, PresentThrows
    <2>2. ~completionActive
      BY <2>1, Admitted DEF CanStart
    <2>3. ~IsShutdown(c)
      BY <2>1, <2>2, IdleAdmits, FrameIsNoShutdown
    <2>4. QED
      BY <2>1, <2>3, LogGrows DEF EngineInv, Backlog, Typed
  <1>2. CASE RefusesAndThrows(c)
    BY <1>2 DEF RefusesAndThrows, historyVars, Closing
  <1>3. QED
    BY <1>1, <1>2 DEF Throws

\* A step that leaves nothing closing and nothing answered.
LEMMA QuietTurn ==
  ASSUME Channels', ChannelInv', ChainInv', ~Closing', ~Answered', ~detached'
  PROVE  LifeInv'
  BY DEF LifeInv, ClosingInv, AnsweredInv

\* A frame committed by the Worker, whether it is accepted or throws.
LEMMA Committing ==
  ASSUME EngineInv, ~Closing, ~detached, NEW commit \in Commit,
         CommitFrame(commit) \/ CommitThrows(commit)
  PROVE  ~Closing' /\ ~detached'
  <1>1. Admissible(Submission(commit)) /\ ~IsShutdown(Submission(commit))
    BY SubmissionAdmissible, FrameIsNoShutdown DEF EngineInv, Backlog, Typed
  <1>2. Accepts(Submission(commit)) \/ Throws(Submission(commit))
    BY DEF CommitFrame, CommitThrows
  <1>3. QED
    BY <1>1, <1>2, Accepting, Throwing

\* The main thread: while a message can still be posted, nothing is closing.
LEMMA MainKeepsLife ==
  ASSUME EngineInv, LifeInv, Main
  PROVE  LifeInv'
  <1> USE DEF LifeInv
  <1>1. ASSUME NEW kind \in {"frame", "resize", "request"}, Post(kind)
        PROVE  LifeInv'
    <2>1. /\ main = "open" /\ toWorker' = Append(toWorker, kind)
          /\ main' = main /\ UNCHANGED <<toMain, chain, raw, log, detached>>
      BY <1>1 DEF Post, engineVars, historyVars
    <2>2. /\ toWorker \in Seq(ToWorker) /\ kind \in ToWorker
          /\ kind # "init" /\ kind # "detach"
      BY <1>1 DEF Channels, ToWorker
    <2>3. /\ toWorker' \in Seq(ToWorker)
          /\ \A k \in 1..Len(toWorker') :
               \/ k \in 1..Len(toWorker) /\ toWorker'[k] = toWorker[k]
               \/ toWorker'[k] = kind
      BY <2>1, <2>2
    <2>4. ~Closing /\ ~Answered /\ ~detached
      BY <2>1 DEF ClosingInv, AnsweredInv
    <2>5. ~Closing' /\ ~Answered' /\ ~detached'
      BY <2>1, <2>4 DEF Closing, Answered
    <2>6. ChannelInv'
      BY <2>1, <2>2, <2>3 DEF ChannelInv
    <2>7. ChainInv'
      BY <2>1, <2>2, <2>3, <2>4 DEF ChainInv
    <2>8. Channels'
      BY <2>1, <2>3 DEF Channels
    <2>9. QED
      BY <2>5, <2>6, <2>7, <2>8, QuietTurn
  <1>2. CASE Detach
    <2>1. /\ main = "open" /\ toWorker' = Append(toWorker, "detach")
          /\ main' = "detaching" /\ UNCHANGED <<toMain, chain, raw, log, detached>>
      BY <1>2 DEF Detach, engineVars, historyVars
    <2>2. toWorker \in Seq(ToWorker) /\ "detach" \in ToWorker
      BY DEF Channels, ToWorker
    <2>3. /\ toWorker' \in Seq(ToWorker)
          /\ \A k \in 1..Len(toWorker') :
               \/ k \in 1..Len(toWorker) /\ toWorker'[k] = toWorker[k]
               \/ toWorker'[k] = "detach" /\ k = Len(toWorker')
      BY <2>1, <2>2
    <2>4. ~Closing /\ ~Answered /\ ~detached
      BY <2>1 DEF ClosingInv, AnsweredInv
    <2>5. ~Closing' /\ ~Answered' /\ ~detached'
      BY <2>1, <2>4 DEF Closing, Answered
    <2>6. ChannelInv'
      BY <2>1, <2>3 DEF ChannelInv
    <2>7. ChainInv'
      BY <2>1, <2>3, <2>4 DEF ChainInv
    <2>8. Channels'
      BY <2>1, <2>3 DEF Channels
    <2>9. QED
      BY <2>5, <2>6, <2>7, <2>8, QuietTurn
  <1>3. CASE DetachTimeout
    BY <1>3
    DEF DetachTimeout, engineVars, historyVars, Channels, ChannelInv, ChainInv,
        ClosingInv, AnsweredInv, Closing, Answered
  <1>4. CASE MainReceives
    <2>1. /\ toMain # <<>> /\ toMain' = Tail(toMain)
          /\ main # "open" => main' # "open"
          /\ UNCHANGED <<toWorker, chain, raw, log, detached, pipeline,
                         completionActive, continuation>>
      BY <1>4 DEF MainReceives, engineVars, historyVars
    <2>2. /\ toMain' \in Seq(ToMain)
          /\ \A k \in 1..Len(toMain') : k + 1 \in 1..Len(toMain)
                                        /\ toMain'[k] = toMain[k + 1]
      BY <2>1 DEF Channels
    <2>3. Answered' => Answered
      BY <2>2 DEF Answered
    <2>4. Closing' <=> Closing
      BY <2>1 DEF Closing
    <2>5. QED
      BY <2>1, <2>2, <2>3, <2>4
      DEF Channels, ChannelInv, ChainInv, ClosingInv, AnsweredInv
  <1>5. QED
    BY <1>1, <1>2, <1>3, <1>4 DEF Main, PostFrame, PostResize, PostRequest

\* A message that finds the chain free, finds nothing closing and nothing
\* answered.
LEMMA MessageIsEarly ==
  ASSUME LifeInv, NEW kind, Handles(kind)
  PROVE  /\ ~Closing /\ ~Answered /\ ~detached
         /\ ~raw => log = <<>>
  BY Taking DEF LifeInv, ClosingInv, AnsweredInv, ChainInv

\* Handling a message of a running engine other than detach.
LEMMA WorkKeepsLife ==
  ASSUME EngineInv, LifeInv, raw, HandleFrame \/ HandleResize \/ HandleRequest
  PROVE  LifeInv'
  <1> USE DEF LifeInv
  <1>1. PICK kind : Handles(kind)
    BY DEF HandleFrame, HandleResize, HandleRequest
  <1>2. /\ ~Closing /\ ~Answered /\ ~detached /\ chain = "idle"
        /\ ChannelInv' /\ toWorker' \in Seq(ToWorker)
    BY <1>1, MessageIsEarly, Taking, TakingKeepsChannel
  <1>3. chain' = chain /\ raw' = raw
    BY DEF HandleFrame, HandleResize, HandleRequest, engineVars
  <1>4. toMain' = toMain \/ \E a \in {"runtime-failure", "reply"} : PostToMain(a)
    BY DEF HandleFrame, HandleResize, HandleRequest
  <1>5. toMain' \in Seq(ToMain) /\ ~Answered'
    <2>1. CASE toMain' = toMain
      BY <1>2, <2>1 DEF Channels, Answered
    <2>2. CASE \E a \in {"runtime-failure", "reply"} : PostToMain(a)
      <3>1. PICK a \in {"runtime-failure", "reply"} : PostToMain(a)
        BY <2>2
      <3>2. a \in ToMain /\ a # "detached"
        BY DEF ToMain
      <3>3. QED
        BY <1>2, <3>1, <3>2, Answering
    <2>3. QED
      BY <1>4, <2>1, <2>2
  <1>6. ~Closing' /\ ~detached'
    <2>1. CASE HandleFrame
      BY <1>2, <2>1, Committing DEF HandleFrame
    <2>2. CASE HandleResize
      <3>1. Accepts(Lifecycle("Resize")) \/ Throws(Lifecycle("Resize"))
        BY <2>2 DEF HandleResize
      <3>2. Admissible(Lifecycle("Resize")) /\ ~IsShutdown(Lifecycle("Resize"))
        BY BarrierAdmissible
      <3>3. QED
        BY <1>2, <3>1, <3>2, Accepting, Throwing
    <2>3. CASE HandleRequest
      BY <1>2, <2>3 DEF HandleRequest, engineVars, historyVars, Closing
    <2>4. QED
      BY <2>1, <2>2, <2>3
  <1>7. ChainInv'
    BY <1>2, <1>3 DEF ChainInv
  <1>8. QED
    BY <1>2, <1>5, <1>6, <1>7, QuietTurn DEF Channels

\* Handling detach: the barrier is admitted, or the call throws.
LEMMA DetachKeepsLife ==
  ASSUME EngineInv, LifeInv, HandleDetach
  PROVE  LifeInv'
  <1> USE DEF LifeInv
  <1> DEFINE c == Lifecycle("Shutdown")
  <1>1. raw /\ raw' = raw /\ Handles("detach") /\ continuation' = FALSE
    BY DEF HandleDetach, CancelContinuation
  <1>2. /\ ~Closing /\ ~Answered /\ ~detached /\ chain = "idle"
        /\ ChannelInv' /\ toWorker' = <<>> /\ main' # "open"
        /\ toWorker' \in Seq(ToWorker)
    BY <1>1, MessageIsEarly, Taking, TakingKeepsChannel
  <1>3. Admissible(c) /\ IsShutdown(c)
    BY BarrierAdmissible
  <1>4. CASE Accepts(c) /\ WaitForShutdown /\ UNCHANGED toMain
    <2>1. /\ Closing' /\ LastOnly(log')
          /\ detached' => Closing' /\ pipeline'.pending = <<>>
      BY <1>2, <1>3, <1>4, Accepting
    <2>2. /\ chain' \in {"detaching", "released"}
          /\ chain' = "released" => detached' /\ ~completionActive'
      BY <1>4 DEF WaitForShutdown
    <2>3. ~Answered' /\ toMain' \in Seq(ToMain)
      BY <1>2, <1>4 DEF Answered, Channels
    <2>4. ClosingInv'
      BY <1>1, <1>2, <2>1, <2>2 DEF ClosingInv, LastOnly
    <2>5. ChainInv'
      BY <1>1, <2>1, <2>2 DEF ChainInv
    <2>6. QED
      BY <1>2, <2>3, <2>4, <2>5 DEF Channels, AnsweredInv
  <1>5. CASE Throws(c) /\ PostToMain("runtime-failure") /\ UNCHANGED chain
    <2>1. ~Closing' /\ ~detached'
      BY <1>2, <1>3, <1>5, Throwing
    <2>2. "runtime-failure" \in ToMain /\ "runtime-failure" # "detached"
      BY DEF ToMain
    <2>3. ~Answered' /\ toMain' \in Seq(ToMain)
      BY <1>2, <1>5, <2>2, Answering
    <2>4. ChainInv'
      BY <1>1, <1>2, <1>5 DEF ChainInv
    <2>5. QED
      BY <1>2, <2>1, <2>3, <2>4, QuietTurn DEF Channels
  <1>6. QED
    BY <1>4, <1>5 DEF HandleDetach

\* The engine boots, or is asked for before it has.
LEMMA BootKeepsLife ==
  ASSUME EngineInv, LifeInv,
         HandleWithoutEngine \/ HandleInit \/ BootSucceeds \/ BootFails
           \/ HandleDetachWithoutEngine
  PROVE  LifeInv'
  <1> USE DEF LifeInv
  <1>1. UNCHANGED <<detached, log>> /\ (~BootSucceeds => UNCHANGED raw)
    BY DEF HandleWithoutEngine, HandleInit, BootSucceeds, BootFails,
           HandleDetachWithoutEngine, engineVars, historyVars
  <1>2. CASE HandleWithoutEngine \/ HandleDetachWithoutEngine
    <2>1. PICK kind : Handles(kind)
      BY <1>2 DEF HandleWithoutEngine, HandleDetachWithoutEngine
    <2>2. /\ ~Closing /\ ~Answered /\ ~detached /\ chain = "idle" /\ chain' = "idle"
          /\ ~raw /\ ~raw' /\ log = <<>>
          /\ ChannelInv' /\ toWorker' \in Seq(ToWorker)
      BY <1>2, <2>1, MessageIsEarly, Taking, TakingKeepsChannel
      DEF HandleWithoutEngine, HandleDetachWithoutEngine, engineVars
    <2>3. ~Closing' /\ ~detached' /\ ChainInv'
      BY <1>1, <2>2 DEF ChainInv, Closing
    <2>4. CASE HandleWithoutEngine
      <3>1. "runtime-failure" \in ToMain /\ "runtime-failure" # "detached"
        BY DEF ToMain
      <3>2. ~Answered' /\ toMain' \in Seq(ToMain)
        BY <2>2, <2>4, <3>1, Answering DEF HandleWithoutEngine
      <3>3. QED
        BY <2>2, <2>3, <3>2, QuietTurn DEF Channels
    <2>5. CASE HandleDetachWithoutEngine
      <3>1. "detached" \in ToMain
        BY DEF ToMain
      <3>2. toMain' \in Seq(ToMain)
        BY <2>5, <3>1, Answering DEF HandleDetachWithoutEngine
      <3>3. toWorker' = <<>> /\ main' # "open"
        BY <2>5, TakingKeepsChannel DEF HandleDetachWithoutEngine
      <3>4. AnsweredInv'
        BY <1>1, <2>2, <3>3 DEF AnsweredInv
      <3>5. QED
        BY <2>2, <2>3, <3>2, <3>4 DEF Channels, ClosingInv
    <2>6. QED
      BY <1>2, <2>4, <2>5
  <1>3. CASE HandleInit
    <2>1. Handles("init") /\ chain' = "booting" /\ UNCHANGED toMain
      BY <1>3 DEF HandleInit
    <2>2. /\ ~Closing /\ ~Answered /\ ~detached /\ ~raw /\ log = <<>>
          /\ ChannelInv' /\ toWorker' \in Seq(ToWorker)
          /\ \A k \in 1..Len(toWorker') : toWorker'[k] # "init"
      BY <2>1, MessageIsEarly, Taking, TakingKeepsChannel DEF ChannelInv
    <2>3. ~raw' /\ log' = <<>>
      BY <1>1, <1>3, <2>2 DEF HandleInit, engineVars
    <2>4. ChainInv'
      BY <2>1, <2>2, <2>3 DEF ChainInv
    <2>5. ~Closing' /\ ~detached' /\ ~Answered'
      BY <1>1, <2>1, <2>2 DEF Closing, Answered
    <2>6. QED
      BY <2>1, <2>2, <2>4, <2>5, QuietTurn DEF Channels
  <1>4. CASE BootSucceeds \/ BootFails
    <2>1. /\ chain = "booting" /\ chain' = "idle" /\ toWorker' = toWorker
          /\ main' = main
          /\ \E a \in {"ready", "boot-failure"} : PostToMain(a)
      BY <1>4 DEF BootSucceeds, BootFails, mainVars
    <2>2. /\ ~raw /\ log = <<>> /\ ~Answered
          /\ \A k \in 1..Len(toWorker) : toWorker[k] # "init"
      BY <2>1 DEF ChainInv, AnsweredInv
    <2>3. ~Closing /\ ~detached
      BY <2>2 DEF Closing, ClosingInv
    <2>4. PICK a \in {"ready", "boot-failure"} : PostToMain(a)
      BY <2>1
    <2>5. a \in ToMain /\ a # "detached"
      BY DEF ToMain
    <2>6. toMain' \in Seq(ToMain) /\ ~Answered'
      BY <2>2, <2>4, <2>5, Answering
    <2>7. ~Closing' /\ ~detached' /\ ChainInv'
      BY <1>1, <2>1, <2>2, <2>3 DEF Closing, ChainInv
    <2>8. ChannelInv'
      BY <2>1, <2>2 DEF ChannelInv
    <2>9. QED
      BY <2>1, <2>6, <2>7, <2>8, QuietTurn DEF Channels
  <1>5. QED
    BY <1>2, <1>3, <1>4

\* The waiter goes on: the engine was detached and its last completion settled.
LEMMA ReturnKeepsLife ==
  ASSUME EngineInv, LifeInv, DetachReturns
  PROVE  LifeInv'
  <1> USE DEF LifeInv
  <1>1. /\ chain = "released" /\ chain' = "idle" /\ raw' = FALSE
        /\ PostToMain("detached")
        /\ UNCHANGED <<main, toWorker, detached, pipeline, completionActive,
                       continuation, log>>
    BY DEF DetachReturns, mainVars, historyVars
  <1>2. /\ detached /\ ~completionActive /\ Closing /\ Closing'
        /\ toWorker = <<>> /\ main # "open"
    BY <1>1 DEF ChainInv, ClosingInv, Closing
  <1>3. "detached" \in ToMain
    BY DEF ToMain
  <1>4. toMain' \in Seq(ToMain)
    BY <1>1, <1>3, Answering
  <1>5. ClosingInv' /\ AnsweredInv'
    BY <1>1, <1>2 DEF ClosingInv, AnsweredInv
  <1>6. ChannelInv' /\ ChainInv'
    BY <1>1, <1>2 DEF ChannelInv, ChainInv
  <1>7. QED
    BY <1>1, <1>4, <1>5, <1>6 DEF Channels

\* A completion settles: it may start the barrier, and it may release the
\* waiter.
LEMMA SettleKeepsLife ==
  ASSUME EngineInv, LifeInv, Settle
  PROVE  LifeInv'
  <1> USE DEF LifeInv
  <1>1. /\ raw /\ raw' = raw /\ completionActive /\ ResolveDetached
        /\ UNCHANGED <<main, toWorker, toMain, log>>
        /\ ~continuation => ~continuation'
    <2>1. CASE CompletionResolves
      BY <2>1 DEF CompletionResolves, mainVars
    <2>2. CASE CompletionRejects
      BY <2>2 DEF CompletionRejects, mainVars, CancelContinuation
    <2>3. QED
      BY <2>1, <2>2 DEF Settle
  <1>2. ~Answered /\ ~Answered' /\ chain # "released"
    BY <1>1 DEF AnsweredInv, ChainInv, Answered
  <1>3. /\ chain' = "released" => chain = "detaching" /\ detached' /\ ~completionActive'
        /\ chain' # "released" => chain' = chain
    BY <1>1, <1>2 DEF ResolveDetached
  <1>4. (Closing' <=> Closing) /\ (Closing => LastOnly(log) /\ LastOnly(log'))
    BY <1>1 DEF Closing, ClosingInv, LastOnly
  <1>5. detached' => Closing' /\ pipeline'.pending = <<>>
    <2>1. pipeline \in Pipeline
      BY DEF EngineInv, Backlog, Typed
    <2>2. CASE Drive(CompleteActive(pipeline), spans, FALSE)
      <3>1. /\ Backlog(CompleteActive(pipeline), spans, log')
            /\ CompleteActive(pipeline).pending = pipeline.pending
        BY <1>1, Completed
      <3>2. LastOnly(log')
        BY <1>4 DEF Closing, LastOnly
      <3>3. detached => Closing' /\ CompleteActive(pipeline).pending = <<>>
        BY <1>4, <3>1 DEF ClosingInv
      <3>4. QED
        BY <2>2, <3>1, <3>2, <3>3, DriveDetaches
    <2>3. CASE PresentThrows(CompleteActive(pipeline), FALSE)
      <3>1. /\ pipeline' = Fail(StartNext(CompleteActive(pipeline)))
            /\ detached' = detached /\ CanStart(CompleteActive(pipeline))
        BY <2>3 DEF PresentThrows
      <3>2. StartNext(CompleteActive(pipeline)) \in Pipeline
        BY <2>1, <3>1, CompleteActiveType, StartNextType
      <3>3. pipeline'.pending = <<>>
        BY <3>1, <3>2 DEF Fail, Pipeline
      <3>4. QED
        BY <1>4, <3>1, <3>3 DEF ClosingInv
    <2>4. CASE CompletionRejects
      <3>1. pipeline' = Fail(pipeline) /\ detached' = detached
        BY <2>4 DEF CompletionRejects
      <3>2. pipeline'.pending = <<>>
        BY <2>1, <3>1 DEF Fail, Pipeline
      <3>3. QED
        BY <1>4, <3>1, <3>2 DEF ClosingInv
    <2>5. QED
      BY <2>2, <2>3, <2>4 DEF Settle, CompletionResolves
  <1>6. ClosingInv'
    BY <1>1, <1>3, <1>4, <1>5 DEF ClosingInv, LastOnly
  <1>7. ChannelInv' /\ ChainInv'
    BY <1>1, <1>3, <1>4 DEF ChannelInv, ChainInv
  <1>8. QED
    BY <1>1, <1>2, <1>6, <1>7 DEF Channels, AnsweredInv

\* The callback runs: it was not cancelled, so nothing is closing.
LEMMA ContinuationKeepsLife ==
  ASSUME EngineInv, LifeInv, ContinuationFires
  PROVE  LifeInv'
  <1> USE DEF LifeInv
  <1>1. /\ continuation /\ UNCHANGED <<main, toWorker, toMain, chain, raw>>
    BY DEF ContinuationFires, mainVars
  <1>2. ~Closing /\ ~detached
    BY <1>1 DEF ClosingInv
  <1>3. CASE raw
    <2>1. PICK commit \in Commit : CommitFrame(commit) \/ CommitThrows(commit)
      BY <1>3 DEF ContinuationFires
    <2>2. ~Closing' /\ ~detached'
      BY <1>2, <2>1, Committing
    <2>3. ~Answered'
      BY <1>1, <1>3 DEF AnsweredInv, Answered
    <2>4. ChannelInv' /\ ChainInv'
      BY <1>1, <1>2, <1>3 DEF ChannelInv, ChainInv
    <2>5. QED
      BY <1>1, <2>2, <2>3, <2>4, QuietTurn DEF Channels
  <1>4. CASE ~raw
    <2>1. UNCHANGED <<detached, pipeline, completionActive, log>>
      BY <1>4 DEF ContinuationFires, historyVars
    <2>2. (Closing' <=> Closing) /\ (Answered' <=> Answered)
      BY <1>1, <2>1 DEF Closing, Answered
    <2>3. QED
      BY <1>1, <1>2, <2>1, <2>2
      DEF Channels, ChannelInv, ChainInv, ClosingInv, AnsweredInv
  <1>5. QED
    BY <1>3, <1>4

LEMMA StepLifeInv == EngineInv /\ LifeInv /\ [Next]_vars => LifeInv'
  <1> SUFFICES ASSUME EngineInv, LifeInv, [Next]_vars
               PROVE  LifeInv'
    OBVIOUS
  <1>1. CASE HandleFrame \/ HandleResize \/ HandleRequest
    <2>1. raw
      BY <1>1 DEF HandleFrame, HandleResize, HandleRequest
    <2>2. QED
      BY <1>1, <2>1, WorkKeepsLife
  <1>2. CASE UNCHANGED vars
    BY <1>2 DEF vars, mainVars, engineVars, historyVars, LifeInv, Channels,
                ChannelInv, ChainInv, ClosingInv, AnsweredInv, Closing, Answered
  <1>3. QED
    BY <1>1, <1>2, MainKeepsLife, DetachKeepsLife, BootKeepsLife, ReturnKeepsLife,
       SettleKeepsLife, ContinuationKeepsLife
    DEF Next, Dispatch

LEMMA LifeCorrect == Spec => [](EngineInv /\ LifeInv)
  BY InitEngineInv, StepEngineInv, InitLifeInv, StepLifeInv, PTL DEF Spec

\* The Shutdown barrier closes the hand-off: nothing is accepted behind it, the
\* continuation callback is cancelled, and detached is only answered once all
\* that was accepted has been executed; for any number of messages, whatever is
\* in flight and wherever the renderer fails.
THEOREM ShutdownCloses == Spec => []ShutdownIsLast
  <1>1. EngineInv /\ LifeInv => ShutdownIsLast
    <2> SUFFICES ASSUME LifeInv PROVE ShutdownIsLast
      OBVIOUS
    <2>1. \A k \in 1..Len(log) : IsShutdown(log[k]) => k = Len(log) /\ ~continuation
      BY DEF LifeInv, ClosingInv, Closing
    <2>2. Answered => log = <<>> \/ (detached /\ pipeline.pending = <<>> /\ ~completionActive)
      BY DEF LifeInv, AnsweredInv, ClosingInv
    <2>3. QED
      BY <2>1, <2>2 DEF ShutdownIsLast, Answered
  <1>2. QED
    BY <1>1, LifeCorrect, PTL

-----------------------------------------------------------------------------
(* The Worker's own clock. *)

\* What a step does to the log and to the callback: nothing, unless it fails
\* the pipeline, commits a frame, or admits a barrier.
LEMMA ClockSteps ==
  ASSUME EngineInv, LifeInv, [Next]_vars
  PROVE  \/ /\ UNCHANGED <<log, continuation>>
            /\ ~pipeline'.failure => ~pipeline.failure
         \/ pipeline'.failure
         \/ \E commit \in Commit :
              log' = Append(log, Submission(commit)) /\ continuation' = commit.work
         \/ /\ log' = Append(log, Lifecycle("Resize")) /\ continuation' = continuation
            /\ ~pipeline.failure /\ ~Closing
         \/ log' = Append(log, Lifecycle("Shutdown"))
         \/ log' = <<>>
  <1> USE DEF LifeInv
  <1>0. pipeline \in Pipeline /\ log \in Seq(PipelineCommand)
    BY DEF EngineInv, Backlog, Typed
  <1>1. ASSUME NEW c, Admissible(c), Throws(c)
        PROVE  pipeline'.failure
    <2>1. CASE AcceptsAndThrows(c)
      BY <1>1, <2>1, Admitted, ThrowKeepsEngine DEF AcceptsAndThrows
    <2>2. CASE RefusesAndThrows(c)
      BY <1>0, <2>2 DEF RefusesAndThrows, Admit, Reject, Pipeline
    <2>3. QED
      BY <1>1, <2>1, <2>2 DEF Throws
  <1>2. ASSUME NEW commit \in Commit, ~detached,
               CommitFrame(commit) \/ CommitThrows(commit)
        PROVE  \/ pipeline'.failure
               \/ log' = Append(log, Submission(commit)) /\ continuation' = commit.work
    BY <1>0, <1>1, <1>2, SubmissionAdmissible
    DEF CommitFrame, CommitThrows, Accepts, UpdateContinuation
  <1>3. CASE HandleFrame
    BY <1>2, <1>3, MessageIsEarly DEF HandleFrame
  <1>4. CASE HandleResize
    <2>1. ~Closing
      BY <1>4, MessageIsEarly DEF HandleResize
    <2>2. CASE Throws(Lifecycle("Resize"))
      BY <1>1, <2>2, BarrierAdmissible
    <2>3. CASE Accepts(Lifecycle("Resize"))
      BY <1>4, <2>1, <2>3 DEF HandleResize, Accepts
    <2>4. QED
      BY <1>4, <2>2, <2>3 DEF HandleResize
  <1>5. CASE HandleDetach
    BY <1>1, <1>5, BarrierAdmissible DEF HandleDetach, Accepts
  <1>6. CASE CompletionResolves
    <2>1. ~pipeline.failure /\ completionActive /\ UNCHANGED <<log, continuation>>
      BY <1>6 DEF CompletionResolves, EngineInv
    <2>2. QED
      BY <2>1
  <1>7. CASE CompletionRejects
    BY <1>0, <1>7 DEF CompletionRejects, Fail, Pipeline
  <1>8. CASE ContinuationFires
    <2>1. ~Closing /\ ~detached
      BY <1>8 DEF ContinuationFires, ClosingInv
    <2>2. CASE raw
      <3>1. PICK commit \in Commit : CommitFrame(commit) \/ CommitThrows(commit)
        BY <1>8, <2>2 DEF ContinuationFires
      <3>2. QED
        BY <1>2, <2>1, <3>1
    <2>3. CASE ~raw
      <3>1. log = <<>> /\ log' = log
        BY <1>8, <2>1, <2>3 DEF ContinuationFires, ChainInv, historyVars
      <3>2. QED
        BY <3>1
    <2>4. QED
      BY <2>2, <2>3
  <1>9. CASE UNCHANGED <<pipeline, continuation, historyVars>>
    BY <1>9 DEF historyVars
  <1>10. QED
    BY <1>3, <1>4, <1>5, <1>6, <1>7, <1>8, <1>9
    DEF Next, Main, Dispatch, Settle, vars, engineVars, PostFrame, PostResize,
        PostRequest, Post, Detach, DetachTimeout, MainReceives,
        HandleWithoutEngine, HandleInit, BootSucceeds, BootFails, HandleRequest,
        HandleDetachWithoutEngine, DetachReturns

FramesOf(s) == {k \in 1..Len(s) : IsFrame(s[k])}

NewestLeavesWork(s) ==
  \E k \in FramesOf(s) : s[k].frame.work /\ \A j \in FramesOf(s) : j <= k

\* A frame that is appended is the newest.
LEMMA NewestFrame ==
  ASSUME NEW s \in Seq(PipelineCommand), NEW c \in PipelineCommand, IsFrame(c)
  PROVE  NewestLeavesWork(Append(s, c)) <=> c.frame.work
  <1> DEFINE t == Append(s, c)
             n == Len(s) + 1
  <1>1. /\ n \in FramesOf(t) /\ t[n] = c
        /\ \A j \in FramesOf(t) : j \in Nat /\ j <= n
    BY DEF FramesOf
  <1>2. \A k \in FramesOf(t) : (\A j \in FramesOf(t) : j <= k) <=> k = n
    <2>1. n \in Nat
      OBVIOUS
    <2> HIDE DEF n, t
    <2>2. QED
      BY <1>1, <2>1
  <1> HIDE DEF n, t
  <1>3. NewestLeavesWork(t) <=> c.frame.work
    BY <1>1, <1>2 DEF NewestLeavesWork
  <1>4. QED
    BY <1>3 DEF t

\* A barrier that is appended changes nothing about the frames.
LEMMA SameFrames ==
  ASSUME NEW s \in Seq(PipelineCommand), NEW c, ~IsFrame(c)
  PROVE  /\ FramesOf(Append(s, c)) = FramesOf(s)
         /\ NewestLeavesWork(Append(s, c)) <=> NewestLeavesWork(s)
  <1>1. FramesOf(Append(s, c)) = FramesOf(s)
    <2>1. /\ Len(Append(s, c)) = Len(s) + 1 /\ Append(s, c)[Len(s) + 1] = c
          /\ \A k \in 1..Len(s) : Append(s, c)[k] = s[k]
          /\ \A k \in 1..Len(s) + 1 : k \in 1..Len(s) \/ k = Len(s) + 1
          /\ \A k \in 1..Len(s) : k \in 1..Len(s) + 1
      OBVIOUS
    <2>2. QED
      BY <2>1 DEF FramesOf
  <1>2. \A k \in FramesOf(s) : Append(s, c)[k] = s[k]
    BY DEF FramesOf
  <1>3. QED
    BY <1>1, <1>2 DEF NewestLeavesWork

LEMMA ContinuesMeaning ==
  ContinuesWhileWorkRemains <=>
    (FramesOf(log) # {} /\ ~pipeline.failure /\ ~IsShutdown(log[Len(log)])
       => (continuation <=> NewestLeavesWork(log)))
  BY DEF ContinuesWhileWorkRemains, FramesOf, NewestLeavesWork

LEMMA StepContinues ==
  ASSUME EngineInv, LifeInv, ContinuesWhileWorkRemains, [Next]_vars
  PROVE  ContinuesWhileWorkRemains'
  <1>0. log \in Seq(PipelineCommand)
    BY DEF EngineInv, Backlog, Typed
  <1>1. CASE UNCHANGED <<log, continuation>> /\ (~pipeline'.failure => ~pipeline.failure)
    BY <1>1 DEF ContinuesWhileWorkRemains
  <1>2. CASE pipeline'.failure
    BY <1>2 DEF ContinuesWhileWorkRemains
  <1>3. ASSUME NEW commit \in Commit, log' = Append(log, Submission(commit)),
               continuation' = commit.work
        PROVE  ContinuesWhileWorkRemains'
    <2>1. Submission(commit) \in PipelineCommand /\ IsFrame(Submission(commit))
      BY <1>0, SubmissionAdmissible DEF Admissible
    <2>2. Submission(commit).frame.work = commit.work
      BY DEF Submission, Frame, FromCommittedFrame
    <2>3. NewestLeavesWork(Append(log, Submission(commit))) <=> commit.work
      BY <1>0, <2>1, <2>2, NewestFrame
    <2>4. continuation' <=> NewestLeavesWork(log')
      BY <1>3, <2>3
    <2>5. QED
      BY <2>4 DEF ContinuesWhileWorkRemains, FramesOf, NewestLeavesWork
  <1>4. CASE /\ log' = Append(log, Lifecycle("Resize")) /\ continuation' = continuation
             /\ ~pipeline.failure /\ ~Closing
    <2>1. ~IsFrame(Lifecycle("Resize"))
      BY BarrierAdmissible
    <2>2. /\ FramesOf(log') = FramesOf(log)
          /\ NewestLeavesWork(log') <=> NewestLeavesWork(log)
      BY <1>0, <1>4, <2>1, SameFrames
    <2>3. FramesOf(log) # {} => ~IsShutdown(log[Len(log)])
      BY <1>0, <1>4 DEF FramesOf, Closing
    <2>4. FramesOf(log') # {} => (continuation' <=> NewestLeavesWork(log'))
      BY <1>4, <2>2, <2>3, ContinuesMeaning
    <2>5. QED
      BY <2>4 DEF ContinuesWhileWorkRemains, FramesOf, NewestLeavesWork
  <1>5. CASE log' = Append(log, Lifecycle("Shutdown"))
    <2>1. log'[Len(log')] = Lifecycle("Shutdown")
      BY <1>0, <1>5
    <2>2. QED
      BY <2>1, BarrierAdmissible DEF ContinuesWhileWorkRemains
  <1>6. CASE log' = <<>>
    BY <1>6 DEF ContinuesWhileWorkRemains
  <1>7. QED
    BY <1>1, <1>2, <1>3, <1>4, <1>5, <1>6, ClockSteps

\* The Worker goes on committing by itself exactly while the newest frame left
\* visual work, until the renderer fails or the barrier is admitted; whatever
\* messages, completions and callbacks interleave.
THEOREM WorkerContinues == Spec => []ContinuesWhileWorkRemains
  <1>1. Init => ContinuesWhileWorkRemains
    BY DEF Init, ContinuesWhileWorkRemains
  <1>2. EngineInv /\ LifeInv /\ ContinuesWhileWorkRemains /\ [Next]_vars
          => ContinuesWhileWorkRemains'
    BY StepContinues
  <1>3. QED
    BY <1>1, <1>2, LifeCorrect, PTL DEF Spec

-----------------------------------------------------------------------------
(* Types, and the requests main waits for. *)

\* How often x occurs in s.
Count(s, x) == Cardinality({k \in 1..Len(s) : s[k] = x})

LEMMA Counts ==
  ASSUME NEW S, NEW s \in Seq(S), NEW x
  PROVE  /\ IsFiniteSet({k \in 1..Len(s) : s[k] = x})
         /\ Count(s, x) \in Nat
  <1>1. IsFiniteSet(1..Len(s))
    BY FS_Interval
  <1>2. IsFiniteSet({k \in 1..Len(s) : s[k] = x})
    BY <1>1, FS_Subset
  <1>3. QED
    BY <1>2, FS_CardinalityType DEF Count

LEMMA CountAppend ==
  ASSUME NEW S, NEW s \in Seq(S), NEW y \in S, NEW x
  PROVE  Count(Append(s, y), x) = Count(s, x) + IF y = x THEN 1 ELSE 0
  <1> DEFINE t == Append(s, y)
             n == Len(s) + 1
             A == {k \in 1..Len(s) : s[k] = x}
             B == {k \in 1..Len(t) : t[k] = x}
  <1>1. /\ Len(t) = n /\ t[n] = y /\ n \in 1..n /\ n \notin 1..Len(s)
        /\ \A k \in 1..Len(s) : t[k] = s[k] /\ k \in 1..n
        /\ \A k \in 1..n : k \in 1..Len(s) \/ k = n
    OBVIOUS
  <1>2. IsFiniteSet(A) /\ Count(s, x) \in Nat
    BY Counts
  <1>3. CASE y = x
    <2>1. B = A \cup {n} /\ n \notin A
      BY <1>1, <1>3
    <2>2. Cardinality(B) = Cardinality(A) + 1
      BY <1>2, <2>1, FS_AddElement
    <2>3. QED
      BY <1>3, <2>2 DEF Count
  <1>4. CASE y # x
    <2>1. B = A
      BY <1>1, <1>4
    <2>2. Count(t, x) = Count(s, x)
      BY <2>1 DEF Count
    <2> HIDE DEF t
    <2>3. Count(t, x) = Count(s, x) + 0
      BY <1>2, <2>2
    <2>4. QED
      BY <1>4, <2>3 DEF t
  <1>5. QED
    BY <1>3, <1>4

LEMMA CountTail ==
  ASSUME NEW S, NEW s \in Seq(S), s # <<>>, NEW x
  PROVE  Count(s, x) = Count(Tail(s), x) + IF Head(s) = x THEN 1 ELSE 0
  <1> DEFINE t == Tail(s)
             A == {k \in 1..Len(t) : t[k] = x}
             B == {k \in 1..Len(s) : s[k] = x}
             C == B \ {1}
             f == [k \in A |-> k + 1]
  <1>1. /\ t \in Seq(S) /\ Len(s) \in Nat /\ Len(t) \in Nat
        /\ Len(s) = Len(t) + 1
        /\ \A k \in 1..Len(t) : t[k] = s[k + 1]
        /\ s[1] = Head(s)
    OBVIOUS
  <1>2. IsFiniteSet(A) /\ IsFiniteSet(B) /\ Count(t, x) \in Nat /\ Count(s, x) \in Nat
    BY <1>1, Counts
  <1>3. f \in Bijection(A, C)
    <2>1. \A k \in A : k \in Nat /\ k + 1 \in C
      BY <1>1
    <2>2. \A a, b \in A : a + 1 = b + 1 => a = b
      BY <2>1
    <2>3. \A j \in C : j - 1 \in A /\ (j - 1) + 1 = j
      BY <1>1
    <2> HIDE DEF A, C
    <2>4. f \in [A -> C] /\ \A k \in A : f[k] = k + 1
      BY <2>1
    <2>5. f \in Injection(A, C)
      BY <2>2, <2>4 DEF Injection, IsInjective
    <2>6. f \in Surjection(A, C)
      BY <2>3, <2>4 DEF Surjection
    <2>7. QED
      BY <2>5, <2>6 DEF Bijection
  <1>4. Cardinality(C) = Cardinality(A)
    BY <1>2, <1>3, FS_Bijection DEF ExistsBijection
  <1>5. Cardinality(C) = IF 1 \in B THEN Cardinality(B) - 1 ELSE Cardinality(B)
    BY <1>2, FS_RemoveElement
  <1>6. 1 \in B <=> Head(s) = x
    BY <1>1
  <1>7. Count(t, x) = Cardinality(A) /\ Count(s, x) = Cardinality(B)
    BY DEF Count
  <1> HIDE DEF t, A, B, C
  <1>8. Count(s, x) = Count(t, x) + IF Head(s) = x THEN 1 ELSE 0
    <2>1. CASE Head(s) = x
      <3>1. Count(t, x) = Count(s, x) - 1
        BY <1>4, <1>5, <1>6, <1>7, <2>1
      <3>2. Count(s, x) = Count(t, x) + 1
        BY <1>2, <3>1
      <3>3. QED
        BY <2>1, <3>2
    <2>2. CASE Head(s) # x
      <3>1. Count(s, x) = Count(t, x)
        BY <1>4, <1>5, <1>6, <1>7, <2>2
      <3>2. Count(s, x) = Count(t, x) + 0
        BY <1>2, <3>1
      <3>3. QED
        BY <2>2, <3>2
    <2>3. QED
      BY <2>1, <2>2
  <1>9. QED
    BY <1>8 DEF t

\* Main never gets an answer to a request it did not make.
Ledger ==
  /\ awaiting \in Nat
  /\ Count(toWorker, "request") + Count(toMain, "reply") <= awaiting

Asks ==
  /\ toWorker' = Append(toWorker, "request")
  /\ awaiting' = awaiting + 1
  /\ toMain' = toMain

Replies ==
  /\ toWorker # <<>>
  /\ Head(toWorker) = "request"
  /\ toWorker' = Tail(toWorker)
  /\ toMain' = Append(toMain, "reply")
  /\ awaiting' = awaiting

Settles ==
  /\ toMain # <<>>
  /\ toMain' = Tail(toMain)
  /\ awaiting' = Settled(Head(toMain))
  /\ toWorker' = toWorker

OtherMessages ==
  /\ \/ toWorker' = toWorker
     \/ toWorker # <<>> /\ toWorker' = Tail(toWorker)
     \/ \E kind \in ToWorker \ {"request"} : toWorker' = Append(toWorker, kind)
  /\ \/ toMain' = toMain
     \/ \E kind \in ToMain \ {"reply"} : toMain' = Append(toMain, kind)
  /\ awaiting' = awaiting

LEMMA RequestSteps == [Next]_vars => Asks \/ Replies \/ Settles \/ OtherMessages
  <1> SUFFICES ASSUME [Next]_vars
               PROVE  Asks \/ Replies \/ Settles \/ OtherMessages
    OBVIOUS
  <1>0. /\ {"frame", "resize", "detach"} \subseteq ToWorker \ {"request"}
        /\ {"ready", "boot-failure", "runtime-failure", "detached"}
             \subseteq ToMain \ {"reply"}
    BY DEF ToWorker, ToMain
  <1>1. CASE PostRequest
    BY <1>1 DEF PostRequest, Post, Asks
  <1>2. CASE PostFrame \/ PostResize \/ Detach \/ DetachTimeout
    BY <1>0, <1>2 DEF PostFrame, PostResize, Post, Detach, DetachTimeout, OtherMessages
  <1>3. CASE MainReceives
    BY <1>3 DEF MainReceives, Settles
  <1>4. CASE HandleRequest
    BY <1>4 DEF HandleRequest, Handles, PostToMain, mainVars, Replies
  <1>5. CASE HandleWithoutEngine \/ HandleInit \/ HandleDetachWithoutEngine
    BY <1>0, <1>5 DEF HandleWithoutEngine, HandleInit, HandleDetachWithoutEngine,
                      Handles, PostToMain, mainVars, OtherMessages
  <1>6. CASE HandleFrame \/ HandleResize \/ HandleDetach
    BY <1>0, <1>6 DEF HandleFrame, HandleResize, HandleDetach, Handles, PostToMain,
                      mainVars, OtherMessages
  <1>7. CASE BootSucceeds \/ BootFails \/ DetachReturns
    BY <1>0, <1>7 DEF BootSucceeds, BootFails, DetachReturns, PostToMain, mainVars,
                      OtherMessages
  <1>8. CASE Settle \/ ContinuationFires
    BY <1>8 DEF Settle, CompletionResolves, CompletionRejects, ContinuationFires,
                mainVars, OtherMessages
  <1>9. CASE UNCHANGED vars
    BY <1>9 DEF vars, mainVars, OtherMessages
  <1>10. QED
    BY <1>1, <1>2, <1>3, <1>4, <1>5, <1>6, <1>7, <1>8, <1>9
    DEF Next, Main, Dispatch

LEMMA StepLedger ==
  ASSUME Channels, Ledger, [Next]_vars
  PROVE  Ledger'
  <1> DEFINE R == Count(toWorker, "request")
             P == Count(toMain, "reply")
             R2 == Count(toWorker', "request")
             P2 == Count(toMain', "reply")
  <1>0. /\ toWorker \in Seq(ToWorker) /\ toMain \in Seq(ToMain)
        /\ R \in Nat /\ P \in Nat /\ awaiting \in Nat /\ R + P <= awaiting
        /\ "request" \in ToWorker /\ "reply" \in ToMain
    BY Counts DEF Channels, Ledger, ToWorker, ToMain
  <1>1. \A kind \in ToWorker :
          toWorker' = Append(toWorker, kind) =>
            R2 = R + IF kind = "request" THEN 1 ELSE 0
    BY <1>0, CountAppend
  <1>2. \A kind \in ToMain :
          toMain' = Append(toMain, kind) => P2 = P + IF kind = "reply" THEN 1 ELSE 0
    BY <1>0, CountAppend
  <1>3. toWorker # <<>> /\ toWorker' = Tail(toWorker) =>
          R = R2 + (IF Head(toWorker) = "request" THEN 1 ELSE 0) /\ R2 \in Nat
    <2>1. toWorker # <<>> => Tail(toWorker) \in Seq(ToWorker)
      BY <1>0
    <2>2. toWorker # <<>> => Count(Tail(toWorker), "request") \in Nat
      BY <2>1, Counts
    <2>3. QED
      BY <1>0, <2>2, CountTail
  <1>4. toMain # <<>> /\ toMain' = Tail(toMain) =>
          P = P2 + (IF Head(toMain) = "reply" THEN 1 ELSE 0) /\ P2 \in Nat
    <2>1. toMain # <<>> => Tail(toMain) \in Seq(ToMain)
      BY <1>0
    <2>2. toMain # <<>> => Count(Tail(toMain), "reply") \in Nat
      BY <2>1, Counts
    <2>3. QED
      BY <1>0, <2>2, CountTail
  <1>5. toWorker' = toWorker => R2 = R
    OBVIOUS
  <1>6. toMain' = toMain => P2 = P
    OBVIOUS
  <1> HIDE DEF R, P, R2, P2
  <1>7. awaiting' \in Nat /\ R2 + P2 <= awaiting'
    <2>1. CASE Asks
      <3>1. R2 = R + 1 /\ P2 = P /\ awaiting' = awaiting + 1
        BY <1>0, <1>1, <1>6, <2>1 DEF Asks
      <3>2. QED
        BY <1>0, <3>1
    <2>2. CASE Replies
      <3>1. R = R2 + 1 /\ R2 \in Nat /\ P2 = P + 1 /\ awaiting' = awaiting
        BY <1>0, <1>2, <1>3, <2>2 DEF Replies
      <3>2. QED
        BY <1>0, <3>1
    <2>3. CASE Settles
      <3>1. R2 = R /\ P2 \in Nat
        BY <1>4, <1>5, <2>3 DEF Settles
      <3>2. CASE Head(toMain) = "reply"
        <4>1. P = P2 + 1 /\ awaiting' = awaiting - 1
          BY <1>4, <2>3, <3>2 DEF Settles, Settled
        <4>2. QED
          BY <1>0, <3>1, <4>1
      <3>3. CASE Head(toMain) # "reply"
        <4>1. P = P2 + 0 /\ awaiting' = awaiting
          BY <1>4, <2>3, <3>3 DEF Settles, Settled
        <4>2. QED
          BY <1>0, <3>1, <4>1
      <3>4. QED
        BY <3>2, <3>3
    <2>4. CASE OtherMessages
      <3>1. R2 \in Nat /\ R2 <= R
        <4>1. CASE toWorker' = toWorker
          BY <1>0, <1>5, <4>1
        <4>2. CASE toWorker # <<>> /\ toWorker' = Tail(toWorker)
          BY <1>0, <1>3, <4>2
        <4>3. ASSUME NEW kind \in ToWorker \ {"request"}, toWorker' = Append(toWorker, kind)
              PROVE  R2 \in Nat /\ R2 <= R
          <5>1. R2 = R + 0
            BY <1>1, <4>3
          <5>2. QED
            BY <1>0, <5>1
        <4>4. QED
          BY <2>4, <4>1, <4>2, <4>3 DEF OtherMessages
      <3>2. P2 = P
        <4>1. ASSUME NEW kind \in ToMain \ {"reply"}, toMain' = Append(toMain, kind)
              PROVE  P2 = P
          <5>1. P2 = P + 0
            BY <1>2, <4>1
          <5>2. QED
            BY <1>0, <5>1
        <4>2. QED
          BY <1>6, <2>4, <4>1 DEF OtherMessages
      <3>3. awaiting' = awaiting
        BY <2>4 DEF OtherMessages
      <3>4. QED
        BY <1>0, <3>1, <3>2, <3>3
    <2>5. QED
      BY <2>1, <2>2, <2>3, <2>4, RequestSteps
  <1>8. QED
    BY <1>7 DEF Ledger, R2, P2

\* The variables that are neither the engine's books nor the channels.
Flags ==
  /\ main \in {"open", "detaching", "terminated"}
  /\ boot \in {"pending", "ready", "failed"}
  /\ posted \in Nat
  /\ chain \in ChainState
  /\ raw \in BOOLEAN
  /\ detached \in BOOLEAN
  /\ continuation \in BOOLEAN

LEMMA StepFlags ==
  ASSUME EngineInv, Flags, [Next]_vars
  PROVE  Flags'
  <1> USE DEF Flags
  <1>1. posted' \in Nat
    <2>1. posted' = posted \/ posted' = posted + 1
      BY DEF Next, Main, Dispatch, Settle, vars, mainVars, PostFrame, PostResize,
             PostRequest, Post, Detach, DetachTimeout, MainReceives, Handles,
             HandleWithoutEngine, HandleInit, BootSucceeds, BootFails, HandleFrame,
             HandleResize, HandleRequest, HandleDetachWithoutEngine, HandleDetach,
             DetachReturns, CompletionResolves, CompletionRejects, ContinuationFires
    <2>2. QED
      BY <2>1
  <1>2. /\ main' \in {main, "detaching", "terminated"}
        /\ boot' \in {boot, "ready", "failed"}
    <2>1. CASE Main
      BY <2>1 DEF Main, PostFrame, PostResize, PostRequest, Post, Detach,
                  DetachTimeout, MainReceives
    <2>2. CASE ~Main
      BY <2>2 DEF Next, Dispatch, Settle, vars, mainVars, Handles,
             HandleWithoutEngine, HandleInit, BootSucceeds, BootFails, HandleFrame,
             HandleResize, HandleRequest, HandleDetachWithoutEngine, HandleDetach,
             DetachReturns, CompletionResolves, CompletionRejects, ContinuationFires
    <2>3. QED
      BY <2>1, <2>2
  <1>3. chain' \in {chain, "idle", "booting", "detaching", "released"}
    BY DEF Next, Main, Dispatch, Settle, vars, PostFrame, PostResize,
           PostRequest, Post, Detach, DetachTimeout, MainReceives,
           HandleWithoutEngine, HandleInit, BootSucceeds, BootFails, HandleFrame,
           HandleResize, HandleRequest, HandleDetachWithoutEngine, HandleDetach,
           WaitForShutdown, DetachReturns, CompletionResolves, CompletionRejects,
           ResolveDetached, ContinuationFires
  <1>4. raw' = raw \/ raw' = TRUE \/ raw' = FALSE
    BY DEF Next, Main, Dispatch, Settle, vars, engineVars, PostFrame, PostResize,
           PostRequest, Post, Detach, DetachTimeout, MainReceives,
           HandleWithoutEngine, HandleInit, BootSucceeds, BootFails, HandleFrame,
           HandleResize, HandleRequest, HandleDetachWithoutEngine, HandleDetach,
           DetachReturns, CompletionResolves, CompletionRejects, ContinuationFires
  <1>5. detached' = detached \/ \E p : detached' = (detached \/ IsShutdown(Head(p.pending)))
    <2>1. EngineStep
      BY StepsOfEngine DEF EngineInv, Backlog, Typed
    <2>2. QED
      BY <2>1 DEF EngineStep, Accepts, Throws, AcceptsAndThrows, RefusesAndThrows,
                  Drive, NothingToStart, StartsNext, PresentThrows
  <1>6. continuation' \in BOOLEAN
    <2>1. ASSUME NEW commit \in Commit, CommitFrame(commit)
          PROVE  continuation' \in BOOLEAN
      <3>1. continuation' = commit.work
        BY <2>1 DEF CommitFrame, UpdateContinuation
      <3>2. commit.work \in BOOLEAN
        BY WorkerCommits
      <3>3. QED
        BY <3>1, <3>2, Zenon
    <2>2. CASE continuation' = FALSE
      BY <2>2, Zenon
    <2>3. CASE continuation' = continuation
      BY <2>3, Zenon
    <2>4. \/ \E commit \in Commit : CommitFrame(commit)
          \/ continuation' = FALSE
          \/ continuation' = continuation
      BY DEF Next, Main, Dispatch, Settle, vars, engineVars, PostFrame, PostResize,
             PostRequest, Post, Detach, DetachTimeout, MainReceives,
             HandleWithoutEngine, HandleInit, BootSucceeds, BootFails, HandleFrame,
             HandleResize, HandleRequest, HandleDetachWithoutEngine, HandleDetach,
             CancelContinuation, DetachReturns, CompletionResolves,
             CompletionRejects, ContinuationFires
    <2>5. QED
      BY <2>1, <2>2, <2>3, <2>4
  <1>7. main' \in {"open", "detaching", "terminated"} /\ boot' \in {"pending", "ready", "failed"}
    BY <1>2
  <1>8. chain' \in ChainState
    BY <1>3 DEF ChainState
  <1>9. raw' \in BOOLEAN
    BY <1>4, Zenon
  <1>10. detached' \in BOOLEAN
    BY <1>5, Zenon
  <1>11. QED
    BY <1>1, <1>6, <1>7, <1>8, <1>9, <1>10, Zenon

\* Every variable keeps its type; in particular the requests main waits for
\* never become fewer than none: a reply answers one request, and only one that
\* was made.
THEOREM WorkerTypes == Spec => []TypeOK
  <1>1. Init => Ledger /\ Flags
    <2> SUFFICES ASSUME Init PROVE Ledger /\ Flags
      OBVIOUS
    <2>1. Flags
      BY DEF Init, Flags, ChainState
    <2>2. /\ toWorker = <<"init">> /\ toMain = <<>> /\ awaiting = 0
      BY DEF Init
    <2>3. /\ {k \in 1..Len(toWorker) : toWorker[k] = "request"} = {}
          /\ {k \in 1..Len(toMain) : toMain[k] = "reply"} = {}
      BY <2>2
    <2>4. Cardinality({}) = 0
      BY FS_EmptySet
    <2>5. Count(toWorker, "request") = 0 /\ Count(toMain, "reply") = 0
      BY <2>3, <2>4, Zenon DEF Count
    <2>6. QED
      BY <2>1, <2>2, <2>5 DEF Ledger
  <1>2. EngineInv /\ LifeInv /\ Ledger /\ Flags /\ [Next]_vars => Ledger' /\ Flags'
    BY StepLedger, StepFlags DEF LifeInv
  <1>3. EngineInv /\ LifeInv /\ Ledger /\ Flags => TypeOK
    <2> SUFFICES ASSUME EngineInv, LifeInv, Ledger, Flags PROVE TypeOK
      OBVIOUS
    <2>1. /\ pipeline \in Pipeline /\ spans \in Seq([lo : Nat, hi : Nat])
          /\ log \in Seq(PipelineCommand)
      BY DEF EngineInv, Backlog, Typed, Interval
    <2>2. completionActive \in BOOLEAN
      <3>1. pipeline.active \in BOOLEAN
        BY <2>1 DEF Pipeline
      <3>2. QED
        BY <3>1, Zenon DEF EngineInv
    <2>3. message \in PipelineCommand \cup {Idle}
      BY DEF EngineInv
    <2>4. QED
      BY <2>1, <2>2, <2>3 DEF TypeOK, LifeInv, Channels, Ledger, Flags
  <1>4. QED
    BY <1>1, <1>2, <1>3, LifeCorrect, PTL DEF Spec

=============================================================================
