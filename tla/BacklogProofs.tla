----------------------------- MODULE BacklogProofs -----------------------------
(***************************************************************************)
(* What the frame pipeline does to its queue, whoever drives it: lemmas    *)
(* about the operators of FramePipeline that the proofs of both adapters   *)
(* rest on.  A queue is looked at together with the log of everything that *)
(* was accepted and the interval of the log each entry stands for; the     *)
(* adapters keep both as history.                                          *)
(***************************************************************************)
EXTENDS FramePipeline, TLAPS

-----------------------------------------------------------------------------
(* What the pipeline operators return. *)

\* Coalescing two submissions gives a submission.
LEMMA ReplaceWithLatestType ==
  ASSUME NEW older \in FrameSubmission, NEW latest \in FrameSubmission
  PROVE  ReplaceWithLatest(older, latest) \in FrameSubmission
  BY DEF ReplaceWithLatest, AbsorbChangesFrom, FrameSubmission, Changes, Fact

\* Freezing a commit gives a submission.
LEMMA FromCommittedFrameType ==
  ASSUME NEW scene \in Nat, NEW layers \in SUBSET Layer,
         NEW scroll \in SUBSET Layer, NEW changed \in Changes,
         NEW work \in BOOLEAN
  PROVE  FromCommittedFrame(scene, layers, scroll, changed, work)
           \in FrameSubmission
  BY DEF FromCommittedFrame, FrameSubmission, Changes, Fact

LEMMA NoFrameType == NoFrame \in FrameSubmission
  BY DEF NoFrame, FrameSubmission, Changes, Fact

\* The counters of a pipeline move by natural numbers.
LEMMA PipelineCounters ==
  ASSUME NEW p \in Pipeline
  PROVE  /\ p.accepted + 1 \in Nat
         /\ p.coalesced + 1 \in Nat
         /\ p.dropped + 1 \in Nat
         /\ p.dropped + Len(p.pending) \in Nat
  <1>1. /\ p.accepted \in Nat
        /\ p.coalesced \in Nat
        /\ p.dropped \in Nat
        /\ p.pending \in Seq(PipelineCommand)
    BY DEF Pipeline
  <1>2. QED
    BY <1>1

LEMMA MergeIntoBackType ==
  ASSUME NEW p \in Pipeline, NEW c \in PipelineCommand, Coalesces(p, c)
  PROVE  MergeIntoBack(p, c) \in Pipeline
  <1>1. /\ Len(p.pending) \in 1..Len(p.pending)
        /\ p.pending[Len(p.pending)] \in PipelineCommand
    BY DEF Coalesces, Pipeline
  <1> DEFINE back == p.pending[Len(p.pending)]
             merged == [back EXCEPT !.frame =
                          ReplaceWithLatest(back.frame, c.frame)]
             q == [p.pending EXCEPT ![Len(p.pending)] = merged]
             n == p.accepted + 1
             m == p.coalesced + 1
  <1>2. merged \in PipelineCommand
    BY <1>1, ReplaceWithLatestType DEF PipelineCommand
  <1>3. q \in Seq(PipelineCommand)
    BY <1>1, <1>2 DEF Pipeline
  <1>4. MergeIntoBack(p, c) =
          [p EXCEPT !.pending = q, !.accepted = n, !.coalesced = m]
    BY DEF MergeIntoBack, Pipeline
  <1>5. n \in Nat /\ m \in Nat
    BY PipelineCounters
  <1> HIDE DEF q, n, m
  <1>6. QED
    BY <1>3, <1>4, <1>5 DEF Pipeline

LEMMA PushBackType ==
  ASSUME NEW p \in Pipeline, NEW c \in PipelineCommand
  PROVE  PushBack(p, c) \in Pipeline
  <1> DEFINE q == Append(p.pending, c)
             n == p.accepted + 1
  <1>1. q \in Seq(PipelineCommand) /\ n \in Nat
    BY PipelineCounters DEF Pipeline
  <1>2. PushBack(p, c) = [p EXCEPT !.pending = q, !.accepted = n]
    BY DEF PushBack
  <1> HIDE DEF q, n
  <1>3. QED
    BY <1>1, <1>2 DEF Pipeline

LEMMA RejectType ==
  ASSUME NEW p \in Pipeline
  PROVE  Reject(p) \in Pipeline
  <1> DEFINE n == p.dropped + 1
  <1>1. n \in Nat
    BY PipelineCounters
  <1>2. Reject(p) = [p EXCEPT !.dropped = n]
    BY DEF Reject
  <1> HIDE DEF n
  <1>3. QED
    BY <1>1, <1>2 DEF Pipeline

\* Admission keeps a pipeline a pipeline, whichever branch is taken.
LEMMA AdmitType ==
  ASSUME NEW p \in Pipeline, NEW c \in PipelineCommand
  PROVE  Admit(p, c) \in Pipeline
  BY MergeIntoBackType, PushBackType, RejectType DEF Admit

LEMMA StartNextType ==
  ASSUME NEW p \in Pipeline, CanStart(p)
  PROVE  /\ StartNext(p) \in Pipeline
         /\ Head(p.pending) \in PipelineCommand
  <1> DEFINE q == Tail(p.pending)
  <1>1. p.pending \in Seq(PipelineCommand) /\ p.pending # <<>>
    BY DEF Pipeline, CanStart
  <1>2. q \in Seq(PipelineCommand) /\ Head(p.pending) \in PipelineCommand
    BY <1>1
  <1>3. StartNext(p) = [p EXCEPT !.pending = q, !.active = TRUE]
    BY DEF StartNext
  <1> HIDE DEF q
  <1>4. QED
    BY <1>2, <1>3 DEF Pipeline

LEMMA CompleteActiveType ==
  ASSUME NEW p \in Pipeline
  PROVE  CompleteActive(p) \in Pipeline
  BY DEF CompleteActive, Pipeline

LEMMA FailType ==
  ASSUME NEW p \in Pipeline
  PROVE  Fail(p) \in Pipeline
  <1> DEFINE n == p.dropped + Len(p.pending)
  <1>1. n \in Nat
    BY PipelineCounters
  <1>2. Fail(p) = [p EXCEPT !.active = FALSE, !.failure = TRUE,
                            !.dropped = n, !.pending = <<>>]
    BY DEF Fail
  <1>3. <<>> \in Seq(PipelineCommand)
    OBVIOUS
  <1> HIDE DEF n
  <1>4. QED
    BY <1>1, <1>2, <1>3 DEF Pipeline

LEMMA CommandTypes ==
  /\ \A f \in FrameSubmission : Frame(f) \in PipelineCommand
  /\ \A b \in Barrier : Lifecycle(b) \in PipelineCommand
  BY NoFrameType DEF Frame, Lifecycle, PipelineCommand

\* The length of the queue after each operator.
LEMMA PendingLengths ==
  ASSUME NEW p \in Pipeline, NEW c \in PipelineCommand
  PROVE  /\ ~p.failure /\ Coalesces(p, c)
             => Admit(p, c).pending # <<>>
                /\ Len(Admit(p, c).pending) = Len(p.pending)
         /\ ~p.failure /\ ~Coalesces(p, c)
             => Len(Admit(p, c).pending) = Len(p.pending) + 1
         /\ CanStart(p) => Len(StartNext(p).pending) = Len(p.pending) - 1
         /\ CompleteActive(p).pending = p.pending
         /\ Fail(p).pending = <<>>
  <1>1. p.pending \in Seq(PipelineCommand)
    BY DEF Pipeline
  <1>2. ASSUME ~p.failure, Coalesces(p, c)
        PROVE  /\ Admit(p, c).pending # <<>>
               /\ Len(Admit(p, c).pending) = Len(p.pending)
    <2>1. Admit(p, c) = MergeIntoBack(p, c)
      BY <1>2 DEF Admit
    <2>2. Admit(p, c).pending =
            [p.pending EXCEPT ![Len(p.pending)].frame =
               ReplaceWithLatest(@, c.frame)]
      BY <2>1 DEF MergeIntoBack, Pipeline
    <2>3. QED
      BY <1>1, <1>2, <2>2 DEF Coalesces
  <1>3. ASSUME ~p.failure, ~Coalesces(p, c)
        PROVE  Len(Admit(p, c).pending) = Len(p.pending) + 1
    BY <1>1, <1>3 DEF Admit, PushBack, Pipeline
  <1>4. CanStart(p) => Len(StartNext(p).pending) = Len(p.pending) - 1
    BY <1>1 DEF CanStart, StartNext, Pipeline
  <1>5. CompleteActive(p).pending = p.pending /\ Fail(p).pending = <<>>
    BY DEF CompleteActive, Fail, Pipeline
  <1>6. QED
    BY <1>2, <1>3, <1>4, <1>5

\* The flags and the queue after each operator.
LEMMA PipelineFlags ==
  ASSUME NEW p \in Pipeline, NEW c \in PipelineCommand
  PROVE  /\ ~p.failure => /\ Admit(p, c).active = p.active
                          /\ Admit(p, c).failure = p.failure
         /\ StartNext(p).active = TRUE
         /\ StartNext(p).failure = p.failure
         /\ CompleteActive(p).active = FALSE
         /\ CompleteActive(p).failure = p.failure
         /\ CompleteActive(p).pending = p.pending
         /\ Fail(p).active = FALSE
         /\ Fail(p).failure = TRUE
         /\ Fail(p).pending = <<>>
  BY DEF Admit, MergeIntoBack, PushBack, StartNext, CompleteActive, Fail, Pipeline

\* The queue after each operator, entry by entry.
LEMMA CoalescedQueue ==
  ASSUME NEW p \in Pipeline, NEW c \in PipelineCommand, ~p.failure,
         Coalesces(p, c)
  PROVE  LET n == Len(p.pending)
             q == Admit(p, c).pending
         IN /\ n \in Nat \ {0}
            /\ IsFrame(p.pending[n]) /\ IsFrame(c)
            /\ Len(q) = n
            /\ \A i \in 1..n - 1 : q[i] = p.pending[i]
            /\ q[n] = [p.pending[n] EXCEPT !.frame = ReplaceWithLatest(@, c.frame)]
            /\ Admit(p, c).accepted = p.accepted + 1
            /\ Admit(p, c).coalesced = p.coalesced + 1
            /\ Admit(p, c).dropped = p.dropped
  <1> DEFINE n == Len(p.pending)
  <1>1. p.pending \in Seq(PipelineCommand) /\ n \in Nat \ {0}
    BY DEF Pipeline, Coalesces
  <1>2. Admit(p, c) = MergeIntoBack(p, c)
    BY DEF Admit
  <1>3. /\ Admit(p, c).pending =
             [p.pending EXCEPT ![n].frame = ReplaceWithLatest(@, c.frame)]
        /\ Admit(p, c).accepted = p.accepted + 1
        /\ Admit(p, c).coalesced = p.coalesced + 1
        /\ Admit(p, c).dropped = p.dropped
    BY <1>2 DEF MergeIntoBack, Pipeline
  <1>4. QED
    BY <1>1, <1>3 DEF Coalesces

LEMMA PushedQueue ==
  ASSUME NEW p \in Pipeline, NEW c \in PipelineCommand, ~p.failure,
         ~Coalesces(p, c)
  PROVE  /\ Admit(p, c).pending = Append(p.pending, c)
         /\ Admit(p, c).accepted = p.accepted + 1
         /\ Admit(p, c).coalesced = p.coalesced
         /\ Admit(p, c).dropped = p.dropped
         /\ ~(IsFrame(c) /\ p.pending # <<>> /\ IsFrame(p.pending[Len(p.pending)]))
  BY DEF Admit, PushBack, Pipeline, Coalesces

-----------------------------------------------------------------------------
(* Merging. *)

\* What every accepted command looks like: a frame was frozen from one commit
\* and not merged yet.
Committed(c) ==
  IsFrame(c) =>
    /\ c = Frame(c.frame)
    /\ c.frame.contentDirty = c.frame.scroll \cap c.frame.changed["content"]

\* The command that stands for the accepted commands s[lo] .. s[hi].
MergeOf(s, lo, hi) ==
  IF ~IsFrame(s[hi]) THEN s[hi]
  ELSE Frame(
         [scene  |-> s[hi].frame.scene,
          layers |-> s[hi].frame.layers,
          changed |-> [f \in Fact |->
                         UNION {s[k].frame.changed[f] : k \in lo..hi}],
          scroll |-> s[hi].frame.scroll,
          contentDirty |-> s[hi].frame.scroll \cap
                         UNION {s[k].frame.changed["content"] : k \in lo..hi},
          work   |-> \E k \in lo..hi : s[k].frame.work])

\* A command stands for itself.
LEMMA MergedOne ==
  ASSUME NEW s \in Seq(PipelineCommand), NEW k \in 1..Len(s), Committed(s[k])
  PROVE  MergeOf(s, k, k) = s[k]
  <1>1. CASE ~IsFrame(s[k])
    BY <1>1 DEF MergeOf
  <1>2. CASE IsFrame(s[k])
    <2> DEFINE f == s[k].frame
    <2>1. f \in FrameSubmission /\ s[k] = Frame(f)
      <3>1. s[k] \in PipelineCommand
        OBVIOUS
      <3>2. QED
        BY <1>2, <3>1 DEF Committed, PipelineCommand
    <2>2. \A x : UNION {s[j].frame.changed[x] : j \in k..k} = f.changed[x]
      OBVIOUS
    <2>3. (\E j \in k..k : s[j].frame.work) = f.work
      <3>1. k..k = {k} /\ f.work \in BOOLEAN
        BY <2>1 DEF FrameSubmission
      <3>2. QED
        BY <3>1, Zenon
    <2>4. [x \in Fact |-> UNION {s[j].frame.changed[x] : j \in k..k}] = f.changed
      BY <2>1, <2>2 DEF FrameSubmission, Changes
    <2>5. f.contentDirty = f.scroll \cap f.changed["content"]
      BY <1>2 DEF Committed
    <2>6. MergeOf(s, k, k) =
            Frame([scene |-> f.scene, layers |-> f.layers, changed |-> f.changed,
                   scroll |-> f.scroll, contentDirty |-> f.contentDirty,
                   work |-> f.work])
      BY <1>2, <2>2, <2>3, <2>4, <2>5 DEF MergeOf
    <2>7. f = [scene |-> f.scene, layers |-> f.layers, changed |-> f.changed,
               scroll |-> f.scroll, contentDirty |-> f.contentDirty,
               work |-> f.work]
      BY <2>1 DEF FrameSubmission
    <2>8. QED
      BY <2>1, <2>6, <2>7
  <1>3. QED
    BY <1>1, <1>2

\* What is appended behind an interval does not change its merge.
LEMMA MergedAppend ==
  ASSUME NEW s \in Seq(PipelineCommand), NEW c,
         NEW lo \in 1..Len(s), NEW hi \in lo..Len(s)
  PROVE  MergeOf(Append(s, c), lo, hi) = MergeOf(s, lo, hi)
  <1>1. \A k \in lo..hi : Append(s, c)[k] = s[k]
    OBVIOUS
  <1>2. hi \in lo..hi
    OBVIOUS
  <1>3. \A x : {Append(s, c)[k].frame.changed[x] : k \in lo..hi}
                 = {s[k].frame.changed[x] : k \in lo..hi}
    BY <1>1
  <1>4. (\E k \in lo..hi : Append(s, c)[k].frame.work)
          = (\E k \in lo..hi : s[k].frame.work)
    BY <1>1
  <1>5. QED
    BY <1>1, <1>2, <1>3, <1>4 DEF MergeOf

\* Merging does not depend on where in a sequence the interval lies.
LEMMA MergedShift ==
  ASSUME NEW s \in Seq(PipelineCommand), NEW lo \in 1..Len(s), NEW hi \in lo..Len(s)
  PROVE  MergeOf(SubSeq(s, lo, Len(s)), 1, hi - lo + 1)
           = MergeOf(s, lo, hi)
  <1> DEFINE t == SubSeq(s, lo, Len(s))
             n == hi - lo + 1
  <1>1. \A k \in 1..n : t[k] = s[k + lo - 1] /\ k + lo - 1 \in lo..hi
    OBVIOUS
  <1>2. \A j \in lo..hi : s[j] = t[j - lo + 1] /\ j - lo + 1 \in 1..n
    OBVIOUS
  <1>3. t[n] = s[hi]
    BY <1>2
  <1> HIDE DEF t, n
  <1>4. \A x : {t[k].frame.changed[x] : k \in 1..n}
                 = {s[k].frame.changed[x] : k \in lo..hi}
    <2>1. TAKE x
    <2>2. ASSUME NEW k \in 1..n
          PROVE  \E j \in lo..hi : t[k].frame.changed[x] = s[j].frame.changed[x]
      BY <1>1
    <2>3. ASSUME NEW j \in lo..hi
          PROVE  \E k \in 1..n : s[j].frame.changed[x] = t[k].frame.changed[x]
      BY <1>2
    <2> DEFINE L == {t[k].frame.changed[x] : k \in 1..n}
               R == {s[k].frame.changed[x] : k \in lo..hi}
    <2>4. \A y \in L : y \in R
      <3>1. TAKE y \in L
      <3>2. PICK k \in 1..n : y = t[k].frame.changed[x]
        OBVIOUS
      <3>3. PICK j \in lo..hi : y = s[j].frame.changed[x]
        BY <2>2, <3>2
      <3>4. QED
        BY <3>3
    <2>5. \A y \in R : y \in L
      <3>1. TAKE y \in R
      <3>2. PICK j \in lo..hi : y = s[j].frame.changed[x]
        OBVIOUS
      <3>3. PICK k \in 1..n : y = t[k].frame.changed[x]
        BY <2>3, <3>2
      <3>4. QED
        BY <3>3
    <2>6. QED
      BY <2>4, <2>5
  <1>5. (\E k \in 1..n : t[k].frame.work) = (\E k \in lo..hi : s[k].frame.work)
    BY <1>1, <1>2
  <1>6. MergeOf(t, 1, n) = MergeOf(s, lo, hi)
    BY <1>3, <1>4, <1>5 DEF MergeOf
  <1>7. QED
    BY <1>6 DEF t, n

\* ReplaceWithLatest, applied to the merge of a run of frames and a new frame,
\* is the merge of the longer run.
LEMMA MergedGrows ==
  ASSUME NEW s \in Seq(PipelineCommand), NEW lo \in 1..Len(s),
         NEW c \in PipelineCommand, Committed(c), IsFrame(c), IsFrame(s[Len(s)])
  PROVE  MergeOf(Append(s, c), lo, Len(s) + 1) =
           Frame(ReplaceWithLatest(MergeOf(s, lo, Len(s)).frame, c.frame))
  <1> DEFINE n == Len(s)
             t == Append(s, c)
             f == c.frame
             old == [x \in Fact |-> UNION {s[k].frame.changed[x] : k \in lo..n}]
             all == [x \in Fact |-> UNION {t[k].frame.changed[x] : k \in lo..n + 1}]
             m == MergeOf(s, lo, n).frame
  <1>1. f \in FrameSubmission /\ t[n + 1] = c /\ n \in Nat
    BY DEF PipelineCommand
  <1>2. lo..(n + 1) = (lo..n) \cup {n + 1} /\ \A k \in lo..n : t[k] = s[k]
    OBVIOUS
  <1>3. \A x : UNION {t[k].frame.changed[x] : k \in lo..(n + 1)}
                 = f.changed[x] \cup UNION {s[k].frame.changed[x] : k \in lo..n}
    BY <1>1, <1>2
  <1>4. (\E k \in lo..(n + 1) : t[k].frame.work)
          = (f.work \/ \E k \in lo..n : s[k].frame.work)
    BY <1>1, <1>2
  <1>5. /\ m.changed = old
        /\ m.work = \E k \in lo..n : s[k].frame.work
        /\ m.contentDirty = s[n].frame.scroll \cap old["content"]
    BY DEF MergeOf, Frame, Fact
  <1>6. all = AbsorbChangesFrom(f.changed, m.changed)
    <2>1. \A x \in Fact :
            /\ old[x] = UNION {s[k].frame.changed[x] : k \in lo..n}
            /\ all[x] = UNION {t[k].frame.changed[x] : k \in lo..n + 1}
      OBVIOUS
    <2>2. all = [x \in Fact |-> all[x]]
      OBVIOUS
    <2> HIDE DEF old, all, t, f, m, n
    <2>3. \A x \in Fact : all[x] = f.changed[x] \cup old[x]
      BY <1>3, <2>1
    <2>4. QED
      BY <1>5, <2>2, <2>3 DEF AbsorbChangesFrom
  <1>7. f.scroll \cap (f.contentDirty \cup all["content"] \cup m.contentDirty)
          = f.scroll \cap all["content"]
    <2>1. all["content"] = f.changed["content"] \cup old["content"]
      BY <1>3 DEF Fact
    <2>2. f.contentDirty = f.scroll \cap f.changed["content"]
      BY DEF Committed
    <2>3. QED
      BY <1>5, <2>1, <2>2
  <1>8. ReplaceWithLatest(m, f) =
          [scene |-> f.scene, layers |-> f.layers, changed |-> all,
           scroll |-> f.scroll,
           contentDirty |-> f.scroll \cap all["content"],
           work |-> \E k \in lo..(n + 1) : t[k].frame.work]
    <2> DEFINE dirty == f.scroll \cap (f.contentDirty \cup all["content"]
                                         \cup m.contentDirty)
               work == f.work \/ m.work
    <2>1. ReplaceWithLatest(m, f) =
            [f EXCEPT !.changed = all, !.contentDirty = dirty, !.work = work]
      BY <1>1, <1>6 DEF ReplaceWithLatest, FrameSubmission
    <2>2. dirty = f.scroll \cap all["content"]
      BY <1>7
    <2>3. work = \E k \in lo..(n + 1) : t[k].frame.work
      BY <1>4, <1>5
    <2> HIDE DEF dirty, work, all
    <2>4. QED
      BY <1>1, <2>1, <2>2, <2>3 DEF FrameSubmission
  <1>9. MergeOf(t, lo, n + 1) =
          Frame([scene |-> f.scene, layers |-> f.layers, changed |-> all,
                 scroll |-> f.scroll,
                 contentDirty |-> f.scroll \cap all["content"],
                 work |-> \E k \in lo..(n + 1) : t[k].frame.work])
    BY <1>1 DEF MergeOf, Fact
  <1>10. QED
    BY <1>8, <1>9

\* The merge of an interval is a frame exactly when its last command is.
LEMMA MergedKind ==
  ASSUME NEW s, NEW lo, NEW hi
  PROVE  IsFrame(MergeOf(s, lo, hi)) <=> IsFrame(s[hi])
  BY DEF MergeOf, IsFrame, Frame

-----------------------------------------------------------------------------
(* The queue p.pending, the log s of all that was accepted, and the interval *)
(* sp[i] of the log that entry i stands for.                                 *)

Interval == [lo: Nat, hi: Nat]

Typed(p, sp, s) ==
  /\ p \in Pipeline
  /\ sp \in Seq(Interval)
  /\ s \in Seq(PipelineCommand)

Unmerged(s) == \A k \in 1..Len(s) : Committed(s[k])

\* Follows from Partition by induction on the queue, so it is carried along.
Inside(sp, s) == \A i \in 1..Len(sp) : sp[i].hi <= Len(s)

\* The intervals follow one another without gap and reach the newest command.
Partition(p, sp, s) ==
  /\ Len(sp) = Len(p.pending)
  /\ \A i \in 1..Len(sp) : sp[i].lo \in 1..sp[i].hi
  /\ \A i \in 1..Len(sp) :
       sp[i].hi = IF i = Len(sp) THEN Len(s) ELSE sp[i + 1].lo - 1

\* Each entry is the merge of what it stands for.
Faithful(p, sp, s) ==
  \A i \in 1..Len(sp) :
    /\ p.pending[i] = MergeOf(s, sp[i].lo, sp[i].hi)
    /\ sp[i].lo < sp[i].hi => \A k \in sp[i].lo..sp[i].hi : IsFrame(s[k])

FramesApart(p) ==
  \A i \in 1..Len(p.pending) - 1 :
    ~(IsFrame(p.pending[i]) /\ IsFrame(p.pending[i + 1]))

\* Faithful needs Partition to know where an entry's run ends, and both need to
\* know that the log holds unmerged commands.
Backlog(p, sp, s) ==
  /\ Typed(p, sp, s)
  /\ Unmerged(s)
  /\ Inside(sp, s)
  /\ Partition(p, sp, s)
  /\ Faithful(p, sp, s)
  /\ FramesApart(p)

\* The intervals after c is admitted.
Extended(p, sp, s, c) ==
  IF Coalesces(p, c)
  THEN [sp EXCEPT ![Len(sp)].hi = Len(s) + 1]
  ELSE Append(sp, [lo |-> Len(s) + 1, hi |-> Len(s) + 1])

\* An accepted frame that merges into the back of the queue.
LEMMA CoalesceBacklog ==
  ASSUME NEW p, NEW sp, NEW s, NEW c \in PipelineCommand, NEW p2, NEW sp2, NEW s2,
         Backlog(p, sp, s), ~p.failure, Committed(c), Coalesces(p, c),
         p2 = Admit(p, c), sp2 = Extended(p, sp, s, c), s2 = Append(s, c)
  PROVE  Backlog(p2, sp2, s2)
  <1> DEFINE n == Len(sp)
             L == Len(s)
             lo == sp[n].lo
  <1>1. /\ p \in Pipeline /\ ~p.failure
        /\ sp \in Seq(Interval) /\ s \in Seq(PipelineCommand)
        /\ n = Len(p.pending)
        /\ p2 = Admit(p, c)
        /\ sp2 = [sp EXCEPT ![n].hi = L + 1]
        /\ s2 = Append(s, c)
    BY DEF Backlog, Typed, Partition, Extended
  <1>2. /\ n \in Nat \ {0}
        /\ IsFrame(p.pending[n]) /\ IsFrame(c)
        /\ Len(p2.pending) = n
        /\ \A i \in 1..n - 1 : p2.pending[i] = p.pending[i]
        /\ p2.pending[n] =
             [p.pending[n] EXCEPT !.frame = ReplaceWithLatest(@, c.frame)]
    <2>1. LET m == Len(p.pending)
              q == Admit(p, c).pending
          IN /\ m \in Nat \ {0}
             /\ IsFrame(p.pending[m]) /\ IsFrame(c)
             /\ Len(q) = m
             /\ \A i \in 1..m - 1 : q[i] = p.pending[i]
             /\ q[m] = [p.pending[m] EXCEPT !.frame = ReplaceWithLatest(@, c.frame)]
      BY <1>1, CoalescedQueue
    <2> HIDE DEF n
    <2>2. QED
      BY <1>1, <2>1
  <1>3. /\ Len(sp2) = n
        /\ \A i \in 1..n - 1 : sp2[i] = sp[i]
        /\ sp2[n].lo = lo /\ sp2[n].hi = L + 1
    <2>1. sp[n] \in Interval
      BY <1>1, <1>2
    <2>2. sp2[n] = [sp[n] EXCEPT !.hi = L + 1]
      BY <1>1, <1>2
    <2>3. QED
      BY <1>1, <1>2, <2>1, <2>2 DEF Interval
  <1>4. /\ \A i \in 1..n : /\ sp[i].lo \in 1..sp[i].hi
                           /\ sp[i].hi <= L
                           /\ sp[i].lo \in Nat /\ sp[i].hi \in Nat
        /\ sp[n].hi = L
    <2>1. \A i \in 1..n : sp[i] \in Interval
      BY <1>1
    <2>2. QED
      BY <1>2, <2>1 DEF Backlog, Partition, Inside, Interval
  <1>5. lo \in 1..L /\ L \in Nat \ {0} /\ L + 1 = Len(s2)
    <2>1. n \in 1..n /\ L \in Nat /\ Len(s2) = L + 1
      BY <1>1, <1>2
    <2>2. lo \in 1..sp[n].hi
      BY <1>4, <2>1
    <2>3. QED
      BY <1>4, <2>1, <2>2
  <1>6. IsFrame(s[L]) /\ p.pending[n] = MergeOf(s, lo, L)
    BY <1>1, <1>2, <1>4, MergedKind DEF Backlog, Faithful
  <1>7. \A k \in lo..L : IsFrame(s[k])
    BY <1>2, <1>4, <1>5, <1>6 DEF Backlog, Faithful
  <1>8. Unmerged(s2)
    BY <1>1 DEF Backlog, Unmerged
  <1>9. Inside(sp2, s2)
    <2>1. ASSUME NEW i \in 1..n
          PROVE  sp2[i].hi <= L + 1
      <3>1. CASE i = n
        BY <1>3, <1>5, <3>1
      <3>2. CASE i # n
        <4>1. i \in 1..n - 1 /\ sp[i].hi <= L /\ sp[i].hi \in Nat
          BY <1>2, <1>4, <3>2
        <4>2. QED
          BY <1>3, <1>5, <4>1
      <3>3. QED
        BY <3>1, <3>2
    <2>2. QED
      BY <1>3, <1>5, <2>1 DEF Inside
  <1>10. Partition(p2, sp2, s2)
    <2>1. \A i \in 1..n : i # n => /\ i \in 1..n - 1
                                  /\ sp[i].hi = sp[i + 1].lo - 1
      BY <1>2 DEF Backlog, Partition
    <2>2. \A i \in 1..n : sp2[i].lo = sp[i].lo
      BY <1>2, <1>3
    <2>3. \A i \in 1..n : sp2[i].lo \in 1..sp2[i].hi
      BY <1>2, <1>3, <1>4
    <2>4. ASSUME NEW i \in 1..n
          PROVE  sp2[i].hi = IF i = n THEN L + 1 ELSE sp2[i + 1].lo - 1
      <3>1. i # n => i + 1 \in 1..n
        BY <1>2
      <3>2. QED
        BY <1>3, <2>1, <2>2, <3>1
    <2>5. QED
      BY <1>2, <1>3, <1>5, <2>3, <2>4 DEF Partition
  <1>11. Faithful(p2, sp2, s2)
    <2> SUFFICES ASSUME NEW i \in 1..n
                 PROVE  /\ p2.pending[i] =
                             MergeOf(s2, sp2[i].lo, sp2[i].hi)
                        /\ sp2[i].lo < sp2[i].hi =>
                             \A k \in sp2[i].lo..sp2[i].hi : IsFrame(s2[k])
      BY <1>3 DEF Faithful
    <2>1. CASE i < n
      <3>1. /\ sp2[i] = sp[i] /\ p2.pending[i] = p.pending[i]
        BY <1>2, <1>3, <2>1
      <3>2. /\ sp[i].lo \in 1..L /\ sp[i].hi \in sp[i].lo..L
        BY <1>4, <1>5
      <3>3. p.pending[i] = MergeOf(s, sp[i].lo, sp[i].hi)
        BY DEF Backlog, Faithful
      <3>4. /\ MergeOf(s, sp[i].lo, sp[i].hi)
                 = MergeOf(s2, sp[i].lo, sp[i].hi)
            /\ \A k \in sp[i].lo..sp[i].hi : s2[k] = s[k]
        BY <1>1, <3>2, MergedAppend
      <3>5. sp[i].lo < sp[i].hi =>
              \A k \in sp[i].lo..sp[i].hi : IsFrame(s[k])
        BY DEF Backlog, Faithful
      <3>6. sp[i].lo < sp[i].hi =>
              \A k \in sp[i].lo..sp[i].hi : IsFrame(s2[k])
        BY <3>4, <3>5
      <3>7. QED
        BY <3>1, <3>3, <3>4, <3>6
    <2>2. CASE i = n
      <3>1. MergeOf(s2, lo, L + 1) =
              Frame(ReplaceWithLatest(p.pending[n].frame, c.frame))
        BY <1>1, <1>2, <1>5, <1>6, MergedGrows
      <3>2. p.pending[n] = Frame(p.pending[n].frame)
        BY <1>6 DEF MergeOf, Frame
      <3>3. p2.pending[n] =
              Frame(ReplaceWithLatest(p.pending[n].frame, c.frame))
        BY <1>2, <3>2 DEF Frame
      <3>4. \A k \in lo..(L + 1) : IsFrame(s2[k])
        BY <1>1, <1>2, <1>5, <1>7
      <3>5. /\ p2.pending[n] = MergeOf(s2, sp2[n].lo, sp2[n].hi)
            /\ \A k \in sp2[n].lo..sp2[n].hi : IsFrame(s2[k])
        BY <1>3, <3>1, <3>3, <3>4
      <3>6. QED
        BY <2>2, <3>5
    <2>3. i < n \/ i = n
      BY <1>2
    <2>4. QED
      BY <2>1, <2>2, <2>3, Zenon
  <1>12. FramesApart(p2)
    <2>1. \A i \in 1..n : IsFrame(p2.pending[i]) = IsFrame(p.pending[i])
      <3>1. p.pending[n] \in PipelineCommand
        BY <1>1, <1>2 DEF Pipeline
      <3>2. p2.pending[n].kind = p.pending[n].kind
        BY <1>2, <3>1 DEF PipelineCommand
      <3>3. \A i \in 1..n : i # n => i \in 1..n - 1
        BY <1>2
      <3>4. QED
        BY <1>2, <3>2, <3>3 DEF IsFrame
    <2>2. /\ Len(p2.pending) = n /\ Len(p.pending) = n
          /\ \A i \in 1..n - 1 : i \in 1..n /\ i + 1 \in 1..n
      BY <1>1, <1>2
    <2>3. \A i \in 1..n - 1 :
            ~(IsFrame(p.pending[i]) /\ IsFrame(p.pending[i + 1]))
      BY <2>2 DEF Backlog, FramesApart
    <2>4. QED
      BY <2>1, <2>2, <2>3 DEF FramesApart
  <1>13. Typed(p2, sp2, s2)
    <2>1. sp2 \in Seq(Interval)
      <3> DEFINE x == [sp[n] EXCEPT !.hi = L + 1]
      <3>1. x \in Interval
        <4>1. sp[n] \in Interval /\ L + 1 \in Nat
          BY <1>1, <1>2, <1>5
        <4> HIDE DEF n, L
        <4>2. QED
          BY <4>1 DEF Interval
      <3>2. sp2 = [sp EXCEPT ![n] = x]
        BY <1>1
      <3> HIDE DEF x
      <3>3. QED
        BY <1>1, <1>2, <3>1, <3>2
    <2>2. p2 \in Pipeline /\ s2 \in Seq(PipelineCommand)
      BY <1>1, AdmitType
    <2>3. QED
      BY <2>1, <2>2 DEF Typed
  <1>14. QED
    BY <1>8, <1>9, <1>10, <1>11, <1>12, <1>13 DEF Backlog

\* An accepted command that gets a pending entry of its own.
LEMMA PushBacklog ==
  ASSUME NEW p, NEW sp, NEW s, NEW c \in PipelineCommand, NEW p2, NEW sp2, NEW s2,
         Backlog(p, sp, s), ~p.failure, Committed(c), ~Coalesces(p, c),
         p2 = Admit(p, c), sp2 = Extended(p, sp, s, c), s2 = Append(s, c)
  PROVE  Backlog(p2, sp2, s2)
  <1> DEFINE n == Len(sp)
             L == Len(s)
  <1>1. /\ p \in Pipeline /\ ~p.failure
        /\ sp \in Seq(Interval) /\ s \in Seq(PipelineCommand)
        /\ n = Len(p.pending)
        /\ p.pending \in Seq(PipelineCommand)
        /\ p2 = Admit(p, c)
        /\ sp2 = Append(sp, [lo |-> L + 1, hi |-> L + 1])
        /\ s2 = Append(s, c)
    BY DEF Backlog, Typed, Partition, Extended, Pipeline
  <1>2. /\ p2.pending = Append(p.pending, c)
        /\ ~(IsFrame(c) /\ p.pending # <<>>
               /\ IsFrame(p.pending[Len(p.pending)]))
    BY <1>1, PushedQueue
  <1>3. /\ n \in Nat /\ L \in Nat
        /\ Len(sp2) = n + 1 /\ Len(p2.pending) = n + 1
        /\ Len(s2) = L + 1
        /\ \A i \in 1..n : /\ sp2[i] = sp[i]
                           /\ p2.pending[i] = p.pending[i]
        /\ sp2[n + 1] = [lo |-> L + 1, hi |-> L + 1]
        /\ sp2[n + 1].lo = L + 1 /\ sp2[n + 1].hi = L + 1
        /\ p2.pending[n + 1] = c
        /\ s2[L + 1] = c
    BY <1>1, <1>2
  <1>4. \A i \in 1..n : /\ sp[i].lo \in 1..sp[i].hi
                       /\ sp[i].hi <= L
                       /\ sp[i].lo \in Nat /\ sp[i].hi \in Nat
    <2>1. \A i \in 1..n : sp[i] \in Interval
      BY <1>1
    <2>2. QED
      BY <2>1 DEF Backlog, Partition, Inside, Interval
  <1>5. \A i \in 1..n + 1 : i = n + 1 \/ i \in 1..n
    BY <1>3
  <1>6. Unmerged(s2)
    BY <1>1 DEF Backlog, Unmerged
  <1>7. Inside(sp2, s2)
    <2>1. ASSUME NEW i \in 1..n + 1
          PROVE  sp2[i].hi <= L + 1
      <3>1. CASE i = n + 1
        BY <1>3, <3>1
      <3>2. CASE i # n + 1
        <4>1. i \in 1..n
          BY <1>5, <3>2
        <4>2. QED
          BY <1>3, <1>4, <4>1
      <3>3. QED
        BY <3>1, <3>2
    <2>2. QED
      BY <1>3, <2>1 DEF Inside
  <1>8. Partition(p2, sp2, s2)
    <2>1. \A i \in 1..n : sp[i].hi = IF i = n THEN L ELSE sp[i + 1].lo - 1
      BY DEF Backlog, Partition
    <2>2. ASSUME NEW i \in 1..n
          PROVE  sp2[i].hi = sp2[i + 1].lo - 1
      <3>1. CASE i = n
        <4>1. sp2[i].hi = L /\ sp2[i + 1].lo = L + 1
          BY <1>3, <2>1, <3>1
        <4>2. QED
          BY <1>3, <4>1
      <3>2. CASE i # n
        <4>1. i + 1 \in 1..n
          BY <1>3, <3>2
        <4>2. QED
          BY <1>3, <2>1, <3>2, <4>1
      <3>3. QED
        BY <3>1, <3>2
    <2>3. \A i \in 1..n + 1 : sp2[i].lo \in 1..sp2[i].hi
      BY <1>3, <1>4, <1>5
    <2>4. \A i \in 1..n + 1 :
            sp2[i].hi = IF i = n + 1 THEN L + 1 ELSE sp2[i + 1].lo - 1
      BY <1>3, <1>5, <2>2
    <2>5. QED
      BY <1>3, <2>3, <2>4 DEF Partition
  <1>9. Faithful(p2, sp2, s2)
    <2> SUFFICES ASSUME NEW i \in 1..n + 1
                 PROVE  /\ p2.pending[i] =
                             MergeOf(s2, sp2[i].lo, sp2[i].hi)
                        /\ sp2[i].lo < sp2[i].hi =>
                             \A k \in sp2[i].lo..sp2[i].hi : IsFrame(s2[k])
      BY <1>3 DEF Faithful
    <2>1. CASE i \in 1..n
      <3>1. /\ sp2[i] = sp[i] /\ p2.pending[i] = p.pending[i]
        BY <1>3, <2>1
      <3>2. /\ sp[i].lo \in 1..L /\ sp[i].hi \in sp[i].lo..L
        BY <1>3, <1>4, <2>1
      <3>3. p.pending[i] = MergeOf(s, sp[i].lo, sp[i].hi)
        BY <2>1 DEF Backlog, Faithful
      <3>4. /\ MergeOf(s, sp[i].lo, sp[i].hi)
                 = MergeOf(s2, sp[i].lo, sp[i].hi)
            /\ \A k \in sp[i].lo..sp[i].hi : s2[k] = s[k]
        BY <1>1, <3>2, MergedAppend
      <3>5. sp[i].lo < sp[i].hi =>
              \A k \in sp[i].lo..sp[i].hi : IsFrame(s[k])
        BY <2>1 DEF Backlog, Faithful
      <3>6. sp[i].lo < sp[i].hi =>
              \A k \in sp[i].lo..sp[i].hi : IsFrame(s2[k])
        BY <3>4, <3>5
      <3>7. QED
        BY <3>1, <3>3, <3>4, <3>6
    <2>2. CASE i = n + 1
      <3>1. MergeOf(s2, L + 1, L + 1) = c
        <4>1. s2 \in Seq(PipelineCommand) /\ L + 1 \in 1..Len(s2)
          BY <1>1, <1>3
        <4>2. QED
          BY <1>3, <4>1, MergedOne
      <3>2. QED
        BY <1>3, <2>2, <3>1
    <2>3. QED
      BY <1>5, <2>1, <2>2
  <1>10. FramesApart(p2)
    <2>1. ASSUME NEW i \in 1..n
          PROVE  ~(IsFrame(p2.pending[i]) /\ IsFrame(p2.pending[i + 1]))
      <3>1. CASE i = n
        <4>1. p.pending # <<>>
          BY <1>1, <1>3, <3>1
        <4>2. QED
          BY <1>1, <1>2, <1>3, <3>1, <4>1
      <3>2. CASE i # n
        <4>1. i \in 1..n - 1 /\ i + 1 \in 1..n
          BY <1>3, <3>2
        <4>2. ~(IsFrame(p.pending[i]) /\ IsFrame(p.pending[i + 1]))
          BY <1>1, <4>1 DEF Backlog, FramesApart
        <4>3. QED
          BY <1>3, <4>1, <4>2
      <3>3. QED
        BY <3>1, <3>2
    <2>2. QED
      BY <1>3, <2>1 DEF FramesApart
  <1>11. Typed(p2, sp2, s2)
    <2>1. [lo |-> L + 1, hi |-> L + 1] \in Interval
      BY <1>3 DEF Interval
    <2>2. p2 \in Pipeline /\ s2 \in Seq(PipelineCommand)
      BY <1>1, AdmitType
    <2>3. QED
      BY <1>1, <2>1, <2>2 DEF Typed
  <1>12. QED
    BY <1>6, <1>7, <1>8, <1>9, <1>10, <1>11 DEF Backlog

\* Taking the oldest entry shifts the queue and its intervals together.
LEMMA StartBacklog ==
  ASSUME NEW p, NEW sp, NEW s, NEW p2 \in Pipeline, NEW sp2,
         Backlog(p, sp, s), p.pending # <<>>,
         p2.pending = Tail(p.pending), sp2 = Tail(sp)
  PROVE  Backlog(p2, sp2, s)
  <1> DEFINE n == Len(sp)
  <1>1. /\ p \in Pipeline /\ sp \in Seq(Interval)
        /\ p.pending \in Seq(PipelineCommand) /\ p.pending # <<>>
        /\ n = Len(p.pending)
        /\ sp2 = Tail(sp)
    BY DEF Backlog, Typed, Partition, Pipeline
  <1>2. p2.pending = Tail(p.pending)
    OBVIOUS
  <1>3. /\ n \in Nat \ {0}
        /\ Len(sp2) = n - 1 /\ Len(p2.pending) = n - 1
        /\ \A i \in 1..n - 1 : /\ i + 1 \in 1..n
                               /\ sp2[i] = sp[i + 1]
                               /\ p2.pending[i] = p.pending[i + 1]
    BY <1>1, <1>2
  <1>4. Unmerged(s) /\ Inside(sp2, s)
    BY <1>1, <1>3 DEF Backlog, Unmerged, Inside
  <1>5. Partition(p2, sp2, s)
    <2>1. \A i \in 1..n : /\ sp[i].lo \in 1..sp[i].hi
                         /\ sp[i].hi = IF i = n THEN Len(s)
                                          ELSE sp[i + 1].lo - 1
      BY DEF Backlog, Partition
    <2>2. \A i \in 1..n - 1 :
            sp2[i].hi = IF i = n - 1 THEN Len(s) ELSE sp2[i + 1].lo - 1
      <3>1. TAKE i \in 1..n - 1
      <3>2. CASE i = n - 1
        <4>1. i + 1 = n /\ i + 1 \in 1..n /\ sp2[i] = sp[i + 1]
          BY <1>3, <3>2
        <4>2. sp2[i].hi = Len(s)
          BY <2>1, <4>1, Zenon
        <4>3. QED
          BY <3>2, <4>2, Zenon
      <3>3. CASE i # n - 1
        <4>1. i + 1 \in 1..n - 1 /\ i + 1 # n
          <5> HIDE DEF n
          <5>1. QED
            BY <1>3, <3>3
        <4>2. /\ sp2[i] = sp[i + 1] /\ sp2[i + 1] = sp[(i + 1) + 1]
              /\ i + 1 \in 1..n
          BY <1>3, <4>1
        <4>3. sp[i + 1].hi = sp[(i + 1) + 1].lo - 1
          BY <2>1, <4>1, <4>2
        <4>4. sp2[i].hi = sp2[i + 1].lo - 1
          BY <4>2, <4>3, Zenon
        <4>5. QED
          BY <3>3, <4>4, Zenon
      <3>4. QED
        BY <3>2, <3>3
    <2>3. \A i \in 1..n - 1 : sp2[i].lo \in 1..sp2[i].hi
      BY <1>3, <2>1
    <2>4. QED
      BY <1>1, <1>3, <2>2, <2>3 DEF Partition
  <1>6. Faithful(p2, sp2, s)
    <2>1. ASSUME NEW i \in 1..n - 1
          PROVE  /\ p2.pending[i] =
                      MergeOf(s, sp2[i].lo, sp2[i].hi)
                 /\ sp2[i].lo < sp2[i].hi =>
                      \A k \in sp2[i].lo..sp2[i].hi : IsFrame(s[k])
      BY <1>1, <1>3 DEF Backlog, Faithful
    <2>2. QED
      BY <1>3, <2>1 DEF Faithful
  <1>7. FramesApart(p2)
    <2>1. ASSUME NEW i \in 1..(n - 1) - 1
          PROVE  ~(IsFrame(p2.pending[i]) /\ IsFrame(p2.pending[i + 1]))
      <3>1. i \in 1..n - 1 /\ i + 1 \in 1..n - 1
        BY <1>3
      <3>2. ~(IsFrame(p.pending[i + 1]) /\ IsFrame(p.pending[(i + 1) + 1]))
        BY <1>1, <3>1 DEF Backlog, FramesApart
      <3>3. QED
        BY <1>3, <3>1, <3>2
    <2>2. QED
      BY <1>3, <2>1 DEF FramesApart
  <1>8. Typed(p2, sp2, s)
    BY <1>1 DEF Backlog, Typed
  <1>9. QED
    BY <1>4, <1>5, <1>6, <1>7, <1>8 DEF Backlog


\* Admission keeps the books, merged or pushed.
LEMMA AdmitBacklog ==
  ASSUME NEW p, NEW sp, NEW s, NEW c \in PipelineCommand,
         Backlog(p, sp, s), ~p.failure, Committed(c)
  PROVE  Backlog(Admit(p, c), Extended(p, sp, s, c), Append(s, c))
  BY CoalesceBacklog, PushBacklog

\* An empty queue owes nothing.
LEMMA EmptyBacklog ==
  ASSUME NEW p \in Pipeline, NEW s \in Seq(PipelineCommand), Unmerged(s),
         p.pending = <<>>
  PROVE  Backlog(p, <<>>, s)
  <1>1. Len(p.pending) = 0 /\ Len(<<>>) = 0 /\ <<>> \in Seq(Interval)
    OBVIOUS
  <1>2. QED
    BY <1>1 DEF Backlog, Typed, Inside, Partition, Faithful, FramesApart

\* Only the queue of the pipeline matters.
LEMMA SameBacklog ==
  ASSUME NEW p, NEW sp, NEW s, NEW p2 \in Pipeline, Backlog(p, sp, s),
         p2.pending = p.pending
  PROVE  Backlog(p2, sp, s)
  BY DEF Backlog, Typed, Partition, Faithful, FramesApart

-----------------------------------------------------------------------------
(* What is owed: the accepted commands not yet started. *)

Owed(sp, s) == IF sp = <<>> THEN <<>> ELSE SubSeq(s, sp[1].lo, Len(s))

\* A service may take a lone barrier or the whole run of frames up to the next.
IsRunOf(o, n) ==
  \/ n = 1 /\ ~IsFrame(o[1])
  \/ /\ \A k \in 1..n : IsFrame(o[k])
     /\ n < Len(o) => ~IsFrame(o[n + 1])

\* What is owed is the tail of the log the intervals cover.
LEMMA OwedMeaning ==
  ASSUME NEW p, NEW sp, NEW s, Backlog(p, sp, s), sp # <<>>
  PROVE  /\ s \in Seq(PipelineCommand)
         /\ Len(sp) \in Nat \ {0}
         /\ sp[1].lo \in 1..Len(s)
         /\ sp[1].hi \in sp[1].lo..Len(s)
         /\ Owed(sp, s) = SubSeq(s, sp[1].lo, Len(s))
         /\ Len(Owed(sp, s)) = Len(s) - sp[1].lo + 1
         /\ \A k \in 1..Len(Owed(sp, s)) : Owed(sp, s)[k] = s[k + sp[1].lo - 1]
  <1>1. /\ s \in Seq(PipelineCommand) /\ sp \in Seq(Interval)
        /\ Len(sp) \in Nat \ {0}
    BY DEF Backlog, Typed
  <1>2. /\ sp[1].lo \in Nat /\ sp[1].hi \in Nat
        /\ sp[1].lo \in 1..sp[1].hi /\ sp[1].hi <= Len(s)
    <2>1. sp[1] \in Interval /\ 1 \in 1..Len(sp)
      BY <1>1
    <2>2. QED
      BY <2>1 DEF Interval, Backlog, Partition, Inside
  <1>3. sp[1].lo \in 1..Len(s) /\ sp[1].hi \in sp[1].lo..Len(s)
    BY <1>1, <1>2
  <1>4. Owed(sp, s) = SubSeq(s, sp[1].lo, Len(s))
    BY DEF Owed
  <1> DEFINE lo == sp[1].lo
             o == Owed(sp, s)
  <1> HIDE DEF lo, o
  <1>5. lo \in 1..Len(s) /\ o = SubSeq(s, lo, Len(s))
    BY <1>3, <1>4 DEF lo, o
  <1>6. /\ Len(o) = Len(s) - lo + 1
        /\ \A k \in 1..Len(o) : o[k] = s[k + lo - 1]
    BY <1>1, <1>5
  <1>7. QED
    BY <1>1, <1>3, <1>4, <1>6 DEF lo, o

\* A window lo..hi of a sequence of length L, counted from its own start.
LEMMA Window ==
  ASSUME NEW L \in Nat, NEW lo \in 1..L, NEW hi \in lo..L
  PROVE  /\ hi - lo + 1 \in 1..L - lo + 1
         /\ \A k \in 1..hi - lo + 1 : /\ k + lo - 1 \in lo..hi
                                     /\ k + lo - 1 \in 1..L
                                     /\ k \in 1..L - lo + 1
         /\ (hi - lo + 1) + 1 + lo - 1 = hi + 1
         /\ hi < L => (hi - lo + 1) + 1 \in 1..L - lo + 1
  OBVIOUS

\* Dropping the window from the tail it begins leaves the tail after it.
LEMMA TailAfter ==
  ASSUME NEW T, NEW s \in Seq(T), NEW lo \in 1..Len(s), NEW hi \in lo..Len(s)
  PROVE  SubSeq(SubSeq(s, lo, Len(s)), hi - lo + 2, Len(s) - lo + 1)
           = SubSeq(s, hi + 1, Len(s))
  OBVIOUS

\* What is owed grows at the back when the log does and the intervals still
\* begin where they began.
LEMMA OwedGrows ==
  ASSUME NEW p, NEW sp, NEW s, Backlog(p, sp, s),
         NEW p2, NEW sp2, NEW s2, Backlog(p2, sp2, s2), sp2 # <<>>,
         NEW c, Len(s2) = Len(s) + 1, s2[Len(s) + 1] = c,
         \A k \in 1..Len(s) : s2[k] = s[k],
         sp = <<>> => sp2[1].lo = Len(s) + 1,
         sp # <<>> => sp2[1].lo = sp[1].lo
  PROVE  /\ Len(Owed(sp2, s2)) = Len(Owed(sp, s)) + 1
         /\ \A k \in 1..Len(Owed(sp, s)) : Owed(sp2, s2)[k] = Owed(sp, s)[k]
         /\ Owed(sp2, s2)[Len(Owed(sp2, s2))] = c
  <1> DEFINE L == Len(s)
             o == Owed(sp, s)
             o2 == Owed(sp2, s2)
             start == sp2[1].lo
  <1>1. L \in Nat
    BY DEF Backlog, Typed
  <1>2. /\ start \in 1..L + 1
        /\ Len(o2) = (L + 1) - start + 1
        /\ \A k \in 1..Len(o2) : o2[k] = s2[k + start - 1]
    <2>1. /\ sp2[1].lo \in 1..Len(s2)
          /\ Len(Owed(sp2, s2)) = Len(s2) - sp2[1].lo + 1
          /\ \A k \in 1..Len(Owed(sp2, s2)) :
               Owed(sp2, s2)[k] = s2[k + sp2[1].lo - 1]
      BY OwedMeaning
    <2>2. QED
      BY <2>1
  <1>3. CASE sp = <<>>
    <2>1. o = <<>> /\ Len(o) = 0 /\ start = L + 1
      BY <1>3 DEF Owed
    <2>2. Len(o2) = 1 /\ o2[1] = s2[1 + (L + 1) - 1]
      BY <1>1, <1>2, <2>1
    <2>3. 1 + (L + 1) - 1 = L + 1
      BY <1>1
    <2> HIDE DEF o, o2
    <2>4. QED
      BY <2>1, <2>2, <2>3 DEF o, o2
  <1>4. CASE sp # <<>>
    <2> DEFINE lo == sp[1].lo
               m == Len(o)
    <2>1. /\ lo \in 1..L /\ m = L - lo + 1
          /\ \A k \in 1..m : o[k] = s[k + lo - 1]
      BY <1>4, OwedMeaning
    <2>2. start = lo
      BY <1>4
    <2> HIDE DEF lo, m, L, o, o2, start
    <2>3. m \in Nat /\ Len(o2) = m + 1 /\ L \in Nat
      BY <1>1, <1>2, <2>1, <2>2
    <2>4. \A k \in 1..m + 1 : o2[k] = s2[k + lo - 1]
      BY <1>2, <2>2, <2>3
    <2>5. \A k \in 1..m : k + lo - 1 \in 1..L /\ k \in 1..m + 1
      BY <2>1, <2>3
    <2>6. \A k \in 1..m : o2[k] = o[k]
      BY <2>1, <2>4, <2>5 DEF L
    <2>7. o2[m + 1] = c
      <3>1. (m + 1) + lo - 1 = L + 1 /\ m + 1 \in 1..m + 1
        BY <2>1, <2>3
      <3>2. QED
        BY <2>4, <3>1 DEF L
    <2>8. QED
      BY <2>3, <2>6, <2>7 DEF m, o, o2
  <1>5. QED
    BY <1>3, <1>4

\* Admission adds the command at the back of what is owed.
LEMMA AdmitOwed ==
  ASSUME NEW p, NEW sp, NEW s, NEW c \in PipelineCommand,
         Backlog(p, sp, s), ~p.failure, Committed(c)
  PROVE  LET o == Owed(sp, s)
             o2 == Owed(Extended(p, sp, s, c), Append(s, c))
         IN /\ Len(o2) = Len(o) + 1
            /\ \A k \in 1..Len(o) : o2[k] = o[k]
            /\ o2[Len(o2)] = c
  <1> DEFINE L == Len(s)
             p2 == Admit(p, c)
             sp2 == Extended(p, sp, s, c)
             s2 == Append(s, c)
  <1>1. /\ s \in Seq(PipelineCommand) /\ sp \in Seq(Interval)
        /\ p \in Pipeline /\ Len(sp) = Len(p.pending)
    BY DEF Backlog, Typed, Partition
  <1>2. Backlog(p2, sp2, s2)
    BY AdmitBacklog
  <1>3. /\ L \in Nat /\ Len(s2) = L + 1 /\ s2[L + 1] = c
        /\ \A k \in 1..L : s2[k] = s[k]
    BY <1>1
  <1>4. /\ sp2 # <<>>
        /\ sp = <<>> => sp2[1].lo = L + 1
        /\ sp # <<>> => sp2[1].lo = sp[1].lo
    <2>1. CASE Coalesces(p, c)
      <3>1. sp2 = [sp EXCEPT ![Len(sp)].hi = L + 1]
        BY <1>1, <2>1 DEF Extended
      <3>2. Len(sp) \in Nat \ {0} /\ sp[1] \in Interval /\ sp # <<>>
        BY <1>1, <2>1 DEF Coalesces, Pipeline
      <3>3. [sp[1] EXCEPT !.hi = L + 1].lo = sp[1].lo
        BY <3>2 DEF Interval
      <3>4. Len(sp2) = Len(sp)
            /\ (sp2[1] = sp[1] \/ sp2[1] = [sp[1] EXCEPT !.hi = L + 1])
        <4> DEFINE m == Len(sp)
                   x == [sp[m] EXCEPT !.hi = L + 1]
        <4>1. sp2 = [sp EXCEPT ![m] = x]
          BY <3>1
        <4> HIDE DEF x
        <4>2. m \in Nat \ {0} /\ Len(sp2) = m /\ sp2[1] = IF m = 1 THEN x ELSE sp[1]
          BY <1>1, <3>2, <4>1
        <4>3. QED
          BY <4>2 DEF x
      <3>5. QED
        BY <3>2, <3>3, <3>4
    <2>2. CASE ~Coalesces(p, c)
      <3>1. sp2 = Append(sp, [lo |-> L + 1, hi |-> L + 1])
        BY <1>1, <2>2 DEF Extended
      <3>2. QED
        BY <1>1, <3>1
    <2>3. QED
      BY <2>1, <2>2
  <1> HIDE DEF p2, sp2, s2
  <1>5. /\ Len(Owed(sp2, s2)) = Len(Owed(sp, s)) + 1
        /\ \A k \in 1..Len(Owed(sp, s)) : Owed(sp2, s2)[k] = Owed(sp, s)[k]
        /\ Owed(sp2, s2)[Len(Owed(sp2, s2))] = c
    BY <1>2, <1>3, <1>4, OwedGrows
  <1>6. QED
    BY <1>5, Zenon DEF sp2, s2

\* Starting the oldest entry serves the run of commands it stands for.
LEMMA StartServes ==
  ASSUME NEW p, NEW sp, NEW s, Backlog(p, sp, s), p.pending # <<>>
  PROVE  \E m \in 1..Len(Owed(sp, s)) :
           /\ IsRunOf(Owed(sp, s), m)
           /\ MergeOf(Owed(sp, s), 1, m) = Head(p.pending)
           /\ SubSeq(Owed(sp, s), m + 1, Len(Owed(sp, s))) = Owed(Tail(sp), s)
  <1> DEFINE lo == sp[1].lo
             hi == sp[1].hi
             L == Len(s)
             m == hi - lo + 1
             o == Owed(sp, s)
  <1>1. /\ p \in Pipeline /\ p.pending # <<>>
        /\ p.pending \in Seq(PipelineCommand)
        /\ sp \in Seq(Interval) /\ Len(sp) = Len(p.pending)
    BY DEF Backlog, Typed, Partition, Pipeline
  <1>2. sp # <<>> /\ Len(sp) \in Nat \ {0}
    BY <1>1
  <1>3. /\ s \in Seq(PipelineCommand)
        /\ lo \in 1..L /\ hi \in lo..L /\ L \in Nat
        /\ o = SubSeq(s, lo, L)
        /\ Len(o) = L - lo + 1
        /\ \A k \in 1..Len(o) : o[k] = s[k + lo - 1]
    BY <1>2, OwedMeaning
  <1>4. /\ m \in 1..Len(o)
        /\ \A k \in 1..m : k + lo - 1 \in lo..hi /\ k \in 1..Len(o)
    <2> HIDE DEF lo, hi, L, o
    <2>1. QED
      BY <1>3, Window
  <1>5. Head(p.pending) = MergeOf(o, 1, m)
    <2>1. p.pending[1] = MergeOf(s, lo, hi)
      BY <1>2 DEF Backlog, Faithful
    <2>2. Head(p.pending) = p.pending[1]
      BY <1>1
    <2>3. MergeOf(o, 1, m) = MergeOf(s, lo, hi)
      BY <1>3, MergedShift
    <2>4. QED
      BY <2>1, <2>2, <2>3
  <1>6. CASE Len(sp) = 1
    <2>1. hi = L
      BY <1>6 DEF Backlog, Partition
    <2>2. m = Len(o)
      BY <1>3, <2>1
    <2>3. Tail(sp) = <<>>
      <3> DEFINE rest == Tail(sp)
      <3>1. rest \in Seq(Interval) /\ Len(rest) = 0
        <4>1. sp \in Seq(Interval) /\ sp # <<>>
          BY <1>1, <1>2
        <4>2. rest \in Seq(Interval) /\ Len(rest) = Len(sp) - 1
          BY <4>1
        <4>3. QED
          BY <1>6, <4>2
      <3> HIDE DEF rest
      <3>2. rest = <<>>
        BY <3>1
      <3>3. QED
        BY <3>2 DEF rest
    <2>4. Owed(Tail(sp), s) = <<>> /\ SubSeq(o, m + 1, Len(o)) = <<>>
      <3>1. o \in Seq(PipelineCommand)
        BY <1>3
      <3>2. QED
        BY <2>2, <2>3, <3>1, <1>3 DEF Owed
    <2>5. IsRunOf(o, m)
      <3>1. CASE lo = hi
        <4>1. m = 1
          BY <1>3, <3>1
        <4>2. QED
          BY <2>2, <4>1 DEF IsRunOf
      <3>2. CASE lo # hi
        <4>1. \A k \in lo..hi : IsFrame(s[k])
          <5>1. lo < hi
            <6> HIDE DEF lo, hi, L
            <6>1. QED
              BY <1>3, <3>2
          <5>2. 1 \in 1..Len(sp)
            BY <1>2
          <5>3. QED
            BY <5>1, <5>2 DEF Backlog, Faithful
        <4>2. \A k \in 1..m : IsFrame(o[k])
          BY <1>3, <1>4, <4>1
        <4>3. QED
          BY <2>2, <4>2, <1>3 DEF IsRunOf
      <3>3. QED
        BY <3>1, <3>2
    <2>6. QED
      BY <1>4, <1>5, <2>4, <2>5
  <1>7. CASE Len(sp) # 1
    <2> DEFINE lo2 == sp[2].lo
               hi2 == sp[2].hi
    <2>1. 1 \in 1..Len(sp) /\ 2 \in 1..Len(sp) /\ Len(sp) # 1
      <3>1. \A n \in Nat \ {0} : n # 1 => 1 \in 1..n /\ 2 \in 1..n
        OBVIOUS
      <3>2. QED
        BY <1>2, <1>7, <3>1, Zenon
    <2>2. /\ hi = lo2 - 1 /\ lo2 \in 1..hi2 /\ hi2 <= L
          /\ lo2 \in Nat /\ hi2 \in Nat
      <3>1. sp[2] \in Interval
        BY <1>1, <2>1
      <3>2. QED
        BY <2>1, <3>1
        DEF Backlog, Partition, Inside, Interval
    <2>3. Tail(sp) # <<>> /\ Tail(sp)[1] = sp[2]
      BY <1>1, <2>1
    <2>4. Owed(Tail(sp), s) = SubSeq(s, lo2, L)
      BY <1>1, <2>3 DEF Owed
    <2>5. SubSeq(o, m + 1, Len(o)) = SubSeq(s, lo2, L)
      <3> HIDE DEF lo, hi, lo2, hi2
      <3>1. m + 1 = hi - lo + 2 /\ lo2 = hi + 1
        BY <1>3, <2>2
      <3>2. QED
        BY <1>3, <3>1, TailAfter
    <2>6. IsRunOf(o, m)
      <3>1. \A k \in 1..m : k + lo - 1 \in lo..hi /\ k \in 1..Len(o)
        BY <1>4
      <3>2. o[m + 1] = s[lo2]
        <4>1. m + 1 \in 1..Len(o) /\ (m + 1) + lo - 1 = lo2
          <5> HIDE DEF lo, hi, L, lo2, hi2
          <5>1. hi < L /\ lo2 = hi + 1
            BY <1>3, <2>2
          <5>2. QED
            BY <1>3, <5>1, Window
        <4>2. QED
          BY <1>3, <4>1
      <3>3. CASE IsFrame(s[hi])
        <4>1. IsFrame(p.pending[1])
          BY <2>1, <3>3, MergedKind DEF Backlog, Faithful
        <4>2. ~IsFrame(p.pending[2])
          BY <1>1, <2>1, <4>1 DEF Backlog, FramesApart
        <4>3. ~IsFrame(s[hi2])
          BY <2>1, <4>2, MergedKind DEF Backlog, Faithful
        <4>4. lo2 = hi2
          <5>1. SUFFICES ASSUME lo2 < hi2 PROVE FALSE
            BY <2>2
          <5>2. IsFrame(s[hi2])
            BY <2>1, <2>2, <5>1 DEF Backlog, Faithful
          <5>3. QED
            BY <4>3, <5>2
        <4>5. \A k \in lo..hi : IsFrame(s[k])
          <5>1. CASE lo < hi
            BY <2>1, <5>1 DEF Backlog, Faithful
          <5>2. CASE lo = hi
            BY <3>3, <5>2, <1>3
          <5>3. QED
            BY <1>3, <5>1, <5>2
        <4>6. \A k \in 1..m : IsFrame(o[k])
          BY <1>3, <3>1, <4>5
        <4>7. QED
          BY <3>2, <4>3, <4>4, <4>6 DEF IsRunOf
      <3>4. CASE ~IsFrame(s[hi])
        <4>1. lo = hi
          <5>1. SUFFICES ASSUME lo < hi PROVE FALSE
            BY <1>3
          <5>2. IsFrame(s[hi])
            BY <1>3, <2>1, <5>1 DEF Backlog, Faithful
          <5>3. QED
            BY <3>4, <5>2
        <4>2. m = 1 /\ o[1] = s[lo]
          BY <1>3, <4>1
        <4>3. QED
          BY <3>4, <4>1, <4>2 DEF IsRunOf
      <3>5. QED
        BY <3>3, <3>4
    <2>7. QED
      BY <1>4, <1>5, <2>4, <2>5, <2>6
  <1>8. QED
    BY <1>6, <1>7

=============================================================================
