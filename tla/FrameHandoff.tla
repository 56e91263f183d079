----------------------------- MODULE FrameHandoff -----------------------------
(***************************************************************************)
(* What ADR-0157 promises of a frame hand-off, whatever thread, Worker or  *)
(* GPU promise executes it.  Nothing is coalesced here: every accepted     *)
(* command stays outstanding until it is served, and serving takes either  *)
(* the barrier at the head or the whole run of frames up to the next       *)
(* barrier.  What is served for a run is the last frame of the run,        *)
(* carrying the changes of all of them.  A failure is terminal and         *)
(* discards what is outstanding; a close stops admission only.             *)
(***************************************************************************)
EXTENDS FramePipeline

VARIABLES
  outstanding,   \* accepted commands not yet served, oldest first
  serving,       \* the command being executed, or Nothing
  phase          \* "open", "closed" or "failed"

vars == <<outstanding, serving, phase>>

Nothing == [kind |-> "Nothing", frame |-> NoFrame, barrier |-> NoBarrier]

\* The command that stands for the accepted commands s[lo] .. s[hi]: a lone
\* barrier stands for itself, a run of frames for its last frame with every
\* fact any of them carried.
Merged(s, lo, hi) ==
  IF ~IsFrame(s[hi]) THEN s[hi]
  ELSE Frame(
         [scene  |-> s[hi].frame.scene,
          layers |-> s[hi].frame.layers,
          changed |-> [f \in Fact |->
                         UNION {s[k].frame.changed[f] : k \in lo..hi}],
          scroll |-> s[hi].frame.scroll,
          contentDirty |-> s[hi].frame.scroll \cap
                         UNION {s[k].frame.changed["content"] : k \in lo..hi},
          work   |-> \E k \in lo..hi : s[k].frame.work])

\* The length of the longest prefix one service may take.
IsRun(s, n) ==
  \/ n = 1 /\ ~IsFrame(s[1])
  \/ /\ \A k \in 1..n : IsFrame(s[k])
     /\ n < Len(s) => ~IsFrame(s[n + 1])

Init ==
  /\ outstanding = <<>>
  /\ serving = Nothing
  /\ phase = "open"

\* Any command of the interface joins at the back.
Submit ==
  /\ phase = "open"
  /\ Len(outstanding') = Len(outstanding) + 1
  /\ \A k \in 1..Len(outstanding) : outstanding'[k] = outstanding[k]
  /\ outstanding'[Len(outstanding')] \in PipelineCommand
  /\ UNCHANGED <<serving, phase>>

ServeFrom(s) ==
  /\ phase # "failed"
  /\ \E n \in 1..Len(s) :
       /\ IsRun(s, n)
       /\ serving' = Merged(s, 1, n)
       /\ outstanding' = SubSeq(s, n + 1, Len(s))
  /\ UNCHANGED phase

Serve == serving = Nothing /\ ServeFrom(outstanding)

Finish ==
  /\ serving # Nothing
  /\ serving' = Nothing
  /\ UNCHANGED <<outstanding, phase>>

Terminate ==
  /\ serving' = Nothing
  /\ outstanding' = <<>>
  /\ phase' = "failed"

Close ==
  /\ phase = "open"
  /\ phase' = "closed"
  /\ UNCHANGED <<outstanding, serving>>

Next ==
  \/ Submit
  \/ Serve
  \/ Finish
  \/ Terminate
  \/ Close

Spec == Init /\ [][Next]_vars

\* An adapter without a thread of its own starts commands within the turn
\* that makes them startable: what it accepts while idle, it serves at once,
\* and it serves the next command when it finishes one.
AcceptAndServe ==
  /\ phase = "open"
  /\ serving = Nothing
  /\ outstanding = <<>>
  /\ serving' \in PipelineCommand
  /\ UNCHANGED <<outstanding, phase>>

FinishAndServe == serving # Nothing /\ ServeFrom(outstanding)

TurnSpec == Init /\ [][Next \/ AcceptAndServe \/ FinishAndServe]_vars
=============================================================================
