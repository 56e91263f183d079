---------------------------- MODULE MCRasterThread ----------------------------
(***************************************************************************)
(* Instances of RasterThread for TLC: two layers, of which one is a scroll *)
(* view, three commits that differ in every field coalescing merges, and   *)
(* two kinds of barrier.                                                   *)
(***************************************************************************)
EXTENDS RasterThread

CONSTANTS l1, l2

MCLayer == {l1, l2}

MCScrollLayer == {l2}

Changed(content, chrome) ==
  [f \in Fact |-> IF f = "content" THEN content
                  ELSE IF f = "chrome" THEN chrome ELSE {}]

\* A clean continuation frame, a content change of the scroll view in a frame
\* that still has work, and a chrome change after the scroll view is gone.
MCCommit ==
  {[layers |-> {l1, l2}, changed |-> Changed({}, {}), work |-> FALSE],
   [layers |-> {l1, l2}, changed |-> Changed({l2}, {}), work |-> TRUE],
   [layers |-> {l1}, changed |-> Changed({l1}, {l1}), work |-> FALSE]}


=============================================================================
