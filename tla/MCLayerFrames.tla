--------------------------- MODULE MCLayerFrames ---------------------------
(* A document of four elements: a box and a scroll view under the root, and *)
(* an item in the scroll view.                                              *)
EXTENDS LayerFrames, TLC

CONSTANTS root, box, list, item, plain, slid, turned

MCElements == {root, box, list, item}
MCScrollViews == {list}
MCParent == (box :> root) @@ (list :> root) @@ (item :> list)
MCRank == (root :> 0) @@ (box :> 1) @@ (list :> 2) @@ (item :> 3)
MCLateSets == {{}, {item}}
MCMatrices == {plain, slid, turned}

=============================================================================
