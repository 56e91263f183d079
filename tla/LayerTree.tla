----------------------------- MODULE LayerTree -----------------------------
(***************************************************************************)
(* What the core half and the compositor half of layered painting share:   *)
(* the element tree, the scroll views in it, and the shape of one          *)
(* committed frame (core/src/layer_topology, scroll_geometry.rs).  A layer *)
(* is named by the element that opens it.                                  *)
(***************************************************************************)
EXTENDS Naturals, Sequences, FiniteSets

CONSTANTS
  Elements,     \* ids an element may have
  Root,         \* the root of the document, always a layer
  ScrollViews,  \* elements of kind ScrollView
  Rank,         \* paint order of the elements
  MaxTop,       \* largest scroll offset
  Overscan,     \* tops a raster band covers on either side of the visible one
  Matrices      \* transforms an element may carry

ASSUME LayerTreeAssumption ==
  /\ Root \in Elements
  /\ ScrollViews \subseteq Elements \ {Root}
  /\ MaxTop \in Nat
  /\ Overscan \in Nat
  /\ Rank \in [Elements -> Nat]
  /\ Matrices # {}

Tops == 0 .. MaxTop

\* The band rasterized around a visible top, as the tops it covers: a top is
\* covered when the viewport placed there lies inside the texture.
Band(top) == {t \in Tops : t <= top + Overscan /\ top <= t + Overscan}

\* Where a layer goes: its own transform, and how far each scroll view around
\* it is scrolled.
Place == [matrix: Matrices, scroll: [ScrollViews -> Tops]]

\* One committed frame: its layers, the elements each layer draws, where each
\* layer is placed, and the scroll offset of every scroll view.
Frame == [layers: SUBSET Elements,
          drawn: [Elements -> SUBSET Elements],
          place: [Elements -> Place],
          top: [ScrollViews -> Tops]]

\* The layers and where they go: what a placement plan is made of.
Placements(f) == [l \in f.layers |-> f.place[l]]

=============================================================================
