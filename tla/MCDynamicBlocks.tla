-------------------------- MODULE MCDynamicBlocks --------------------------
(* Two parents: one whose :each has an :if after it, one whose :each is     *)
(* between an :if and a static element.  The lists grow, shrink, reorder,   *)
(* change values and repeat a key.                                          *)
EXTENDS DynamicBlocks

MCTemplates == {<<"each", "if">>, <<"if", "each", "element">>}

A(v) == [key |-> "a", val |-> v]
B(v) == [key |-> "b", val |-> v]
C(v) == [key |-> "c", val |-> v]

MCLists ==
  {<<>>, <<A("x"), B("x")>>, <<A("y"), B("x")>>, <<B("y"), A("x")>>,
   <<C("x"), A("x"), B("x")>>, <<C("x"), B("x")>>,
   <<A("x"), A("x")>>, <<A("x"), B("x"), A("y")>>}
=============================================================================
