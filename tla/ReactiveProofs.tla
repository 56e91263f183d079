--------------------------- MODULE ReactiveProofs ---------------------------
(***************************************************************************)
(* Proofs about Reactive, for every application: what a closure does is    *)
(* its code, of which nothing is assumed but what the handles it holds     *)
(* allow (AppAssumption).                                                  *)
(*                                                                         *)
(* The argument goes up in layers, each an invariant of its own: the data  *)
(* and the calls in progress have their types (TypeInv); links agree       *)
(* (LinksAgree); what may be called above what, and what is marked         *)
(* meanwhile (CallsInv); what is out of date is marked (MarksInv); a memo  *)
(* holds what its code yields from the sources it is linked to             *)
(* (RunsFromSources, MemosYield), which meets the reference definition of  *)
(* the specification, Result.  ReactiveEffectsProofs goes on with effects  *)
(* and scopes.                                                             *)
(***************************************************************************)
EXTENDS Reactive, TLAPS, WellFoundedInduction

-----------------------------------------------------------------------------
(* Lists. *)

\* A set of numbers that holds 0 and every successor holds every number.
LEMMA NatSetInduction ==
  ASSUME NEW S, 0 \in S, \A n \in Nat : n \in S => n + 1 \in S
  PROVE  Nat \subseteq S
  <1> DEFINE Missing == {n \in Nat : n \notin S}
  <1>1. ASSUME Missing # {} PROVE FALSE
    <2>1. Missing \subseteq Nat /\ Missing # {}
      BY <1>1
    <2>2. \A n \in Missing : n \in Nat /\ n \notin S /\ n # 0
      OBVIOUS
    <2>3. \A n \in Nat : n \notin S => n \in Missing
      OBVIOUS
    <2> HIDE DEF Missing
    <2>4. PICK x \in Missing : \A y \in Missing : ~(<<y, x>> \in OpToRel(<, Nat))
      BY <2>1, NatLessThanWellFounded, WFMin
    <2>5. \A y \in Missing : ~(y < x)
      BY <2>2, <2>4 DEF OpToRel
    <2>6. x - 1 \in Nat /\ x - 1 < x /\ (x - 1) + 1 = x
      BY <2>2
    <2>7. x - 1 \in Missing
      BY <2>2, <2>3, <2>6
    <2> QED
      BY <2>5, <2>6, <2>7
  <1> QED
    BY <1>1

\* What Living computes, one element after the other.
Kept(f, s, dead) ==
  f = [i \in 0..Len(s) |->
         IF i = 0 THEN <<>>
         ELSE IF s[i] \in dead THEN f[i - 1] ELSE Append(f[i - 1], s[i])]

\* There is such a function: it can be extended by one element.
LEMMA KeptExists ==
  ASSUME NEW T, NEW s \in Seq(T), NEW dead
  PROVE  \E f : Kept(f, s, dead)
  <1> DEFINE Upto(f, k) ==
               f = [i \in 0..k |->
                      IF i = 0 THEN <<>>
                      ELSE IF s[i] \in dead THEN f[i - 1]
                           ELSE Append(f[i - 1], s[i])]
             Reached == {k \in Nat : k > Len(s) \/ \E f : Upto(f, k)}
  <1>1. 0 \in Reached
    <2>1. Upto([i \in 0..0 |-> <<>>], 0)
      OBVIOUS
    <2> QED
      BY <2>1
  <1>2. ASSUME NEW k \in Nat, k \in Reached PROVE k + 1 \in Reached
    <2>1. CASE k + 1 > Len(s)
      BY <2>1
    <2>2. CASE ~(k + 1 > Len(s))
      <3>a. ~(k > Len(s))
        BY <2>2
      <3>b. \E f : Upto(f, k)
        <4> HIDE DEF Upto
        <4> QED
          BY <1>2, <3>a
      <3>1. PICK f : Upto(f, k)
        BY <3>b
      <3> DEFINE next == IF s[k + 1] \in dead THEN f[k] ELSE Append(f[k], s[k + 1])
                 g == [i \in 0..(k + 1) |-> IF i = k + 1 THEN next ELSE f[i]]
      <3>2. \A i \in 0..k : g[i] = f[i]
        OBVIOUS
      <3>3. \A i \in 0..k : f[i] = IF i = 0 THEN <<>>
                                   ELSE IF s[i] \in dead THEN f[i - 1]
                                        ELSE Append(f[i - 1], s[i])
        BY <3>1
      <3>4. \A i \in 0..k : i # 0 => i - 1 \in 0..k
        OBVIOUS
      <3>5. g[k + 1] = next /\ g[k] = f[k]
        OBVIOUS
      <3> HIDE DEF next, g
      <3>6. \A i \in 0..(k + 1) :
              g[i] = IF i = 0 THEN <<>>
                     ELSE IF s[i] \in dead THEN g[i - 1] ELSE Append(g[i - 1], s[i])
        <4>1. SUFFICES ASSUME NEW i \in 0..(k + 1)
              PROVE g[i] = IF i = 0 THEN <<>>
                           ELSE IF s[i] \in dead THEN g[i - 1]
                                ELSE Append(g[i - 1], s[i])
          OBVIOUS
        <4>2. CASE i = k + 1
          <5>1. i # 0 /\ i - 1 = k /\ s[i] = s[k + 1]
            BY <4>2
          <5> QED
            BY <5>1, <3>5, <4>2 DEF next
        <4>3. CASE i # k + 1
          <5>1. i \in 0..k
            BY <4>3
          <5> QED
            BY <5>1, <3>2, <3>3, <3>4
        <4> QED
          BY <4>2, <4>3
      <3>7. g = [i \in 0..(k + 1) |-> g[i]]
        BY DEF g
      <3>8. Upto(g, k + 1)
        BY <3>6, <3>7
      <3> QED
        BY <3>8
    <2> QED
      BY <2>1, <2>2
  <1> HIDE DEF Reached
  <1>3. Nat \subseteq Reached
    BY <1>1, <1>2, NatSetInduction
  <1>4. Len(s) \in Nat /\ ~(Len(s) > Len(s))
    OBVIOUS
  <1>5. \E f : Upto(f, Len(s))
    BY <1>3, <1>4 DEF Reached
  <1> QED
    BY <1>5 DEF Kept

\* The list keeps its other elements, and none twice that was there once.
LEMMA LivingList ==
  ASSUME NEW T, NEW s \in Seq(T), NEW dead
  PROVE  /\ Living(s, dead) \in Seq(T)
         /\ \A x : Contains(Living(s, dead), x) <=> Contains(s, x) /\ x \notin dead
         /\ IsInjective(s) => IsInjective(Living(s, dead))
  <1> DEFINE f == CHOOSE f : Kept(f, s, dead)
  <1>1. Kept(f, s, dead)
    BY KeptExists
  <1>2. Living(s, dead) = f[Len(s)]
    BY DEF Living, Kept
  <1> HIDE DEF f
  <1>3. f[0] = <<>>
    BY <1>1 DEF Kept
  <1>4. \A i \in 1..Len(s) :
          f[i] = IF s[i] \in dead THEN f[i - 1] ELSE Append(f[i - 1], s[i])
    <2>1. \A i \in 0..Len(s) :
            f[i] = IF i = 0 THEN <<>>
                   ELSE IF s[i] \in dead THEN f[i - 1] ELSE Append(f[i - 1], s[i])
      BY <1>1, Zenon DEF Kept
    <2>2. \A i \in 1..Len(s) : i \in 0..Len(s) /\ i # 0
      OBVIOUS
    <2> QED
      BY <2>1, <2>2, Zenon
  <1> DEFINE Good(k) ==
               /\ f[k] \in Seq(T)
               /\ \A x : (\E j \in 1..Len(f[k]) : f[k][j] = x)
                         <=> (\E j \in 1..k : s[j] = x) /\ x \notin dead
               /\ IsInjective(s) =>
                    \A a, b \in 1..Len(f[k]) : f[k][a] = f[k][b] => a = b
             Reached == {k \in Nat : k > Len(s) \/ Good(k)}
  <1>5. 0 \in Reached
    <2>1. f[0] \in Seq(T) /\ Len(f[0]) = 0 /\ 1..0 = {}
      BY <1>3
    <2>2. Good(0)
      BY <2>1
    <2> QED
      BY <2>2
  <1>6. ASSUME NEW k \in Nat, k \in Reached PROVE k + 1 \in Reached
    <2>1. CASE k + 1 > Len(s)
      BY <2>1
    <2>2. CASE ~(k + 1 > Len(s))
      <3> DEFINE l == f[k]
                 x1 == s[k + 1]
                 l1 == f[k + 1]
      <3>1. /\ l \in Seq(T)
            /\ \A x : (\E j \in 1..Len(l) : l[j] = x)
                      <=> (\E j \in 1..k : s[j] = x) /\ x \notin dead
            /\ IsInjective(s) =>
                    \A a, b \in 1..Len(l) : l[a] = l[b] => a = b
        BY <1>6, <2>2
      <3>2. k + 1 \in 1..Len(s) /\ (k + 1) - 1 = k
        BY <2>2
      <3>3. l1 = IF x1 \in dead THEN l ELSE Append(l, x1)
        BY <1>4, <3>2
      <3>4. x1 \in T
        BY <3>2
      <3>5. \A x : (\E j \in 1..(k + 1) : s[j] = x)
                   <=> (\E j \in 1..k : s[j] = x) \/ x = x1
        OBVIOUS
      <3>6. IsInjective(s) => ~\E j \in 1..k : s[j] = x1
        BY <3>2 DEF IsInjective
      <3> HIDE DEF l, x1, l1
      <3>7. /\ l1 \in Seq(T)
            /\ \A x : (\E j \in 1..Len(l1) : l1[j] = x)
                      <=> (\E j \in 1..(k + 1) : s[j] = x) /\ x \notin dead
            /\ IsInjective(s) =>
                    \A a, b \in 1..Len(l1) : l1[a] = l1[b] => a = b
        <4>1. CASE x1 \in dead
          BY <4>1, <3>1, <3>3, <3>5
        <4>2. CASE x1 \notin dead
          <5>1. /\ l1 \in Seq(T) /\ Len(l1) = Len(l) + 1 /\ l1[Len(l) + 1] = x1
                /\ \A j \in 1..Len(l) : l1[j] = l[j]
                /\ Len(l) \in Nat
            BY <4>2, <3>1, <3>3, <3>4
          <5>2. \A x : (\E j \in 1..Len(l1) : l1[j] = x)
                       <=> (\E j \in 1..Len(l) : l[j] = x) \/ x = x1
            BY <5>1
          <5>3. ASSUME IsInjective(s), NEW a \in 1..Len(l1), NEW b \in 1..Len(l1),
                       l1[a] = l1[b]
                PROVE  a = b
            <6>1. ~\E j \in 1..Len(l) : l[j] = x1
              BY <5>3, <3>1, <3>6
            <6>2. \A j \in 1..Len(l1) : j \in 1..Len(l) \/ j = Len(l) + 1
              BY <5>1
            <6> QED
              BY <5>1, <5>3, <6>1, <6>2, <3>1
          <5> QED
            BY <4>2, <5>1, <5>2, <5>3, <3>1, <3>5
        <4> QED
          BY <4>1, <4>2
      <3> QED
        BY <3>7 DEF l1
    <2> QED
      BY <2>1, <2>2
  <1> HIDE DEF Reached
  <1>7. Nat \subseteq Reached
    BY <1>5, <1>6, NatSetInduction
  <1>8. Good(Len(s))
    <2>1. Len(s) \in Nat /\ ~(Len(s) > Len(s))
      OBVIOUS
    <2> QED
      BY <1>7, <2>1 DEF Reached
  <1> DEFINE l == Living(s, dead)
  <1>9. /\ l \in Seq(T)
        /\ \A x : (\E j \in 1..Len(l) : l[j] = x)
                  <=> (\E j \in 1..Len(s) : s[j] = x) /\ x \notin dead
        /\ IsInjective(s) => \A a, b \in 1..Len(l) : l[a] = l[b] => a = b
    BY <1>2, <1>8
  <1> HIDE DEF l
  <1>10. DOMAIN l = 1..Len(l)
    BY <1>9
  <1>11. IsInjective(s) => IsInjective(l)
    BY <1>9, <1>10 DEF IsInjective
  <1>12. \A x : Contains(l, x) <=> Contains(s, x) /\ x \notin dead
    BY <1>9 DEF Contains
  <1> QED
    BY <1>9, <1>11, <1>12 DEF l

\* Calling on top of a stack, and returning from it.
LEMMA Pushed ==
  ASSUME NEW T, NEW f \in T, NEW s \in Seq(T)
  PROVE  /\ <<f>> \o s \in Seq(T) /\ Len(<<f>> \o s) = Len(s) + 1
         /\ (<<f>> \o s)[1] = f
         /\ \A i \in 1..Len(s) : (<<f>> \o s)[i + 1] = s[i]
         /\ \A i \in 2..(Len(s) + 1) : (<<f>> \o s)[i] = s[i - 1]
  OBVIOUS

LEMMA Popped ==
  ASSUME NEW T, NEW s \in Seq(T), s # <<>>
  PROVE  /\ Head(s) \in T /\ Head(s) = s[1]
         /\ Tail(s) \in Seq(T) /\ Len(s) = Len(Tail(s)) + 1
         /\ \A i \in 1..Len(Tail(s)) : Tail(s)[i] = s[i + 1]
  OBVIOUS

-----------------------------------------------------------------------------
(* Types.  A call in progress is about a thing of the kind its op says; a   *)
(* batch is only ever the host's, at the bottom of the stack.              *)

TypedFrame ==
  {f \in Frame :
     /\ f.pc >= 1
     /\ f.op \in {"visit", "settle", "run"} => f.of \in Node
     /\ f.op \in {"handler", "batch"} => f.of \in Handler
     /\ f.op \in {"visit", "flush"} => f.todo \in Seq(Node)
     /\ f.op = "dispose" =>
          /\ f.of \in Scope
          /\ f.pc = 1 => f.todo \in Seq(Scope)
          /\ f.pc # 1 => f.todo \in Seq(Handler)}

BatchAtBottom(s, d) ==
  /\ \A i \in 1..Len(s) : s[i].op = "batch" => i = Len(s)
  /\ d = IF s # <<>> /\ s[Len(s)].op = "batch" THEN 1 ELSE 0

TypeInv == TypeOK /\ stack \in Seq(TypedFrame) /\ BatchAtBottom(stack, depth)

\* What is known of a call in progress.
LEMMA FrameFields ==
  ASSUME NEW f \in TypedFrame
  PROVE  /\ f \in Frame /\ f.pc \in Nat /\ f.pc >= 1 /\ f.acc \in Value
         /\ f.op \in {"flush", "visit", "settle", "run", "handler", "batch", "dispose"}
         /\ f.prev \in Node \cup {None}
         /\ f.todo \in Seq(Node \cup Scope \cup Handler)
         /\ f.op \in {"visit", "settle", "run"} => f.of \in Node
         /\ f.op \in {"handler", "batch"} => f.of \in Handler
         /\ f.op \in {"visit", "flush"} => f.todo \in Seq(Node)
         /\ f.op = "dispose" =>
              /\ f.of \in Scope
              /\ f.pc = 1 => f.todo \in Seq(Scope)
              /\ f.pc # 1 => f.todo \in Seq(Handler)
  BY DEF TypedFrame, Frame

LEMMA ZeroIsValue == 0 \in Value /\ NoValue \notin Value /\ Value \subseteq Nat
  BY BoundsAssumption DEF Value, NoValue

\* The frames the program makes.
LEMMA NewFrames ==
  /\ \A n \in Node : /\ NewFrame("visit", n, <<>>) \in TypedFrame
                     /\ NewFrame("settle", n, <<>>) \in TypedFrame
                     /\ \A t \in Seq(Node) : NewFrame("visit", n, t) \in TypedFrame
  /\ \A n \in Node, p \in Node \cup {None} :
       [NewFrame("run", n, <<>>) EXCEPT !.prev = p] \in TypedFrame
  /\ NewFrame("flush", None, <<>>) \in TypedFrame
  /\ \A h \in Handler : /\ NewFrame("handler", h, <<>>) \in TypedFrame
                        /\ \A op \in {"handler", "batch"}, v \in Value :
                             [NewFrame(op, h, <<>>) EXCEPT !.acc = v] \in TypedFrame
  /\ \A s \in Scope, t \in Seq(Scope) : NewFrame("dispose", s, t) \in TypedFrame
  <1> DEFINE Thing == Node \cup Scope \cup Handler
  <1>1. <<>> \in Seq(Thing) /\ <<>> \in Seq(Node) /\ <<>> \in Seq(Scope) /\ <<>> \in Seq(Handler)
    OBVIOUS
  <1>2. \A t \in Seq(Node) : t \in Seq(Thing)
    OBVIOUS
  <1>3. \A t \in Seq(Scope) : t \in Seq(Thing)
    OBVIOUS
  <1>4. 1 \in Nat /\ 1 >= 1 /\ 0 \in Value /\ None \in Thing \cup {None}
    BY ZeroIsValue
  <1> DEFINE seqThing == Seq(Thing)
             seqNode == Seq(Node)
             seqScope == Seq(Scope)
             seqHandler == Seq(Handler)
  <1>5. Frame = [op: {"flush", "visit", "settle", "run", "handler", "batch", "dispose"},
                 of: Thing \cup {None}, pc: Nat, acc: Value, todo: seqThing,
                 prev: Node \cup {None}]
    BY DEF Frame
  <1>6. TypedFrame = {f \in Frame :
     /\ f.pc >= 1
     /\ f.op \in {"visit", "settle", "run"} => f.of \in Node
     /\ f.op \in {"handler", "batch"} => f.of \in Handler
     /\ f.op \in {"visit", "flush"} => f.todo \in seqNode
     /\ f.op = "dispose" =>
          /\ f.of \in Scope
          /\ f.pc = 1 => f.todo \in seqScope
          /\ f.pc # 1 => f.todo \in seqHandler}
    BY DEF TypedFrame
  <1>7. /\ <<>> \in seqThing /\ <<>> \in seqNode /\ <<>> \in seqScope /\ <<>> \in seqHandler
        /\ seqNode \subseteq seqThing /\ seqScope \subseteq seqThing
    BY <1>1, <1>2, <1>3
  <1> HIDE DEF seqThing, seqNode, seqScope, seqHandler
  <1>8. \A n \in Node, t \in seqNode : NewFrame("visit", n, t) \in TypedFrame
    BY <1>4, <1>5, <1>6, <1>7 DEF NewFrame
  <1>9. \A n \in Node : NewFrame("settle", n, <<>>) \in TypedFrame
    BY <1>4, <1>5, <1>6, <1>7 DEF NewFrame
  <1>10. \A n \in Node, p \in Node \cup {None} :
            [NewFrame("run", n, <<>>) EXCEPT !.prev = p] \in TypedFrame
    BY <1>4, <1>5, <1>6, <1>7 DEF NewFrame
  <1>11. NewFrame("flush", None, <<>>) \in TypedFrame
    BY <1>4, <1>5, <1>6, <1>7 DEF NewFrame
  <1>12. \A h \in Handler : NewFrame("handler", h, <<>>) \in TypedFrame
    BY <1>4, <1>5, <1>6, <1>7 DEF NewFrame
  <1>13. \A h \in Handler, op \in {"handler", "batch"}, v \in Value :
            [NewFrame(op, h, <<>>) EXCEPT !.acc = v] \in TypedFrame
    BY <1>4, <1>5, <1>6, <1>7 DEF NewFrame
  <1>14. \A s \in Scope, t \in seqScope : NewFrame("dispose", s, t) \in TypedFrame
    BY <1>4, <1>5, <1>6, <1>7 DEF NewFrame
  <1> QED
    BY <1>7, <1>8, <1>9, <1>10, <1>11, <1>12, <1>13, <1>14 DEF seqNode, seqScope

\* The innermost call goes on: what it was about stays.
LEMMA FrameGoesOn ==
  ASSUME NEW f \in TypedFrame
  PROVE  /\ \A k \in Nat : [f EXCEPT !.pc = @ + 1 + k] \in Frame
         /\ f.op \in {"run", "handler", "batch"} => \A k \in Nat, v \in Value :
              /\ [f EXCEPT !.pc = @ + 1 + k] \in TypedFrame
              /\ [[f EXCEPT !.pc = @ + 1 + k] EXCEPT !.acc = v] \in TypedFrame
         /\ f.op \in {"visit", "flush"} => \A t \in Seq(Node) :
              [f EXCEPT !.todo = t] \in TypedFrame
         /\ f.op = "dispose" /\ f.pc = 1 => \A t \in Seq(Scope) :
              [f EXCEPT !.todo = t] \in TypedFrame
         /\ f.op = "dispose" => \A t \in Seq(Handler) :
              /\ [f EXCEPT !.pc = 2, !.todo = t] \in TypedFrame
              /\ f.pc # 1 => [f EXCEPT !.todo = t] \in TypedFrame
  <1> DEFINE Thing == Node \cup Scope \cup Handler
             seqThing == Seq(Thing)
             seqNode == Seq(Node)
             seqScope == Seq(Scope)
             seqHandler == Seq(Handler)
  <1>5. Frame = [op: {"flush", "visit", "settle", "run", "handler", "batch", "dispose"},
                 of: Thing \cup {None}, pc: Nat, acc: Value, todo: seqThing,
                 prev: Node \cup {None}]
    BY DEF Frame
  <1>6. TypedFrame = {g \in Frame :
     /\ g.pc >= 1
     /\ g.op \in {"visit", "settle", "run"} => g.of \in Node
     /\ g.op \in {"handler", "batch"} => g.of \in Handler
     /\ g.op \in {"visit", "flush"} => g.todo \in seqNode
     /\ g.op = "dispose" =>
          /\ g.of \in Scope
          /\ g.pc = 1 => g.todo \in seqScope
          /\ g.pc # 1 => g.todo \in seqHandler}
    BY DEF TypedFrame
  <1>7. \A t : t \in seqNode \/ t \in seqScope \/ t \in seqHandler => t \in seqThing
    OBVIOUS
  <1> HIDE DEF seqThing, seqNode, seqScope, seqHandler
  <1>1. f.pc \in Nat /\ f.pc >= 1 /\ f \in Frame
    BY <1>5, <1>6
  <1>2. \A k \in Nat : f.pc + 1 + k \in Nat /\ f.pc + 1 + k >= 1
    BY <1>1
  <1>3. \A k \in Nat : [f EXCEPT !.pc = @ + 1 + k] \in Frame
    BY <1>1, <1>2, <1>5
  <1>4. f.op \in {"run", "handler", "batch"} => \A k \in Nat, v \in Value :
              /\ [f EXCEPT !.pc = @ + 1 + k] \in TypedFrame
              /\ [[f EXCEPT !.pc = @ + 1 + k] EXCEPT !.acc = v] \in TypedFrame
    BY <1>1, <1>2, <1>5, <1>6
  <1>8. f.op \in {"visit", "flush"} => \A t \in seqNode :
              [f EXCEPT !.todo = t] \in TypedFrame
    BY <1>1, <1>5, <1>6, <1>7
  <1>9. f.op = "dispose" /\ f.pc = 1 => \A t \in seqScope :
              [f EXCEPT !.todo = t] \in TypedFrame
    BY <1>1, <1>5, <1>6, <1>7
  <1>10. f.op = "dispose" => \A t \in seqHandler :
              [f EXCEPT !.pc = 2, !.todo = t] \in TypedFrame
    <2>1. SUFFICES ASSUME f.op = "dispose", NEW t \in seqHandler
          PROVE [f EXCEPT !.pc = 2, !.todo = t] \in TypedFrame
      OBVIOUS
    <2> DEFINE g == [f EXCEPT !.pc = 2, !.todo = t]
    <2>2. g \in Frame
      BY <1>1, <1>5, <1>7
    <2>3. g.op = "dispose" /\ g.of = f.of /\ g.pc = 2 /\ g.todo = t
      BY <1>1, <1>5, <2>1
    <2>4. f.of \in Scope
      BY <2>1, <1>6
    <2> HIDE DEF g
    <2>5. g \in TypedFrame
      BY <2>2, <2>3, <2>4, <1>6
    <2> QED
      BY <2>5 DEF g
  <1>11. f.op = "dispose" => \A t \in seqHandler :
              f.pc # 1 => [f EXCEPT !.todo = t] \in TypedFrame
    BY <1>1, <1>5, <1>6, <1>7
  <1> QED
    BY <1>3, <1>4, <1>8, <1>9, <1>10, <1>11 DEF seqNode, seqScope, seqHandler

StackType(s, d) == s \in Seq(TypedFrame) /\ BatchAtBottom(s, d)

\* TypeOK without the stack.
StoreType ==
  /\ app \in App
  /\ state \in [Node -> NodeState]
  /\ value \in [Node -> Value \cup {NoValue}]
  /\ sources \in [Node -> Seq(Node)]
  /\ observers \in [Node -> Seq(Node)]
  /\ ready \subseteq Node
  /\ alive \subseteq Node
  /\ scopes \in [Scope -> ScopeRecord]
  /\ observer \in Node \cup {None}
  /\ pending \in Seq(Node)
  /\ depth \in Nat
  /\ agenda \in Seq(Mark)
  /\ panicked \in BOOLEAN
  /\ shown \in [Node -> Value \cup {NoValue}]
  /\ runs \in [Node -> Nat]
  /\ events \in Nat
  /\ batched \in BOOLEAN

LEMMA TypeInvParts == TypeInv <=> StoreType /\ StackType(stack, depth)
  <1>1. \A s \in Seq(TypedFrame) : s \in Seq(Frame)
    <2>1. TypedFrame \subseteq Frame
      BY DEF TypedFrame
    <2> HIDE DEF TypedFrame
    <2> QED
      BY <2>1
  <1> QED
    BY <1>1 DEF TypeInv, TypeOK, StoreType, StackType

LEMMA StackPush ==
  ASSUME NEW s, NEW d, StackType(s, d), NEW f \in TypedFrame, f.op # "batch"
  PROVE  StackType(<<f>> \o s, d)
  <1>1. s \in Seq(TypedFrame) /\ Len(s) \in Nat
    BY DEF StackType
  <1>2. /\ <<f>> \o s \in Seq(TypedFrame) /\ Len(<<f>> \o s) = Len(s) + 1
        /\ (<<f>> \o s)[1] = f
        /\ \A i \in 2..(Len(s) + 1) : (<<f>> \o s)[i] = s[i - 1]
    BY <1>1, Pushed
  <1>3. /\ \A i \in 1..Len(s) : s[i].op = "batch" => i = Len(s)
        /\ d = IF s # <<>> /\ s[Len(s)].op = "batch" THEN 1 ELSE 0
    BY DEF StackType, BatchAtBottom
  <1> DEFINE t == <<f>> \o s
  <1>4. t \in Seq(TypedFrame) /\ Len(t) = Len(s) + 1 /\ t[1] = f /\ t # <<>>
        /\ \A i \in 2..(Len(s) + 1) : t[i] = s[i - 1]
    BY <1>2
  <1> HIDE DEF t
  <1>5. ASSUME NEW i \in 1..Len(t), t[i].op = "batch" PROVE i = Len(t)
    <2>1. i # 1 /\ i \in 2..(Len(s) + 1) /\ i - 1 \in 1..Len(s)
      BY <1>1, <1>4, <1>5
    <2> QED
      BY <1>1, <1>3, <1>4, <1>5, <2>1
  <1>6. d = IF t # <<>> /\ t[Len(t)].op = "batch" THEN 1 ELSE 0
    <2>1. CASE s = <<>>
      <3>1. Len(t) = 1 /\ t[Len(t)].op # "batch"
        BY <1>4, <2>1
      <3> QED
        BY <1>3, <2>1, <3>1
    <2>2. CASE s # <<>>
      <3>1. Len(s) >= 1
        BY <1>1, <2>2
      <3>2. Len(t) \in 2..(Len(s) + 1) /\ Len(t) - 1 = Len(s)
        BY <1>1, <1>4, <3>1
      <3>3. t[Len(t)] = s[Len(s)]
        BY <1>4, <3>2
      <3> QED
        BY <1>3, <1>4, <2>2, <3>3
    <2> QED
      BY <2>1, <2>2
  <1>7. StackType(t, d)
    BY <1>4, <1>5, <1>6 DEF StackType, BatchAtBottom
  <1> QED
    BY <1>7 DEF t

LEMMA StackPop ==
  ASSUME NEW s, NEW d, StackType(s, d), s # <<>>, Head(s).op # "batch"
  PROVE  StackType(Tail(s), d)
  <1>1. s \in Seq(TypedFrame)
    BY DEF StackType
  <1> DEFINE t == Tail(s)
  <1>2. /\ t \in Seq(TypedFrame) /\ Len(s) = Len(t) + 1 /\ Len(t) \in Nat
        /\ \A i \in 1..Len(t) : t[i] = s[i + 1]
        /\ Head(s) = s[1]
    BY <1>1, Popped
  <1>3. /\ \A i \in 1..Len(s) : s[i].op = "batch" => i = Len(s)
        /\ d = IF s # <<>> /\ s[Len(s)].op = "batch" THEN 1 ELSE 0
    BY DEF StackType, BatchAtBottom
  <1> HIDE DEF t
  <1>5. ASSUME NEW i \in 1..Len(t), t[i].op = "batch" PROVE i = Len(t)
    <2>1. i + 1 \in 1..Len(s) /\ t[i] = s[i + 1]
      BY <1>2
    <2>2. i + 1 = Len(s)
      BY <1>3, <1>5, <2>1
    <2> QED
      BY <1>2, <2>2
  <1>6. d = IF t # <<>> /\ t[Len(t)].op = "batch" THEN 1 ELSE 0
    <2>1. CASE t = <<>>
      <3>1. Len(t) = 0
        BY <2>1
      <3>2. Len(s) = 1
        BY <1>2, <3>1
      <3> QED
        BY <1>2, <1>3, <2>1, <3>2
    <2>2. CASE t # <<>>
      <3>1. Len(t) >= 1
        BY <1>2, <2>2
      <3>2. t[Len(t)] = s[Len(s)]
        BY <1>2, <3>1
      <3> QED
        BY <1>3, <2>2, <3>2
    <2> QED
      BY <2>1, <2>2
  <1>7. StackType(t, d)
    BY <1>2, <1>5, <1>6 DEF StackType, BatchAtBottom
  <1> QED
    BY <1>7 DEF t

LEMMA StackSwap ==
  ASSUME NEW s, NEW d, StackType(s, d), s # <<>>,
         NEW f \in TypedFrame, f.op = Head(s).op
  PROVE  StackType(<<f>> \o Tail(s), d)
  <1>1. CASE f.op # "batch"
    <2>1. StackType(Tail(s), d)
      BY <1>1, StackPop
    <2> QED
      BY <1>1, <2>1, StackPush
  <1>2. CASE f.op = "batch"
    <2>1. s \in Seq(TypedFrame) /\ Head(s) = s[1] /\ Len(s) >= 1 /\ Len(s) \in Nat
      BY DEF StackType
    <2>2. Len(s) = 1
      <3>1. \A i \in 1..Len(s) : s[i].op = "batch" => i = Len(s)
        BY DEF StackType, BatchAtBottom
      <3>2. 1 \in 1..Len(s) /\ s[1].op = "batch"
        BY <1>2, <2>1
      <3> QED
        BY <3>1, <3>2
    <2>3. s[Len(s)].op = "batch"
      BY <1>2, <2>1, <2>2
    <2>4. d = 1
      BY <2>3 DEF StackType, BatchAtBottom
    <2>5. Tail(s) = <<>>
      <3> DEFINE t == Tail(s)
      <3>1. t \in Seq(TypedFrame) /\ Len(t) = 0
        BY <2>1, <2>2
      <3> HIDE DEF t
      <3>2. t = <<>>
        BY <3>1
      <3> QED
        BY <3>2 DEF t
    <2>6. <<f>> \o Tail(s) = <<f>>
      <3>1. <<f>> \o <<>> = <<f>>
        OBVIOUS
      <3> QED
        BY <2>5, <3>1, Zenon
    <2>7. StackType(<<f>>, 1)
      <3>1. <<f>> \in Seq(TypedFrame) /\ Len(<<f>>) = 1 /\ <<f>>[1] = f /\ <<f>> # <<>>
        OBVIOUS
      <3> QED
        BY <1>2, <3>1 DEF StackType, BatchAtBottom
    <2> QED
      BY <2>4, <2>6, <2>7
  <1> QED
    BY <1>1, <1>2

LEMMA StackVisit ==
  ASSUME StoreType, NEW s, NEW d, StackType(s, d), NEW n \in Node
  PROVE  StackType(Visit(n, s), d)
  <1>1. state[n] \in NodeState /\ sources[n] \in Seq(Node)
    BY DEF StoreType
  <1>2. <<>> \in Seq(Node)
    OBVIOUS
  <1>3. \A t \in Seq(Node) : StackType(<<NewFrame("visit", n, t)>> \o s, d)
    <2>1. SUFFICES ASSUME NEW t \in Seq(Node)
          PROVE StackType(<<NewFrame("visit", n, t)>> \o s, d)
      OBVIOUS
    <2>2. NewFrame("visit", n, t) \in TypedFrame
      BY NewFrames
    <2>3. NewFrame("visit", n, t).op # "batch"
      BY DEF NewFrame
    <2> QED
      BY <2>2, <2>3, StackPush
  <1> QED
    BY <1>1, <1>2, <1>3 DEF Visit, NodeState

\* The innermost call and the others.
LEMMA TopFacts ==
  ASSUME StackType(stack, depth), stack # <<>>
  PROVE  /\ Top \in TypedFrame /\ Below \in Seq(TypedFrame)
         /\ Top = stack[1] /\ Len(stack) = Len(Below) + 1
         /\ \A i \in 1..Len(Below) : Below[i] = stack[i + 1]
         /\ Top.op # "batch" => StackType(Below, depth)
         /\ \A f \in TypedFrame : f.op = Top.op => StackType(<<f>> \o Below, depth)
  <1>1. stack \in Seq(TypedFrame)
    BY DEF StackType
  <1> QED
    BY <1>1, Popped, StackPop, StackSwap DEF Top, Below

LEMMA CodeFacts ==
  ASSUME StoreType, StackType(stack, depth), InCode
  PROVE  /\ ~panicked /\ agenda = <<>> /\ stack # <<>>
         /\ Top \in TypedFrame /\ Top.op \in {"run", "handler", "batch"}
         /\ Top.of \in Node \cup Handler /\ Code \in Seq(Instr)
         /\ Top.op = "run" => Top.of \in Node
         /\ Top.pc \in Nat /\ Top.pc >= 1 /\ Top.acc \in Value
         /\ app \in App
  <1>1. /\ ~panicked /\ agenda = <<>> /\ stack # <<>>
        /\ Top.op \in {"run", "handler", "batch"}
    BY DEF InCode, At
  <1>2. Top \in TypedFrame
    BY <1>1, TopFacts
  <1>3. /\ Top.op = "run" => Top.of \in Node
        /\ Top.op \in {"handler", "batch"} => Top.of \in Handler
        /\ Top.pc \in Nat /\ Top.pc >= 1 /\ Top.acc \in Value
    BY <1>2, FrameFields
  <1>4. app \in App /\ app.code \in [Node \cup Handler -> Seq(Instr)]
    BY AppAssumption DEF StoreType
  <1> QED
    BY <1>1, <1>2, <1>3, <1>4 DEF Code

LEMMA DoingFacts ==
  ASSUME StoreType, StackType(stack, depth), NEW i, Doing(i)
  PROVE  /\ InCode /\ Top.pc \in DOMAIN Code /\ Code[Top.pc] \in Instr
         /\ Code[Top.pc].do = i /\ Arg = Code[Top.pc].of
         /\ WellTyped(app, Code[Top.pc])
         /\ Top.op = "run" => CodeOfNode(app, Top.of, Code[Top.pc])
  <1>1. InCode /\ Top.pc <= Len(Code) /\ Code[Top.pc].do = i
    BY DEF Doing
  <1>2. /\ Top.of \in Node \cup Handler /\ Code \in Seq(Instr)
        /\ Top.op = "run" => Top.of \in Node
        /\ Top.pc \in Nat /\ Top.pc >= 1 /\ app \in App
    BY <1>1, CodeFacts
  <1>3. Top.pc \in DOMAIN Code /\ Code[Top.pc] \in Instr
    BY <1>1, <1>2
  <1>4. /\ \A x \in Node \cup Handler : \A k \in DOMAIN app.code[x] :
             WellTyped(app, app.code[x][k])
        /\ \A n \in Node : \A k \in DOMAIN app.code[n] : CodeOfNode(app, n, app.code[n][k])
    BY <1>2, AppAssumption
  <1> QED
    BY <1>1, <1>2, <1>3, <1>4 DEF Code, Arg

\* A closure goes on with another instruction or another accumulator.
LEMMA GoesOn ==
  ASSUME StoreType, StackType(stack, depth), InCode
  PROVE  /\ \A k \in Nat : StackType(<<Skipping(k)>> \o Below, depth)
         /\ \A k \in Nat, v \in Value :
              StackType(<<[Skipping(k) EXCEPT !.acc = v]>> \o Below, depth)
  <1>1. /\ stack # <<>> /\ Top \in TypedFrame /\ Top.op \in {"run", "handler", "batch"}
    BY CodeFacts
  <1>2. \A k \in Nat, v \in Value : /\ Skipping(k) \in TypedFrame
                                    /\ [Skipping(k) EXCEPT !.acc = v] \in TypedFrame
    BY <1>1, FrameGoesOn DEF Skipping
  <1>3. \A k \in Nat, v \in Value : /\ Skipping(k).op = Top.op
                                    /\ [Skipping(k) EXCEPT !.acc = v].op = Top.op
    BY <1>1, FrameFields DEF Skipping, Frame
  <1>4. 0 \in Value
    BY ZeroIsValue
  <1> QED
    BY <1>1, <1>2, <1>3, <1>4, TopFacts

LEMMA MarksType ==
  ASSUME NEW s \in Seq(Node), NEW m \in {"Check", "Dirty"}
  PROVE  /\ Marks(s, m) \in Seq(Mark) /\ Len(Marks(s, m)) = Len(s)
         /\ \A i \in 1..Len(s) : Marks(s, m)[i] = [node |-> s[i], mark |-> m]
  <1>1. \A i \in 1..Len(s) : [node |-> s[i], mark |-> m] \in Mark
    BY DEF Mark
  <1> QED
    BY <1>1 DEF Marks

LEMMA TypeInit == Init => TypeInv
  <1> SUFFICES ASSUME Init PROVE TypeInv
    OBVIOUS
  <1>0. app \in App /\ app.kind \in [Node -> {"signal", "memo", "effect"}]
        /\ app.build \in [Scope -> Handler] /\ Root \in Scope
    BY AppAssumption, NamesAssumption DEF Init
  <1>1. NewFrame("handler", app.build[Root], <<>>) \in TypedFrame
    BY <1>0, NewFrames
  <1>2. StackType(stack, depth)
    <2> DEFINE f == NewFrame("handler", app.build[Root], <<>>)
    <2>1. stack = <<f>> /\ depth = 0 /\ f \in TypedFrame
      BY <1>1 DEF Init
    <2>2. f.op = "handler"
      BY DEF NewFrame
    <2> HIDE DEF f
    <2>3. <<f>> \in Seq(TypedFrame) /\ Len(<<f>>) = 1 /\ <<f>>[1] = f
      BY <2>1
    <2> QED
      BY <2>1, <2>2, <2>3 DEF StackType, BatchAtBottom
  <1>3. \A s \in Scope : [alive |-> s = Root, children |-> <<>>, cleanups |-> <<>>] \in ScopeRecord
    BY DEF ScopeRecord
  <1>4. scopes \in [Scope -> ScopeRecord]
    BY <1>3 DEF Init
  <1>5. /\ state \in [Node -> NodeState] /\ value \in [Node -> Value \cup {NoValue}]
        /\ shown \in [Node -> Value \cup {NoValue}] /\ runs \in [Node -> Nat]
        /\ ready \subseteq Node /\ alive \subseteq Node
    BY ZeroIsValue DEF Init, NodeState, Owned
  <1>6. panicked \in BOOLEAN /\ batched \in BOOLEAN
    BY Zenon DEF Init
  <1>7. /\ sources \in [Node -> Seq(Node)] /\ observers \in [Node -> Seq(Node)]
        /\ pending \in Seq(Node) /\ agenda \in Seq(Mark) /\ depth \in Nat /\ events \in Nat
        /\ observer \in Node \cup {None}
    BY DEF Init
  <1>8. StoreType
    BY <1>0, <1>4, <1>5, <1>6, <1>7 DEF StoreType
  <1> QED
    BY <1>2, <1>8, TypeInvParts

\* The marks.
LEMMA TypeNotify ==
  ASSUME StoreType, StackType(stack, depth), Notify
  PROVE  StoreType' /\ StackType(stack', depth')
  <1>1. agenda \in Seq(Mark) /\ agenda # <<>> /\ Head(agenda) \in Mark /\ Tail(agenda) \in Seq(Mark)
    BY DEF StoreType, Notify
  <1> DEFINE n == Head(agenda).node
             m == Head(agenda).mark
  <1>2. n \in Node /\ m \in {"Check", "Dirty"} /\ m \in NodeState
    BY <1>1 DEF Mark, NodeState
  <1>3. stack' = stack /\ depth' = depth
    BY DEF Notify
  <1>4. Onward(n) \in Seq(Mark)
    BY <1>2, MarksType DEF Onward, StoreType
  <1> HIDE DEF n, m
  <1>5. agenda' \in Seq(Mark) /\ state' \in [Node -> NodeState] /\ pending' \in Seq(Node)
    <2>1. CASE Rank[state[n]] >= Rank[m]
      BY <2>1, <1>1 DEF Notify, n, m, StoreType
    <2>2. CASE ~(Rank[state[n]] >= Rank[m])
      <3>1. /\ agenda' = Onward(n) \o Tail(agenda)
            /\ state' = [state EXCEPT ![n] = m]
            /\ pending' = IF Queues(n, m) THEN Append(pending, n) ELSE pending
        BY <2>2 DEF Notify, n, m
      <3> QED
        BY <3>1, <1>1, <1>2, <1>4 DEF StoreType
    <2> QED
      BY <2>1, <2>2
  <1>6. StoreType'
    BY <1>5 DEF StoreType, Notify, links, ghosts
  <1> QED
    BY <1>3, <1>6

\* Bringing nodes up to date.
LEMMA TypeVisits ==
  ASSUME StoreType, StackType(stack, depth),
         CheckSource \/ CheckPassed \/ Settle \/ FlushRun
  PROVE  StoreType' /\ StackType(stack', depth')
  <1>1. stack # <<>> /\ Top.op \in {"visit", "settle", "flush"}
    BY DEF CheckSource, CheckPassed, Settle, FlushRun, At
  <1>2. /\ Top \in TypedFrame /\ StackType(Below, depth)
        /\ \A f \in TypedFrame : f.op = Top.op => StackType(<<f>> \o Below, depth)
    BY <1>1, TopFacts
  <1>3. CASE CheckSource \/ FlushRun
    <2>1. Top.op \in {"visit", "flush"} /\ Top.todo # <<>> /\ Top.todo \in Seq(Node)
      BY <1>2, <1>3, FrameFields DEF CheckSource, FlushRun, At
    <2>2. Head(Top.todo) \in Node /\ Tail(Top.todo) \in Seq(Node)
      BY <2>1
    <2>3. /\ [Top EXCEPT !.todo = Tail(@)] \in TypedFrame
          /\ [Top EXCEPT !.todo = Tail(@)].op = Top.op
      <3>1. [Top EXCEPT !.todo = Tail(Top.todo)] \in TypedFrame
        BY <1>2, <2>1, <2>2, FrameGoesOn
      <3>2. [Top EXCEPT !.todo = Tail(Top.todo)].op = Top.op
        BY <1>2, FrameFields DEF Frame
      <3> QED
        BY <3>1, <3>2
    <2>4. StackType(<<[Top EXCEPT !.todo = Tail(@)]>> \o Below, depth)
      BY <1>2, <2>3
    <2>5. StackType(Visit(Head(Top.todo), <<[Top EXCEPT !.todo = Tail(@)]>> \o Below), depth)
      BY <2>2, <2>4, StackVisit
    <2>6. StackType(stack', depth')
      BY <1>3, <2>4, <2>5 DEF CheckSource, FlushRun, OnlyTheStack
    <2>7. StoreType'
      BY <1>3 DEF StoreType, CheckSource, FlushRun, OnlyTheStack, graph, links, ghosts
    <2> QED
      BY <2>6, <2>7
  <1>4. CASE CheckPassed \/ Settle
    <2>1. Top.of \in Node
      BY <1>2, <1>4, FrameFields DEF CheckPassed, Settle, At
    <2>2. StackType(stack', depth')
      BY <1>2, <1>4 DEF CheckPassed, Settle
    <2>3. state' = [state EXCEPT ![Top.of] = "Clean"]
      BY <1>4 DEF CheckPassed, Settle
    <2>4. state' \in [Node -> NodeState]
      BY <2>1, <2>3 DEF StoreType, NodeState
    <2>5. StoreType'
      BY <1>4, <2>4 DEF StoreType, CheckPassed, Settle, links, ghosts
    <2> QED
      BY <2>2, <2>5
  <1> QED
    BY <1>3, <1>4

LEMMA TypeUpdate ==
  ASSUME StoreType, StackType(stack, depth), Update
  PROVE  StoreType' /\ StackType(stack', depth')
  <1>1. stack # <<>> /\ Top.op = "visit" /\ state[Top.of] = "Dirty"
    BY DEF Update, At
  <1>2. Top \in TypedFrame /\ StackType(Below, depth) /\ Top.of \in Node
    BY <1>1, TopFacts, FrameFields
  <1> DEFINE n == Top.of
             settle == NewFrame("settle", n, <<>>)
             run == [NewFrame("run", n, <<>>) EXCEPT !.prev = observer]
  <1>3. n \in Node
    BY <1>2
  <1>4. observer \in Node \cup {None}
    BY DEF StoreType
  <1>5. settle \in TypedFrame /\ run \in TypedFrame /\ settle.op = "settle" /\ run.op = "run"
    BY <1>3, <1>4, NewFrames DEF NewFrame
  <1>6. Unlinked(n)
    BY DEF Update
  <1>7. IF n \in ready
        THEN /\ ready' = ready \ {n}
             /\ observer' = n
             /\ stack' = <<run>> \o (<<settle>> \o Below)
             /\ runs' = [runs EXCEPT ![n] = @ + 1]
        ELSE stack' = <<settle>> \o Below /\ UNCHANGED <<ready, observer, runs>>
    BY DEF Update
  <1>8. UNCHANGED <<app, state, value, alive, scopes, pending, depth, agenda,
                    panicked, shown, events, batched>>
    BY DEF Update
  <1> HIDE DEF n, settle, run
  <1>9. StackType(<<settle>> \o Below, depth)
    BY <1>2, <1>5, StackPush
  <1>10. StackType(<<run>> \o (<<settle>> \o Below), depth)
    BY <1>5, <1>9, StackPush
  <1>11. StackType(stack', depth')
    BY <1>7, <1>8, <1>9, <1>10
  <1>12. sources' \in [Node -> Seq(Node)] /\ observers' \in [Node -> Seq(Node)]
    <2>1. \A m \in Node : Without(observers[m], n) \in Seq(Node)
      BY LivingList DEF StoreType, Without
    <2>2. sources' \in [Node -> Seq(Node)]
      BY <1>3, <1>6 DEF Unlinked, StoreType
    <2>3. observers' = [m \in Node |->
                          IF Contains(sources[n], m) THEN Without(observers[m], n)
                          ELSE observers[m]]
      BY <1>6 DEF Unlinked
    <2>4. observers' \in [Node -> Seq(Node)]
      BY <2>1, <2>3 DEF StoreType
    <2> QED
      BY <2>2, <2>4
  <1>13. ready' \subseteq Node /\ observer' \in Node \cup {None} /\ runs' \in [Node -> Nat]
    <2>1. ready \subseteq Node /\ observer \in Node \cup {None} /\ runs \in [Node -> Nat]
      BY DEF StoreType
    <2>2. [runs EXCEPT ![n] = @ + 1] \in [Node -> Nat]
      <3>1. runs[n] + 1 \in Nat
        BY <1>3, <2>1
      <3> QED
        BY <2>1, <3>1
    <2>3. CASE n \in ready
      BY <1>3, <1>7, <2>1, <2>2, <2>3
    <2>4. CASE n \notin ready
      BY <1>7, <2>1, <2>4
    <2> QED
      BY <2>3, <2>4
  <1>14. StoreType'
    BY <1>8, <1>12, <1>13 DEF StoreType
  <1> QED
    BY <1>11, <1>14

LEMMA TypeReturn ==
  ASSUME StoreType, StackType(stack, depth), Return
  PROVE  StoreType' /\ StackType(stack', depth')
  <1>1. stack # <<>> /\ Top.op = "run"
    BY DEF Return, At
  <1>2. /\ Top \in TypedFrame /\ StackType(Below, depth) /\ Top.of \in Node
        /\ Top.acc \in Value /\ Top.prev \in Node \cup {None}
    BY <1>1, TopFacts, FrameFields
  <1>3. Woken(Top.of) \in Seq(Mark)
    BY <1>2, MarksType DEF Woken, StoreType
  <1>4. /\ ready' = ready \cup {Top.of}
        /\ observer' = Top.prev
        /\ \/ /\ value' = [value EXCEPT ![Top.of] = Top.acc]
              /\ agenda' = Woken(Top.of)
           \/ UNCHANGED <<value, agenda>>
        /\ shown' = IF IsEffect(Top.of) THEN [shown EXCEPT ![Top.of] = Top.acc] ELSE shown
        /\ stack' = Below
        /\ UNCHANGED <<app, state, links, alive, scopes, pending, depth, panicked,
                       runs, events, batched>>
    BY DEF Return
  <1>5. value' \in [Node -> Value \cup {NoValue}] /\ agenda' \in Seq(Mark)
    BY <1>2, <1>3, <1>4 DEF StoreType
  <1>6. StoreType'
    BY <1>2, <1>4, <1>5 DEF StoreType, links
  <1> QED
    BY <1>2, <1>4, <1>6

LEMMA TypeFlush ==
  ASSUME StoreType, StackType(stack, depth), FlushTake \/ FlushDone
  PROVE  StoreType' /\ StackType(stack', depth')
  <1>1. stack # <<>> /\ Top.op = "flush"
    BY DEF FlushTake, FlushDone, At
  <1>2. /\ Top \in TypedFrame /\ StackType(Below, depth)
        /\ \A f \in TypedFrame : f.op = Top.op => StackType(<<f>> \o Below, depth)
    BY <1>1, TopFacts
  <1>3. CASE FlushTake
    <2>1. [Top EXCEPT !.todo = pending] \in TypedFrame
      BY <1>1, <1>2, FrameGoesOn DEF StoreType
    <2>2. [Top EXCEPT !.todo = pending].op = Top.op
      BY <1>2, FrameFields DEF Frame
    <2>3. StackType(stack', depth')
      BY <1>2, <1>3, <2>1, <2>2 DEF FlushTake
    <2>4. <<>> \in Seq(Node)
      OBVIOUS
    <2>5. StoreType'
      BY <1>3, <2>4 DEF StoreType, FlushTake, graph, links, ghosts
    <2> QED
      BY <2>3, <2>5
  <1>4. CASE FlushDone
    BY <1>2, <1>4 DEF StoreType, FlushDone, OnlyTheStack, graph, links, ghosts
  <1> QED
    BY <1>3, <1>4

LEMMA LinkedType ==
  ASSUME StoreType, NEW n \in Node, Linked(n)
  PROVE  sources' \in [Node -> Seq(Node)] /\ observers' \in [Node -> Seq(Node)]
  <1>1. CASE observer = None \/ Contains(sources[observer], n)
    BY <1>1 DEF Linked, StoreType, links
  <1>2. CASE ~(observer = None \/ Contains(sources[observer], n))
    <2>1. observer \in Node
      BY <1>2 DEF StoreType
    <2>2. /\ sources' = [sources EXCEPT ![observer] = Append(@, n)]
          /\ observers' = [observers EXCEPT ![n] = Append(@, observer)]
      BY <1>2 DEF Linked
    <2>3. Append(sources[observer], n) \in Seq(Node) /\ Append(observers[n], observer) \in Seq(Node)
      BY <2>1 DEF StoreType
    <2> QED
      BY <2>2, <2>3 DEF StoreType
  <1> QED
    BY <1>1, <1>2

LEMMA AddType == ASSUME NEW v \in Value, NEW w \in Value PROVE Add(v, w) \in Value
  <1>1. v \in Nat /\ w \in Nat /\ MaxValue \in Nat
    BY BoundsAssumption DEF Value
  <1>2. v + w \in Nat /\ MaxValue + 1 \in Nat /\ MaxValue + 1 > 0
    BY <1>1
  <1>3. (v + w) % (MaxValue + 1) \in 0..MaxValue
    BY <1>1, <1>2
  <1> QED
    BY <1>3 DEF Add, Value

LEMMA TypeReads ==
  ASSUME StoreType, StackType(stack, depth), GetStale \/ Get \/ Peek
  PROVE  StoreType' /\ StackType(stack', depth')
  <1>1. InCode /\ Arg \in Node
    BY DoingFacts DEF GetStale, Get, Peek, WellTyped
  <1>2. /\ \A v \in Value : StackType(<<[Skipping(0) EXCEPT !.acc = v]>> \o Below, depth)
        /\ Top.acc \in Value /\ Top \in TypedFrame /\ Top.op # "flush"
    BY <1>1, GoesOn, CodeFacts
  <1>3. value[Arg] # NoValue =>
          StackType(<<[Skipping(0) EXCEPT !.acc = Add(@, value[Arg])]>> \o Below, depth)
    <2>1. SUFFICES ASSUME value[Arg] # NoValue
          PROVE StackType(<<[Skipping(0) EXCEPT !.acc = Add(@, value[Arg])]>> \o Below, depth)
      OBVIOUS
    <2>2. value[Arg] \in Value
      BY <1>1, <2>1 DEF StoreType
    <2>3. Skipping(0).acc = Top.acc
      BY <1>2, FrameFields DEF Skipping, Frame
    <2>4. [Skipping(0) EXCEPT !.acc = Add(@, value[Arg])]
            = [Skipping(0) EXCEPT !.acc = Add(Top.acc, value[Arg])]
      BY <2>3
    <2> QED
      BY <1>2, <2>2, <2>4, AddType
  <1>4. CASE GetStale
    <2>1. sources' \in [Node -> Seq(Node)] /\ observers' \in [Node -> Seq(Node)]
      BY <1>1, <1>4, LinkedType DEF GetStale
    <2>2. StackType(stack', depth')
      BY <1>1, <1>4, StackVisit DEF GetStale
    <2>3. StoreType'
      BY <1>4, <2>1 DEF StoreType, GetStale, ghosts
    <2> QED
      BY <2>2, <2>3
  <1>5. CASE Get \/ Peek
    <2>1. sources' \in [Node -> Seq(Node)] /\ observers' \in [Node -> Seq(Node)]
      <3>1. CASE Get
        BY <1>1, <3>1, LinkedType DEF Get
      <3>2. CASE Peek
        BY <3>2 DEF Peek, graph, links, StoreType
      <3> QED
        BY <1>5, <3>1, <3>2
    <2>2. StackType(stack', depth')
      BY <1>3, <1>5 DEF Get, Peek
    <2>3. panicked' \in BOOLEAN
      <3>1. panicked' = TRUE \/ panicked' = panicked
        BY <1>5 DEF Get, Peek
      <3> QED
        BY <3>1, Zenon DEF StoreType
    <2>4. StoreType'
      BY <1>5, <2>1, <2>3 DEF StoreType, Get, Peek, graph, links, ghosts
    <2> QED
      BY <2>2, <2>4
  <1> QED
    BY <1>4, <1>5

LEMMA TypeSet ==
  ASSUME StoreType, StackType(stack, depth), Set
  PROVE  StoreType' /\ StackType(stack', depth')
  <1>1. InCode /\ Arg \in Node
    BY DoingFacts DEF Set, WellTyped
  <1>2. StackType(Advanced, depth) /\ Top.acc \in Value
    BY <1>1, GoesOn, CodeFacts DEF Advanced
  <1>3. NewFrame("flush", None, <<>>) \in TypedFrame /\ NewFrame("flush", None, <<>>).op = "flush"
    BY NewFrames DEF NewFrame
  <1>4. StackType(<<NewFrame("flush", None, <<>>)>> \o Advanced, depth)
    BY <1>2, <1>3, StackPush
  <1>5. StackType(Flush(Advanced), depth)
    BY <1>2, <1>4 DEF Flush
  <1>6. StackType(stack', depth')
    BY <1>2, <1>5 DEF Set
  <1>7. Marks(observers[Arg], "Dirty") \in Seq(Mark)
    BY <1>1, MarksType DEF StoreType
  <1>8. value' \in [Node -> Value \cup {NoValue}] /\ agenda' \in Seq(Mark)
    BY <1>1, <1>2, <1>7 DEF Set, StoreType
  <1>9. StoreType'
    BY <1>8 DEF StoreType, Set, links, ghosts
  <1> QED
    BY <1>6, <1>9

LEMMA TypeMount ==
  ASSUME StoreType, StackType(stack, depth), Mount
  PROVE  StoreType' /\ StackType(stack', depth')
  <1>1. InCode /\ Arg \in Node
    BY DoingFacts DEF Mount, WellTyped
  <1>2. StackType(Advanced, depth)
    BY <1>1, GoesOn DEF Advanced
  <1>3. NewFrame("visit", Arg, <<>>) \in TypedFrame /\ NewFrame("visit", Arg, <<>>).op = "visit"
    BY <1>1, NewFrames DEF NewFrame
  <1>4. StackType(stack', depth')
    BY <1>2, <1>3, StackPush DEF Mount
  <1>5. /\ alive' \subseteq Node /\ ready' \subseteq Node
        /\ state' \in [Node -> NodeState] /\ runs' \in [Node -> Nat]
        /\ shown' \in [Node -> Value \cup {NoValue}]
    BY <1>1 DEF Mount, StoreType, NodeState
  <1>6. StoreType'
    BY <1>5 DEF StoreType, Mount, links
  <1> QED
    BY <1>4, <1>6

LEMMA ScopeTypes ==
  ASSUME StoreType
  PROVE  /\ \A s \in Scope : app.build[s] \in Handler /\ app.cleanups[s] \in Seq(Handler)
         /\ \A s \in Scope \ {Root} : app.parent[s] \in Scope
         /\ \A s \in Scope : /\ scopes[s].alive \in BOOLEAN
                             /\ scopes[s].children \in Seq(Scope)
                             /\ scopes[s].cleanups \in Seq(Handler)
         /\ \A f : f \in [Scope -> ScopeRecord] <=>
               /\ f = [s \in Scope |-> f[s]]
               /\ \A s \in Scope : f[s] \in ScopeRecord
  <1>1. app \in App /\ scopes \in [Scope -> ScopeRecord]
    BY DEF StoreType
  <1>2. \A r \in ScopeRecord : /\ r.alive \in BOOLEAN /\ r.children \in Seq(Scope)
                               /\ r.cleanups \in Seq(Handler)
    BY DEF ScopeRecord
  <1>3. /\ \A s \in Scope : app.build[s] \in Handler /\ app.cleanups[s] \in Seq(Handler)
        /\ \A s \in Scope \ {Root} : app.parent[s] \in Scope
    BY <1>1, AppAssumption
  <1> QED
    BY <1>1, <1>2, <1>3

LEMMA ScopeRecords ==
  ASSUME NEW q \in ScopeRecord
  PROVE  /\ q.alive \in BOOLEAN /\ q.children \in Seq(Scope) /\ q.cleanups \in Seq(Handler)
         /\ \A c \in Seq(Scope) : [q EXCEPT !.children = c] \in ScopeRecord
         /\ \A c \in Seq(Handler) : [q EXCEPT !.cleanups = c] \in ScopeRecord
         /\ \A b \in BOOLEAN, c \in Seq(Scope) :
              [q EXCEPT !.alive = b, !.children = c] \in ScopeRecord
  <1> DEFINE seqScope == Seq(Scope)
             seqHandler == Seq(Handler)
  <1>1. ScopeRecord = [alive: BOOLEAN, children: seqScope, cleanups: seqHandler]
    BY DEF ScopeRecord
  <1> HIDE DEF seqScope, seqHandler
  <1>2. q.alive \in BOOLEAN /\ q.children \in seqScope /\ q.cleanups \in seqHandler
    BY <1>1
  <1>3. \A c \in seqScope : [q EXCEPT !.children = c] \in ScopeRecord
    BY <1>1
  <1>4. \A c \in seqHandler : [q EXCEPT !.cleanups = c] \in ScopeRecord
    BY <1>1
  <1>5. \A b \in BOOLEAN, c \in seqScope :
          [q EXCEPT !.alive = b, !.children = c] \in ScopeRecord
    BY <1>1
  <1> QED
    BY <1>2, <1>3, <1>4, <1>5 DEF seqScope, seqHandler

LEMMA PushTwo ==
  ASSUME NEW T, NEW f \in T, NEW g \in T, NEW s \in Seq(T)
  PROVE  <<f, g>> \o s = <<f>> \o (<<g>> \o s)
  <1> DEFINE a == <<f, g>> \o s
             b == <<f>> \o (<<g>> \o s)
  <1>1. /\ a \in Seq(T) /\ Len(a) = Len(s) + 2 /\ a[1] = f /\ a[2] = g
        /\ \A i \in 3..(Len(s) + 2) : a[i] = s[i - 2]
    OBVIOUS
  <1> DEFINE c == <<g>> \o s
  <1>2. /\ c \in Seq(T) /\ Len(c) = Len(s) + 1 /\ c[1] = g
        /\ \A i \in 2..(Len(s) + 1) : c[i] = s[i - 1]
    OBVIOUS
  <1> HIDE DEF c
  <1>3. /\ b \in Seq(T) /\ Len(b) = Len(c) + 1 /\ b[1] = f
        /\ \A i \in 2..(Len(c) + 1) : b[i] = c[i - 1]
    BY <1>2 DEF c
  <1> HIDE DEF a, b
  <1>4. Len(s) \in Nat
    OBVIOUS
  <1>5. ASSUME NEW i \in 1..(Len(s) + 2) PROVE a[i] = b[i]
    <2>1. CASE i = 1
      BY <2>1, <1>1, <1>3
    <2>2. CASE i = 2
      BY <2>2, <1>1, <1>2, <1>3, <1>4
    <2>3. CASE i \in 3..(Len(s) + 2)
      <3>1. i \in 2..(Len(c) + 1) /\ i - 1 \in 2..(Len(s) + 1) /\ (i - 1) - 1 = i - 2
        BY <2>3, <1>2, <1>4
      <3> QED
        BY <2>3, <3>1, <1>1, <1>2, <1>3
    <2> QED
      BY <2>1, <2>2, <2>3, <1>4
  <1>6. Len(a) = Len(b) /\ Len(a) = Len(s) + 2
    BY <1>1, <1>2, <1>3, <1>4
  <1>7. a = b
    BY <1>1, <1>3, <1>5, <1>6
  <1> QED
    BY <1>7 DEF a, b

LEMMA TypeBuildBranch ==
  ASSUME StoreType, StackType(stack, depth), BuildBranch
  PROVE  StoreType' /\ StackType(stack', depth')
  <1>1. InCode /\ Arg \in Scope \ {Root}
    BY DoingFacts DEF BuildBranch, WellTyped
  <1>2. StackType(Advanced, depth) /\ Top.acc \in Value
    BY <1>1, GoesOn, CodeFacts DEF Advanced
  <1> DEFINE s == Arg
             new == {n \in Owned(s) : ~IsEffect(n)}
             parent == app.parent[s]
             r == [alive |-> TRUE, children |-> <<>>, cleanups |-> app.cleanups[s]]
             f == NewFrame("handler", app.build[s], <<>>)
  <1>3. f \in TypedFrame /\ f.op = "handler"
    BY <1>1, NewFrames, ScopeTypes DEF NewFrame
  <1>4. StackType(stack', depth')
    <2>1. stack' = <<f>> \o Advanced /\ depth' = depth
      BY DEF BuildBranch
    <2> HIDE DEF f
    <2> QED
      BY <1>2, <1>3, <2>1, StackPush
  <1>5. new \subseteq Node
    BY DEF Owned
  <1>6. /\ alive' \subseteq Node /\ ready' \subseteq Node
    BY <1>5 DEF BuildBranch, StoreType
  <1>7. state' \in [Node -> NodeState]
    <2>1. state' = [n \in Node |-> IF n \notin new THEN state[n]
                                   ELSE IF IsSignal(n) THEN "Clean" ELSE "Dirty"]
      BY DEF BuildBranch
    <2> HIDE DEF new
    <2> QED
      BY <2>1 DEF StoreType, NodeState
  <1>8. value' \in [Node -> Value \cup {NoValue}]
    <2>1. value' = [n \in Node |-> IF n \notin new THEN value[n]
                                   ELSE IF IsSignal(n) THEN Top.acc ELSE NoValue]
      BY DEF BuildBranch
    <2> HIDE DEF new
    <2> QED
      BY <1>2, <2>1 DEF StoreType
  <1>9. scopes' \in [Scope -> ScopeRecord]
    <2>1. scopes' = [t \in Scope |->
                        IF t = s THEN r
                        ELSE IF t # parent THEN scopes[t]
                        ELSE [scopes[t] EXCEPT !.children = Append(@, s)]]
      BY DEF BuildBranch
    <2>2. r \in ScopeRecord
      BY <1>1, ScopeTypes DEF ScopeRecord
    <2>3. parent \in Scope /\ s \in Scope
      BY <1>1, ScopeTypes
    <2> HIDE DEF r, parent, s
    <2>4. scopes \in [Scope -> ScopeRecord]
      BY DEF StoreType
    <2>5. \A q \in ScopeRecord : [q EXCEPT !.children = Append(@, s)] \in ScopeRecord
      <3>1. SUFFICES ASSUME NEW q \in ScopeRecord
            PROVE [q EXCEPT !.children = Append(q.children, s)] \in ScopeRecord
        OBVIOUS
      <3>2. Append(q.children, s) \in Seq(Scope)
        <4> DEFINE c == q.children
        <4>1. c \in Seq(Scope) /\ s \in Scope
          BY <2>3, ScopeRecords
        <4> HIDE DEF c
        <4>2. Append(c, s) \in Seq(Scope)
          BY <4>1
        <4> QED
          BY <4>2 DEF c
      <3> QED
        BY <3>2, ScopeRecords
    <2> QED
      BY <2>1, <2>2, <2>3, <2>4, <2>5
  <1>10. StoreType'
    BY <1>6, <1>7, <1>8, <1>9 DEF StoreType, BuildBranch, links, ghosts
  <1> QED
    BY <1>4, <1>10

LEMMA TypeMoves ==
  ASSUME StoreType, StackType(stack, depth), BuildMounted \/ Jump
  PROVE  StoreType' /\ StackType(stack', depth')
  <1>1. InCode /\ OnlyTheStack
    BY DEF BuildMounted, Jump, Doing
  <1>2. /\ \A k \in Nat : StackType(<<Skipping(k)>> \o Below, depth)
        /\ \A k \in Nat, v \in Value :
              StackType(<<[Skipping(k) EXCEPT !.acc = v]>> \o Below, depth)
        /\ Code \in Seq(Instr)
    BY <1>1, GoesOn, CodeFacts
  <1>3. Doing("ifzero") => Code[Top.pc].skip \in Nat
    BY DoingFacts DEF Instr
  <1>4. Len(Code) \in Nat /\ 0 \in Nat /\ 0 \in Value
    BY <1>2, ZeroIsValue
  <1>5. StackType(stack', depth)
    <2>1. CASE BuildMounted
      BY <1>2, <1>4, <2>1 DEF BuildMounted, Advanced
    <2>2. CASE Jump
      <3>1. \/ Doing("ifzero") /\ stack' = <<Skipping(IF Top.acc = 0 THEN Code[Top.pc].skip ELSE 0)>> \o Below
            \/ stack' = <<Skipping(Len(Code))>> \o Below
            \/ stack' = <<[Skipping(0) EXCEPT !.acc = 0]>> \o Below
        BY <2>2 DEF Jump
      <3>2. CASE Doing("ifzero") /\ stack' = <<Skipping(IF Top.acc = 0 THEN Code[Top.pc].skip ELSE 0)>> \o Below
        <4>1. (IF Top.acc = 0 THEN Code[Top.pc].skip ELSE 0) \in Nat
          BY <1>3, <1>4, <3>2
        <4> QED
          BY <1>2, <3>2, <4>1
      <3> QED
        BY <1>2, <1>4, <3>1, <3>2
    <2> QED
      BY <2>1, <2>2
  <1>6. depth' = depth
    BY <1>1 DEF OnlyTheStack
  <1>7. StoreType'
    BY <1>1 DEF StoreType, OnlyTheStack, graph, links, ghosts
  <1> QED
    BY <1>5, <1>6, <1>7

\* The outermost batch leaves an empty stack.
LEMMA BatchIsLast ==
  ASSUME StackType(stack, depth), stack # <<>>, Top.op = "batch"
  PROVE  depth = 1 /\ Below = <<>> /\ StackType(<<>>, 0)
  <1>1. stack \in Seq(TypedFrame) /\ Top = stack[1] /\ Len(stack) >= 1
        /\ Len(stack) = Len(Below) + 1 /\ Below \in Seq(TypedFrame)
    BY TopFacts DEF StackType
  <1>2. \A i \in 1..Len(stack) : stack[i].op = "batch" => i = Len(stack)
    BY DEF StackType, BatchAtBottom
  <1>3. 1 \in 1..Len(stack)
    BY <1>1
  <1>4. Len(stack) = 1 /\ stack[Len(stack)].op = "batch"
    BY <1>1, <1>2, <1>3
  <1>5. depth = 1
    BY <1>4 DEF StackType, BatchAtBottom
  <1>6. Len(Below) = 0
    BY <1>1, <1>4
  <1> HIDE DEF Below
  <1>7. Below = <<>>
    BY <1>1, <1>6
  <1>8. StackType(<<>>, 0)
    BY DEF StackType, BatchAtBottom
  <1> QED
    BY <1>5, <1>7, <1>8

LEMMA TypeHandlerReturns ==
  ASSUME StoreType, StackType(stack, depth), HandlerReturns
  PROVE  StoreType' /\ StackType(stack', depth')
  <1>1. stack # <<>> /\ Top.op \in {"handler", "batch"}
    BY DEF HandlerReturns, At
  <1> DEFINE f == NewFrame("flush", None, <<>>)
  <1>2. f \in TypedFrame /\ f.op = "flush"
    BY NewFrames DEF NewFrame
  <1>3. /\ depth' = LeftBatch(Top.op)
        /\ stack' = IF Top.op = "batch" /\ depth' = 0 THEN <<f>> \o Below ELSE Below
    BY DEF HandlerReturns
  <1> HIDE DEF f
  <1>4. StackType(stack', depth') /\ depth' \in Nat
    <2>1. CASE Top.op = "handler"
      <3>1. depth' = depth /\ stack' = Below
        BY <1>3, <2>1 DEF LeftBatch
      <3>2. StackType(Below, depth)
        BY <1>1, <2>1, TopFacts
      <3> QED
        BY <3>1, <3>2 DEF StoreType
    <2>2. CASE Top.op = "batch"
      <3>1. depth = 1 /\ Below = <<>> /\ StackType(<<>>, 0)
        BY <1>1, <2>2, BatchIsLast
      <3>2. depth' = 0 /\ stack' = <<f>> \o <<>>
        BY <1>3, <2>2, <3>1 DEF LeftBatch
      <3>3. StackType(<<f>> \o <<>>, 0)
        BY <1>2, <3>1, StackPush
      <3> QED
        BY <3>2, <3>3
    <2> QED
      BY <1>1, <2>1, <2>2
  <1>5. StoreType'
    BY <1>4 DEF StoreType, HandlerReturns, graph, links, ghosts
  <1> QED
    BY <1>4, <1>5

LEMMA ReversedList ==
  ASSUME NEW T, NEW c \in Seq(T) PROVE Reverse(c) \in Seq(T)
  <1>1. \A i \in 1..Len(c) : (Len(c) - i) + 1 \in 1..Len(c)
    OBVIOUS
  <1>2. \A i \in 1..Len(c) : c[(Len(c) - i) + 1] \in T
    BY <1>1
  <1>3. Len(c) \in Nat
    OBVIOUS
  <1> QED
    BY <1>2, <1>3 DEF Reverse

\* Disposing.
LEMMA TypeCallDispose ==
  ASSUME StoreType, NEW s \in Scope, NEW rest, StackType(rest, depth), CallDispose(s, rest)
  PROVE  StoreType' /\ StackType(stack', depth')
  <1>1. scopes[s].children \in Seq(Scope)
    BY ScopeTypes
  <1>2. DisposeFrame(s) \in TypedFrame /\ DisposeFrame(s).op # "batch"
    BY <1>1, NewFrames DEF DisposeFrame, NewFrame
  <1>3. StackType(<<DisposeFrame(s)>> \o rest, depth)
    BY <1>2, StackPush
  <1>4. depth' = depth
    BY DEF CallDispose
  <1>5. StackType(stack', depth')
    BY <1>3, <1>4 DEF CallDispose
  <1>6. scopes' \in [Scope -> ScopeRecord]
    <2>1. CASE scopes[s].alive
      <3>1. [scopes[s] EXCEPT !.children = <<>>] \in ScopeRecord
        <4>1. scopes[s] \in ScopeRecord
          BY DEF StoreType
        <4>2. <<>> \in Seq(Scope)
          OBVIOUS
        <4> QED
          BY <4>1, <4>2, ScopeRecords
      <3> QED
        BY <2>1, <3>1 DEF CallDispose, StoreType
    <2>2. CASE ~scopes[s].alive
      BY <2>2 DEF CallDispose, StoreType
    <2> QED
      BY <2>1, <2>2
  <1>7. StoreType'
    BY <1>6 DEF StoreType, CallDispose, graph, links, ghosts
  <1> QED
    BY <1>5, <1>7

LEMMA TypeDisposes ==
  ASSUME StoreType, StackType(stack, depth),
         Dispose \/ DisposeChild \/ TakeCleanups \/ RunCleanup
  PROVE  StoreType' /\ StackType(stack', depth')
  <1>1. CASE Dispose
    <2>1. Arg \in Scope /\ StackType(Advanced, depth)
      BY <1>1, DoingFacts, GoesOn DEF Dispose, WellTyped, Advanced
    <2> QED
      BY <1>1, <2>1, TypeCallDispose DEF Dispose
  <1>2. ASSUME DisposeChild \/ TakeCleanups \/ RunCleanup
        PROVE  /\ stack # <<>> /\ Top \in TypedFrame /\ Top.op = "dispose" /\ Top.of \in Scope
               /\ \A f \in TypedFrame : f.op = Top.op => StackType(<<f>> \o Below, depth)
               /\ Top.pc = 1 => Top.todo \in Seq(Scope)
               /\ Top.pc # 1 => Top.todo \in Seq(Handler)
    <2>1. stack # <<>> /\ Top.op = "dispose"
      BY <1>2 DEF DisposeChild, TakeCleanups, RunCleanup, At
    <2> QED
      BY <2>1, TopFacts, FrameFields
  <1>3. CASE DisposeChild
    <2>1. Top.pc = 1 /\ Top.todo # <<>>
      BY <1>3 DEF DisposeChild
    <2>2. Head(Top.todo) \in Scope /\ Tail(Top.todo) \in Seq(Scope)
      BY <1>2, <1>3, <2>1
    <2>3. [Top EXCEPT !.todo = Tail(Top.todo)] \in TypedFrame
      BY <1>2, <1>3, <2>1, <2>2, FrameGoesOn
    <2>4. [Top EXCEPT !.todo = Tail(Top.todo)].op = Top.op
      BY <1>2, <1>3, FrameFields DEF Frame
    <2>5. StackType(<<[Top EXCEPT !.todo = Tail(@)]>> \o Below, depth)
      BY <1>2, <1>3, <2>3, <2>4
    <2> QED
      BY <1>3, <2>2, <2>5, TypeCallDispose DEF DisposeChild
  <1>4. CASE TakeCleanups
    <2>1. scopes[Top.of].cleanups \in Seq(Handler)
      BY <1>2, <1>4, ScopeTypes
    <2>2. Reverse(scopes[Top.of].cleanups) \in Seq(Handler)
      BY <2>1, ReversedList
    <2> DEFINE t == Reverse(scopes[Top.of].cleanups)
    <2>3. stack' = <<[Top EXCEPT !.pc = 2, !.todo = t]>> \o Below /\ depth' = depth
      BY <1>4 DEF TakeCleanups
    <2> HIDE DEF t
    <2>4. [Top EXCEPT !.pc = 2, !.todo = t] \in TypedFrame
      BY <1>2, <1>4, <2>2, FrameGoesOn DEF t
    <2>5. [Top EXCEPT !.pc = 2, !.todo = t].op = Top.op
      BY <1>2, <1>4, FrameFields DEF Frame
    <2>6. StackType(stack', depth')
      BY <1>2, <1>4, <2>3, <2>4, <2>5
    <2>7. [scopes[Top.of] EXCEPT !.cleanups = <<>>] \in ScopeRecord
      <3>1. scopes[Top.of] \in ScopeRecord
        BY <1>2, <1>4 DEF StoreType
      <3>2. <<>> \in Seq(Handler)
        OBVIOUS
      <3> QED
        BY <3>1, <3>2, ScopeRecords
    <2>8. scopes' \in [Scope -> ScopeRecord]
      BY <1>4, <2>7 DEF TakeCleanups, StoreType
    <2>9. StoreType'
      BY <1>4, <2>8 DEF StoreType, TakeCleanups, graph, links, ghosts
    <2> QED
      BY <2>6, <2>9
  <1>5. CASE RunCleanup
    <2>1. Top.pc # 1 /\ Top.todo # <<>> /\ Top.todo \in Seq(Handler)
      BY <1>2, <1>5 DEF RunCleanup
    <2>2. Head(Top.todo) \in Handler /\ Tail(Top.todo) \in Seq(Handler)
      BY <2>1
    <2> DEFINE f == NewFrame("handler", Head(Top.todo), <<>>)
               g == [Top EXCEPT !.todo = Tail(Top.todo)]
    <2>3. g \in TypedFrame /\ f \in TypedFrame /\ f.op # "batch"
      BY <1>2, <1>5, <2>1, <2>2, FrameGoesOn, NewFrames DEF NewFrame
    <2>4. g.op = Top.op
      BY <1>2, <1>5, FrameFields DEF Frame
    <2>5. stack' = <<f, g>> \o Below /\ depth' = depth
      BY <1>5 DEF RunCleanup, OnlyTheStack
    <2> HIDE DEF f, g
    <2>6. StackType(<<g>> \o Below, depth)
      BY <1>2, <1>5, <2>3, <2>4
    <2>7. <<f, g>> \o Below = <<f>> \o (<<g>> \o Below)
      <3>1. Below \in Seq(TypedFrame)
        BY <1>2, <1>5, TopFacts
      <3> QED
        BY <2>3, <3>1, PushTwo
    <2>8. StackType(stack', depth')
      BY <2>3, <2>5, <2>6, <2>7, StackPush
    <2>9. StoreType'
      BY <1>5 DEF StoreType, RunCleanup, OnlyTheStack, graph, links, ghosts
    <2> QED
      BY <2>8, <2>9
  <1> QED
    BY <1>1, <1>3, <1>4, <1>5

\* The part of DisposeNodes that touches the graph.
LEMMA DisposeNodesParts ==
  ASSUME DisposeNodes
  PROVE  LET dead == Dying(Top.of)
         IN /\ alive' = alive \ dead /\ ready' = ready \ dead
            /\ state' = [n \in Node |-> IF n \in dead THEN "Clean" ELSE state[n]]
            /\ value' = [n \in Node |-> IF n \in dead THEN NoValue ELSE value[n]]
            /\ sources' = [n \in Node |-> IF n \in dead THEN <<>> ELSE Living(sources[n], dead)]
            /\ observers' = [n \in Node |-> IF n \in dead THEN <<>> ELSE Living(observers[n], dead)]
            /\ stack' = Below
            /\ UNCHANGED <<app, observer, pending, depth, agenda, panicked, ghosts>>
  <1> DEFINE dead == Dying(Top.of)
  <1>1. \A f : \A n \in Node : [k \in Node |-> Living(f[k], dead)][n] = Living(f[n], dead)
    OBVIOUS
  <1>2. /\ sources' = [n \in Node |-> IF n \in dead THEN <<>>
                                      ELSE [k \in Node |-> Living(sources[k], dead)][n]]
        /\ observers' = [n \in Node |-> IF n \in dead THEN <<>>
                                        ELSE [k \in Node |-> Living(observers[k], dead)][n]]
    BY DEF DisposeNodes
  <1>3. /\ sources' = [n \in Node |-> IF n \in dead THEN <<>> ELSE Living(sources[n], dead)]
        /\ observers' = [n \in Node |-> IF n \in dead THEN <<>> ELSE Living(observers[n], dead)]
    BY <1>1, <1>2
  <1>4. /\ alive' = alive \ dead /\ ready' = ready \ dead
        /\ state' = [n \in Node |-> IF n \in dead THEN "Clean" ELSE state[n]]
        /\ value' = [n \in Node |-> IF n \in dead THEN NoValue ELSE value[n]]
        /\ stack' = Below
        /\ UNCHANGED <<app, observer, pending, depth, agenda, panicked, ghosts>>
    BY DEF DisposeNodes
  <1> QED
    BY <1>3, <1>4

LEMMA TypeDisposeNodes ==
  ASSUME StoreType, StackType(stack, depth), DisposeNodes
  PROVE  StoreType' /\ StackType(stack', depth')
  <1>1. stack # <<>> /\ Top.op = "dispose"
    BY DEF DisposeNodes, At
  <1>2. StackType(Below, depth) /\ Top.of \in Scope
    BY <1>1, TopFacts, FrameFields
  <1> DEFINE dead == Dying(Top.of)
  <1>3. /\ alive' = alive \ dead /\ ready' = ready \ dead
        /\ state' = [n \in Node |-> IF n \in dead THEN "Clean" ELSE state[n]]
        /\ value' = [n \in Node |-> IF n \in dead THEN NoValue ELSE value[n]]
        /\ sources' = [n \in Node |-> IF n \in dead THEN <<>> ELSE Living(sources[n], dead)]
        /\ observers' = [n \in Node |-> IF n \in dead THEN <<>> ELSE Living(observers[n], dead)]
        /\ stack' = Below
        /\ UNCHANGED <<app, observer, pending, depth, agenda, panicked, ghosts>>
    BY DisposeNodesParts
  <1> HIDE DEF dead
  <1>4. \A n \in Node : /\ Living(sources[n], dead) \in Seq(Node)
                        /\ Living(observers[n], dead) \in Seq(Node)
    BY LivingList DEF StoreType
  <1>5. sources' \in [Node -> Seq(Node)] /\ observers' \in [Node -> Seq(Node)]
    <2>1. <<>> \in Seq(Node)
      OBVIOUS
    <2> QED
      BY <1>3, <1>4, <2>1
  <1>6. /\ alive' \subseteq Node /\ ready' \subseteq Node /\ state' \in [Node -> NodeState]
        /\ value' \in [Node -> Value \cup {NoValue}]
    BY <1>3 DEF StoreType, NodeState
  <1>7. scopes' \in [Scope -> ScopeRecord]
    <2> DEFINE s == Top.of
    <2>1. scopes' = [t \in Scope |->
                       [scopes[t] EXCEPT
                          !.alive = scopes[t].alive /\ t # s,
                          !.children = IF s # Root /\ t = app.parent[s]
                                       THEN Without(scopes[t].children, s)
                                       ELSE scopes[t].children]]
      BY DEF DisposeNodes
    <2>2. ASSUME NEW t \in Scope
          PROVE  scopes'[t] \in ScopeRecord
      <3>1. scopes[t] \in ScopeRecord
        BY DEF StoreType
      <3>2. scopes[t].children \in Seq(Scope)
        BY <3>1, ScopeRecords
      <3>3. Without(scopes[t].children, s) \in Seq(Scope)
        BY <3>2, LivingList DEF Without
      <3> DEFINE b == scopes[t].alive /\ t # s
                 c == IF s # Root /\ t = app.parent[s]
                      THEN Without(scopes[t].children, s) ELSE scopes[t].children
      <3>4. b \in BOOLEAN
        OBVIOUS
      <3>5. c \in Seq(Scope)
        BY <3>2, <3>3
      <3>6. scopes'[t] = [scopes[t] EXCEPT !.alive = b, !.children = c]
        BY <2>1
      <3> DEFINE q == scopes[t]
      <3>7. q \in ScopeRecord /\ scopes'[t] = [q EXCEPT !.alive = b, !.children = c]
        BY <3>1, <3>6
      <3> HIDE DEF b, c, q
      <3>8. [q EXCEPT !.alive = b, !.children = c] \in ScopeRecord
        BY <3>4, <3>5, <3>7, ScopeRecords
      <3> QED
        BY <3>7, <3>8
    <2> QED
      BY <2>1, <2>2
  <1>8. StoreType'
    BY <1>3, <1>5, <1>6, <1>7 DEF StoreType, ghosts
  <1> QED
    BY <1>2, <1>3, <1>8

\* An event comes in when nothing runs.
LEMMA TypeEvent ==
  ASSUME StoreType, StackType(stack, depth), Event
  PROVE  StoreType' /\ StackType(stack', depth')
  <1>1. PICK h \in app.onEvent, payload \in Value, op \in Calls : Dispatch(h, payload, op)
    BY DEF Event
  <1>2. h \in Handler /\ op \in {"handler", "batch"}
    BY AppAssumption, CallsAssumption DEF StoreType
  <1> DEFINE f == [NewFrame(op, h, <<>>) EXCEPT !.acc = payload]
  <1>3. f \in TypedFrame /\ f.op = op
    BY <1>2, NewFrames DEF NewFrame
  <1>4. stack' = <<f>> /\ stack = <<>> /\ depth' = IF op = "batch" THEN depth + 1 ELSE depth
    BY <1>1 DEF Dispatch
  <1> HIDE DEF f
  <1>5. depth = 0
    BY <1>4 DEF StackType, BatchAtBottom
  <1>6. StackType(stack', depth') /\ depth' \in Nat
    <2>1. <<f>> \in Seq(TypedFrame) /\ Len(<<f>>) = 1 /\ <<f>>[1] = f /\ <<f>> # <<>>
      BY <1>3
    <2> QED
      BY <1>2, <1>3, <1>4, <1>5, <2>1 DEF StackType, BatchAtBottom
  <1>7. /\ runs' = [n \in Node |-> 0] /\ events' = events + 1
        /\ batched' = (op = "batch")
        /\ UNCHANGED <<app, graph, scopes, observer, pending, agenda, panicked, shown>>
    BY <1>1 DEF Dispatch
  <1>8. batched' \in BOOLEAN
    BY <1>7, Zenon
  <1>9. StoreType'
    BY <1>6, <1>7, <1>8 DEF StoreType, graph, links
  <1> QED
    BY <1>6, <1>9

LEMMA TypeStep == TypeInv /\ [Next]_vars => TypeInv'
  <1>0. (TypeInv <=> StoreType /\ StackType(stack, depth))'
    BY TypeInvParts, PTL
  <1> SUFFICES ASSUME StoreType, StackType(stack, depth), [Next]_vars
               PROVE  StoreType' /\ StackType(stack', depth')
    BY <1>0, TypeInvParts
  <1>1. CASE UNCHANGED vars
    BY <1>1 DEF vars, StoreType, graph, links, ghosts
  <1>2. CASE Rest
    BY <1>2 DEF Rest, vars, StoreType, graph, links, ghosts
  <1>3. CASE Event
    BY <1>3, TypeEvent
  <1>4. CASE Notify
    BY <1>4, TypeNotify
  <1>5. CASE CheckSource \/ CheckPassed \/ Settle \/ FlushRun
    BY <1>5, TypeVisits
  <1>6. CASE Update
    BY <1>6, TypeUpdate
  <1>7. CASE Return
    BY <1>7, TypeReturn
  <1>8. CASE FlushTake \/ FlushDone
    BY <1>8, TypeFlush
  <1>9. CASE GetStale \/ Get \/ Peek
    BY <1>9, TypeReads
  <1>10. CASE Set
    BY <1>10, TypeSet
  <1>11. CASE Mount
    BY <1>11, TypeMount
  <1>12. CASE BuildBranch
    BY <1>12, TypeBuildBranch
  <1>13. CASE BuildMounted \/ Jump
    BY <1>13, TypeMoves
  <1>14. CASE HandlerReturns
    BY <1>14, TypeHandlerReturns
  <1>15. CASE Dispose \/ DisposeChild \/ TakeCleanups \/ RunCleanup
    BY <1>15, TypeDisposes
  <1>16. CASE DisposeNodes
    BY <1>16, TypeDisposeNodes
  <1> QED
    BY <1>1, <1>2, <1>3, <1>4, <1>5, <1>6, <1>7, <1>8, <1>9, <1>10, <1>11, <1>12,
       <1>13, <1>14, <1>15, <1>16
    DEF Next, Step

LEMMA TypeInvHolds == Spec => []TypeInv
  BY TypeInit, TypeStep, PTL DEF Spec

\* Whatever closures an application consists of, and however they nest, the
\* runtime's data stay what their types say.
THEOREM ReactiveTypes == Spec => []TypeOK
  <1>1. TypeInv => TypeOK
    BY DEF TypeInv
  <1> QED
    BY <1>1, TypeInvHolds, PTL

-----------------------------------------------------------------------------
(* Links.  What an action does to the relation "depends on" is all that     *)
(* later proofs need of the lists.                                         *)

DependsOn(m, n) == Contains(sources[m], n)

LEMMA AppendedList ==
  ASSUME NEW T, NEW s \in Seq(T), NEW x \in T
  PROVE  /\ Append(s, x) \in Seq(T)
         /\ \A y : Contains(Append(s, x), y) <=> Contains(s, y) \/ y = x
         /\ IsInjective(s) /\ ~Contains(s, x) => IsInjective(Append(s, x))
  <1> DEFINE t == Append(s, x)
  <1>1. /\ t \in Seq(T) /\ Len(t) = Len(s) + 1 /\ t[Len(s) + 1] = x
        /\ \A i \in 1..Len(s) : t[i] = s[i]
        /\ Len(s) \in Nat
    OBVIOUS
  <1> HIDE DEF t
  <1>2. \A i \in 1..Len(t) : i \in 1..Len(s) \/ i = Len(s) + 1
    BY <1>1
  <1>3. \A i \in 1..Len(s) : i \in 1..Len(t)
    BY <1>1
  <1>4. Len(s) + 1 \in 1..Len(t)
    BY <1>1
  <1>5. \A y : Contains(t, y) <=> Contains(s, y) \/ y = x
    BY <1>1, <1>2, <1>3, <1>4 DEF Contains
  <1>6. ASSUME IsInjective(s), ~Contains(s, x) PROVE IsInjective(t)
    <2>1. DOMAIN t = 1..Len(t) /\ DOMAIN s = 1..Len(s)
      BY <1>1
    <2>2. \A i \in 1..Len(s) : s[i] # x
      BY <1>6 DEF Contains
    <2>3. \A i, j \in 1..Len(s) : s[i] = s[j] => i = j
      BY <1>6, <2>1 DEF IsInjective
    <2>4. \A i, j \in 1..Len(t) : t[i] = t[j] => i = j
      BY <1>1, <1>2, <2>2, <2>3
    <2> QED
      BY <2>1, <2>4 DEF IsInjective
  <1> QED
    BY <1>1, <1>5, <1>6 DEF t

LEMMA NothingListed ==
  (\A x : ~Contains(<<>>, x)) /\ IsInjective(<<>>)
  BY DEF Contains, IsInjective

LEMMA LinkedLinks ==
  ASSUME StoreType, LinksAgree, NEW n \in Node, Linked(n)
  PROVE  /\ LinksAgree'
         /\ \A m, k \in Node :
              DependsOn(m, k)' <=> DependsOn(m, k) \/ (m = observer /\ k = n)
  <1>1. CASE observer = None \/ Contains(sources[observer], n)
    <2>1. UNCHANGED <<sources, observers>>
      BY <1>1 DEF Linked, links
    <2>2. \A m \in Node : m = observer => Contains(sources[m], n)
      BY <1>1, NamesAssumption
    <2> QED
      BY <2>1, <2>2 DEF LinksAgree, DependsOn
  <1>2. CASE ~(observer = None \/ Contains(sources[observer], n))
    <2>1. observer \in Node /\ ~Contains(sources[observer], n)
      BY <1>2 DEF StoreType
    <2>2. /\ sources' = [sources EXCEPT ![observer] = Append(@, n)]
          /\ observers' = [observers EXCEPT ![n] = Append(@, observer)]
      BY <1>2 DEF Linked
    <2>3. sources \in [Node -> Seq(Node)] /\ observers \in [Node -> Seq(Node)]
      BY DEF StoreType
    <2>4. \A m \in Node : sources[m] \in Seq(Node) /\ observers[m] \in Seq(Node)
      BY <2>3
    <2>5. \A m \in Node : /\ sources'[m] = IF m = observer THEN Append(sources[m], n) ELSE sources[m]
                          /\ observers'[m] = IF m = n THEN Append(observers[m], observer) ELSE observers[m]
      BY <2>1, <2>2, <2>3
    <2>6. \A m, k \in Node :
            Contains(sources'[m], k) <=> Contains(sources[m], k) \/ (m = observer /\ k = n)
      BY <2>4, <2>5, AppendedList
    <2>7. \A m, k \in Node :
            Contains(observers'[k], m) <=> Contains(observers[k], m) \/ (m = observer /\ k = n)
      BY <2>1, <2>4, <2>5, AppendedList
    <2>8. \A m \in Node : IsInjective(sources'[m])
      BY <2>1, <2>4, <2>5, AppendedList DEF LinksAgree
    <2>9. ~Contains(observers[n], observer)
      BY <2>1 DEF LinksAgree
    <2>10. \A m \in Node : IsInjective(observers'[m])
      BY <2>1, <2>4, <2>5, <2>9, AppendedList DEF LinksAgree
    <2>11. LinksAgree'
      BY <2>6, <2>7, <2>8, <2>10 DEF LinksAgree
    <2> QED
      BY <2>6, <2>11 DEF DependsOn
  <1> QED
    BY <1>1, <1>2

LEMMA UnlinkedLinks ==
  ASSUME StoreType, LinksAgree, NEW n \in Node, Unlinked(n)
  PROVE  /\ LinksAgree'
         /\ \A m, k \in Node : DependsOn(m, k)' <=> m # n /\ DependsOn(m, k)
         /\ sources'[n] = <<>>
  <1>1. sources \in [Node -> Seq(Node)] /\ observers \in [Node -> Seq(Node)]
    BY DEF StoreType
  <1>2. \A m \in Node : sources[m] \in Seq(Node) /\ observers[m] \in Seq(Node)
    BY <1>1
  <1>3. \A m \in Node :
          /\ sources'[m] = IF m = n THEN <<>> ELSE sources[m]
          /\ observers'[m] = IF Contains(sources[n], m) THEN Living(observers[m], {n})
                             ELSE observers[m]
    BY <1>1 DEF Unlinked, Without
  <1>4. \A m, k \in Node : Contains(sources'[m], k) <=> m # n /\ Contains(sources[m], k)
    BY <1>3, NothingListed
  <1>5. \A m, k \in Node : Contains(observers'[k], m) <=> m # n /\ Contains(observers[k], m)
    <2>1. \A m, k \in Node : Contains(Living(observers[k], {n}), m)
                               <=> Contains(observers[k], m) /\ m \notin {n}
      BY <1>2, LivingList
    <2>2. \A k \in Node : ~Contains(sources[n], k) => ~Contains(observers[k], n)
      BY DEF LinksAgree
    <2> QED
      BY <1>3, <2>1, <2>2
  <1>6. \A m \in Node : IsInjective(sources'[m])
    BY <1>3, NothingListed DEF LinksAgree
  <1>7. \A m \in Node : IsInjective(observers'[m])
    <2>1. \A m \in Node : IsInjective(observers[m]) => IsInjective(Living(observers[m], {n}))
      BY <1>2, LivingList
    <2> QED
      BY <1>3, <2>1 DEF LinksAgree
  <1>8. LinksAgree'
    BY <1>4, <1>5, <1>6, <1>7 DEF LinksAgree
  <1> QED
    BY <1>3, <1>4, <1>8 DEF DependsOn

LEMMA DisposedLinks ==
  ASSUME StoreType, LinksAgree, DisposeNodes
  PROVE  /\ LinksAgree'
         /\ \A m, k \in Node : DependsOn(m, k)' <=>
              m \notin Dying(Top.of) /\ k \notin Dying(Top.of) /\ DependsOn(m, k)
         /\ \A n \in Dying(Top.of) : n \in Node => sources'[n] = <<>> /\ observers'[n] = <<>>
  <1> DEFINE dead == Dying(Top.of)
  <1>1. \A m \in Node : sources[m] \in Seq(Node) /\ observers[m] \in Seq(Node)
    BY DEF StoreType
  <1>2. \A m \in Node :
          /\ sources'[m] = IF m \in dead THEN <<>> ELSE Living(sources[m], dead)
          /\ observers'[m] = IF m \in dead THEN <<>> ELSE Living(observers[m], dead)
    BY DisposeNodesParts
  <1> HIDE DEF dead
  <1>3. \A m, k \in Node :
          /\ Contains(Living(sources[m], dead), k) <=> Contains(sources[m], k) /\ k \notin dead
          /\ Contains(Living(observers[m], dead), k) <=> Contains(observers[m], k) /\ k \notin dead
    BY <1>1, LivingList
  <1>4. \A m \in Node :
          /\ IsInjective(sources[m]) => IsInjective(Living(sources[m], dead))
          /\ IsInjective(observers[m]) => IsInjective(Living(observers[m], dead))
    BY <1>1, LivingList
  <1>5. \A m, k \in Node :
          /\ Contains(sources'[m], k) <=> m \notin dead /\ k \notin dead /\ Contains(sources[m], k)
          /\ Contains(observers'[k], m) <=> m \notin dead /\ k \notin dead /\ Contains(observers[k], m)
    BY <1>2, <1>3, NothingListed
  <1>6. \A m \in Node : IsInjective(sources'[m]) /\ IsInjective(observers'[m])
    BY <1>2, <1>4, NothingListed DEF LinksAgree
  <1>7. LinksAgree'
    BY <1>5, <1>6 DEF LinksAgree
  <1> QED
    BY <1>2, <1>5, <1>7 DEF DependsOn, dead

\* The actions that leave the links alone.
LinksUntouched ==
  \/ Notify \/ CheckSource \/ CheckPassed \/ Return \/ Settle
  \/ FlushTake \/ FlushRun \/ FlushDone
  \/ Peek \/ Set \/ Mount \/ BuildBranch \/ BuildMounted \/ Jump
  \/ HandlerReturns
  \/ Dispose \/ DisposeChild \/ TakeCleanups \/ RunCleanup
  \/ Event \/ Rest

LEMMA NextByLinks ==
  [Next]_vars => LinksUntouched \/ Update \/ GetStale \/ Get \/ DisposeNodes \/ UNCHANGED vars
  BY DEF Next, Step, LinksUntouched

LEMMA LinksUntouchedKept ==
  LinksUntouched \/ UNCHANGED vars => UNCHANGED <<sources, observers>>
  BY DEF LinksUntouched, Notify, CheckSource, CheckPassed, Return, Settle, FlushTake,
         FlushRun, FlushDone, Peek, Set, Mount, BuildBranch, BuildMounted, Jump,
         HandlerReturns, Dispose, DisposeChild, CallDispose, TakeCleanups, RunCleanup,
         Event, Dispatch, Rest, OnlyTheStack, graph, links, ghosts, vars

LEMMA LinksStep ==
  ASSUME TypeInv, LinksAgree, [Next]_vars PROVE LinksAgree'
  <1>0. StoreType /\ StackType(stack, depth)
    BY TypeInvParts
  <1>1. CASE LinksUntouched \/ UNCHANGED vars
    BY <1>1, LinksUntouchedKept DEF LinksAgree
  <1>2. CASE Update
    <2>1. Unlinked(Top.of) /\ Top.of \in Node
      BY <1>0, <1>2, TopFacts, FrameFields DEF Update, At
    <2> QED
      BY <1>0, <2>1, UnlinkedLinks
  <1>3. CASE GetStale \/ Get
    <2>1. Linked(Arg) /\ Arg \in Node
      BY <1>0, <1>3, DoingFacts DEF GetStale, Get, WellTyped
    <2> QED
      BY <1>0, <2>1, LinkedLinks
  <1>4. CASE DisposeNodes
    BY <1>0, <1>4, DisposedLinks
  <1> QED
    BY <1>1, <1>2, <1>3, <1>4, NextByLinks

LEMMA LinksInit == Init => LinksAgree
  BY NothingListed DEF Init, LinksAgree

\* A signal or memo knows exactly the nodes that depend on it, and each once,
\* whatever is run, torn down or re-entered: no mark can miss an observer.
THEOREM ReactiveLinks == Spec => []LinksAgree
  BY TypeInvHolds, LinksInit, LinksStep, PTL DEF Spec


-----------------------------------------------------------------------------
(* Calls.  Bringing a memo up to date calls nothing but memos it was        *)
(* created after, so no memo is entered twice, nothing is written, built or *)
(* disposed meanwhile, and the observer is the closure that runs.           *)

Working == {"visit", "settle", "run"}

MemoCall(a, f) == f.op \in Working /\ a.kind[f.of] = "memo"

\* A call above which only memos are brought up to date.
Pulls(a, f) == f.op = "visit" \/ MemoCall(a, f)

MayRest(a, f, g) ==
  Pulls(a, g) =>
    /\ MemoCall(a, f)
    /\ MemoCall(a, g) =>
         \/ a.order[f.of] < a.order[g.of]
         \/ f.of = g.of /\ f.op = "run" /\ g.op = "settle"

Nested(a, s) == \A i, j \in 1..Len(s) : i < j => MayRest(a, s[i], s[j])

NoSignals(a, s) ==
  \A i \in 1..Len(s) : s[i].op \in Working => a.kind[s[i].of] # "signal"

Paired(s) ==
  \A i \in 1..Len(s) :
    /\ s[i].op = "run" =>
         i + 1 \in 1..Len(s) /\ s[i + 1].op = "settle" /\ s[i + 1].of = s[i].of
    /\ s[i].op = "settle" /\ i > 1 => s[i - 1].op = "run"

\* From position k on, the innermost closure that runs is that of o.
Watching(o, s, k) ==
  \/ o = None /\ \A i \in k..Len(s) : s[i].op # "run"
  \/ \E j \in k..Len(s) : /\ s[j].op = "run" /\ s[j].of = o
                          /\ \A i \in k..(j - 1) : s[i].op # "run"

Watched(s) ==
  \A i \in 1..Len(s) : s[i].op = "run" => Watching(s[i].prev, s, i + 1)

\* The sources a visit goes through.
TodoOK(a, f) ==
  f.op = "visit" =>
    \A k \in 1..Len(f.todo) :
      /\ a.kind[f.todo[k]] # "effect"
      /\ a.kind[f.of] = "memo" => a.order[f.todo[k]] < a.order[f.of]

Shape(a, s, o) ==
  /\ Nested(a, s) /\ NoSignals(a, s) /\ Paired(s)
  /\ Watching(o, s, 1) /\ Watched(s)
  /\ \A i \in 1..Len(s) : TodoOK(a, s[i])

\* Calls that differ in how far they are, not in what they are about.
LEMMA SameShape ==
  ASSUME NEW a, NEW o, NEW s \in Seq(TypedFrame), NEW t \in Seq(TypedFrame),
         Shape(a, s, o), Len(t) = Len(s),
         \A i \in 1..Len(s) : /\ t[i].op = s[i].op /\ t[i].of = s[i].of
                              /\ t[i].prev = s[i].prev /\ TodoOK(a, t[i])
  PROVE  Shape(a, t, o)
  <1>1. Nested(a, t) /\ NoSignals(a, t)
    BY DEF Shape, Nested, NoSignals, MayRest, Pulls, MemoCall
  <1>2. Paired(t)
    <2>1. Len(s) \in Nat
      OBVIOUS
    <2>2. \A i \in 1..Len(s) : i > 1 => i - 1 \in 1..Len(s)
      BY <2>1
    <2> QED
      BY <2>2 DEF Shape, Paired
  <1>3. \A p, k : k \in 1..(Len(s) + 1) /\ Watching(p, s, k) => Watching(p, t, k)
    <2>1. SUFFICES ASSUME NEW p, NEW k \in 1..(Len(s) + 1), Watching(p, s, k)
                   PROVE  Watching(p, t, k)
      OBVIOUS
    <2>2. Len(s) \in Nat
      OBVIOUS
    <2>3. \A i \in k..Len(s) : i \in 1..Len(s)
      BY <2>2
    <2>4. \A j \in k..Len(s) : \A i \in k..(j - 1) : i \in k..Len(s)
      BY <2>2
    <2> QED
      BY <2>1, <2>3, <2>4 DEF Watching
  <1>4. Watching(o, t, 1)
    BY <1>3 DEF Shape
  <1>5. Watched(t)
    <2>1. \A i \in 1..Len(s) : i + 1 \in 1..(Len(s) + 1)
      OBVIOUS
    <2> QED
      BY <1>3, <2>1 DEF Shape, Watched
  <1> QED
    BY <1>1, <1>2, <1>4, <1>5 DEF Shape

\* The same calls further down.
LEMMA WatchingShifted ==
  ASSUME NEW s \in Seq(TypedFrame), NEW t \in Seq(TypedFrame), NEW k \in Nat, k >= 1,
         Len(t) = Len(s) + 1, \A i \in k..Len(s) : t[i + 1] = s[i], NEW p
  PROVE  Watching(p, s, k) <=> Watching(p, t, k + 1)
  <1>1. Len(s) \in Nat
    OBVIOUS
  <1>2. ASSUME Watching(p, s, k) PROVE Watching(p, t, k + 1)
    <2>1. CASE p = None /\ \A i \in k..Len(s) : s[i].op # "run"
      <3>1. \A i \in (k + 1)..Len(t) : i - 1 \in k..Len(s) /\ (i - 1) + 1 = i
        BY <1>1
      <3>2. \A i \in (k + 1)..Len(t) : t[i].op # "run"
        BY <2>1, <3>1
      <3> QED
        BY <2>1, <3>2 DEF Watching
    <2>2. CASE \E j \in k..Len(s) : /\ s[j].op = "run" /\ s[j].of = p
                                    /\ \A i \in k..(j - 1) : s[i].op # "run"
      <3>1. PICK j \in k..Len(s) : /\ s[j].op = "run" /\ s[j].of = p
                                   /\ \A i \in k..(j - 1) : s[i].op # "run"
        BY <2>2
      <3>2. j + 1 \in (k + 1)..Len(t) /\ t[j + 1] = s[j]
        BY <1>1
      <3>3. \A i \in (k + 1)..((j + 1) - 1) : i - 1 \in k..(j - 1) /\ i - 1 \in k..Len(s) /\ t[i] = s[i - 1]
        BY <1>1
      <3>4. \A i \in (k + 1)..((j + 1) - 1) : t[i].op # "run"
        BY <3>1, <3>3
      <3> QED
        BY <3>1, <3>2, <3>4 DEF Watching
    <2> QED
      BY <1>2, <2>1, <2>2 DEF Watching
  <1>3. ASSUME Watching(p, t, k + 1) PROVE Watching(p, s, k)
    <2>1. CASE p = None /\ \A i \in (k + 1)..Len(t) : t[i].op # "run"
      <3>1. \A i \in k..Len(s) : i + 1 \in (k + 1)..Len(t)
        BY <1>1
      <3>2. \A i \in k..Len(s) : s[i].op # "run"
        BY <2>1, <3>1
      <3> QED
        BY <2>1, <3>2 DEF Watching
    <2>2. CASE \E j \in (k + 1)..Len(t) : /\ t[j].op = "run" /\ t[j].of = p
                                          /\ \A i \in (k + 1)..(j - 1) : t[i].op # "run"
      <3>1. PICK j \in (k + 1)..Len(t) : /\ t[j].op = "run" /\ t[j].of = p
                                         /\ \A i \in (k + 1)..(j - 1) : t[i].op # "run"
        BY <2>2
      <3>2. j - 1 \in k..Len(s) /\ t[j] = s[j - 1]
        BY <1>1
      <3>3. \A i \in k..((j - 1) - 1) : i + 1 \in (k + 1)..(j - 1) /\ i \in k..Len(s) /\ t[i + 1] = s[i]
        BY <1>1
      <3>4. \A i \in k..((j - 1) - 1) : s[i].op # "run"
        BY <3>1, <3>3
      <3> QED
        BY <3>1, <3>2, <3>4 DEF Watching
    <2> QED
      BY <1>3, <2>1, <2>2 DEF Watching
  <1> QED
    BY <1>2, <1>3

\* A call that is not a closure does not change who watches.
LEMMA WatchingOn ==
  ASSUME NEW s \in Seq(TypedFrame), NEW p, NEW k \in 1..Len(s), s[k].op # "run"
  PROVE  Watching(p, s, k) <=> Watching(p, s, k + 1)
  <1>1. Len(s) \in Nat
    OBVIOUS
  <1>2. \A i \in k..Len(s) : i = k \/ i \in (k + 1)..Len(s)
    BY <1>1
  <1>3. \A i \in (k + 1)..Len(s) : i \in k..Len(s)
    BY <1>1
  <1>4. \A j \in (k + 1)..Len(s) : \A i \in k..(j - 1) : i = k \/ i \in (k + 1)..(j - 1)
    BY <1>1
  <1>5. \A j \in (k + 1)..Len(s) : \A i \in (k + 1)..(j - 1) : i \in k..(j - 1)
    BY <1>1
  <1> QED
    BY <1>2, <1>3, <1>4, <1>5 DEF Watching

\* While nothing is brought up to date on top, nothing is below either.
LEMMA Calm ==
  ASSUME NEW a, NEW o, NEW s \in Seq(TypedFrame), Shape(a, s, o), s # <<>>, ~Pulls(a, s[1])
  PROVE  \A i \in 1..Len(s) : ~Pulls(a, s[i])
  <1>1. Len(s) \in Nat /\ 1 \in 1..Len(s)
    OBVIOUS
  <1>2. \A i \in 1..Len(s) : i = 1 \/ 1 < i
    BY <1>1
  <1>3. MemoCall(a, s[1]) => Pulls(a, s[1])
    BY DEF Pulls
  <1> QED
    BY <1>1, <1>2, <1>3 DEF Shape, Nested, MayRest

\* A call that is not about to run a closure of its own.
LEMMA ShapePush ==
  ASSUME NEW a, NEW o, NEW s \in Seq(TypedFrame), Shape(a, s, o),
         NEW f \in TypedFrame, f.op # "run",
         s # <<>> => s[1].op # "settle",
         f.op \in Working => a.kind[f.of] # "signal", TodoOK(a, f),
         \A i \in 1..Len(s) : MayRest(a, f, s[i])
  PROVE  Shape(a, <<f>> \o s, o)
  <1> DEFINE t == <<f>> \o s
  <1>1. /\ t \in Seq(TypedFrame) /\ Len(t) = Len(s) + 1 /\ t[1] = f
        /\ \A i \in 1..Len(s) : t[i + 1] = s[i]
        /\ \A i \in 2..(Len(s) + 1) : t[i] = s[i - 1]
    BY Pushed
  <1> HIDE DEF t
  <1>2. Len(s) \in Nat
    OBVIOUS
  <1>3. \A i \in 1..Len(t) : i = 1 \/ (i \in 2..(Len(s) + 1) /\ i - 1 \in 1..Len(s) /\ t[i] = s[i - 1])
    BY <1>1, <1>2
  <1>4. Nested(a, t)
    <2>1. SUFFICES ASSUME NEW i \in 1..Len(t), NEW j \in 1..Len(t), i < j
                   PROVE  MayRest(a, t[i], t[j])
      BY DEF Nested
    <2>2. j - 1 \in 1..Len(s) /\ t[j] = s[j - 1]
      BY <1>2, <1>3, <2>1
    <2>3. CASE i = 1
      BY <1>1, <2>2, <2>3
    <2>4. CASE i # 1
      <3>1. i - 1 \in 1..Len(s) /\ t[i] = s[i - 1] /\ i - 1 < j - 1
        BY <1>2, <1>3, <2>1, <2>4
      <3> QED
        BY <2>2, <3>1 DEF Shape, Nested
    <2> QED
      BY <2>3, <2>4
  <1>5. NoSignals(a, t) /\ \A i \in 1..Len(t) : TodoOK(a, t[i])
    BY <1>1, <1>3 DEF Shape, NoSignals
  <1>6. Paired(t)
    <2>1. SUFFICES ASSUME NEW i \in 1..Len(t)
                   PROVE  /\ t[i].op = "run" => i + 1 \in 1..Len(t) /\ t[i + 1].op = "settle"
                                                /\ t[i + 1].of = t[i].of
                          /\ t[i].op = "settle" /\ i > 1 => t[i - 1].op = "run"
      BY DEF Paired
    <2>2. CASE i = 1
      BY <1>1, <2>2
    <2>3. CASE i # 1
      <3> DEFINE j == i - 1
      <3>1. j \in 1..Len(s) /\ t[i] = s[j] /\ j + 1 = i
        BY <1>3, <2>3
      <3> HIDE DEF j
      <3>2. ASSUME s[j].op = "run"
            PROVE  i + 1 \in 1..Len(t) /\ t[i + 1].op = "settle" /\ t[i + 1].of = t[i].of
        <4>1. j + 1 \in 1..Len(s) /\ s[j + 1].op = "settle" /\ s[j + 1].of = s[j].of
          BY <3>1, <3>2 DEF Shape, Paired
        <4>2. i + 1 \in 1..Len(t) /\ t[i + 1] = s[j + 1]
          BY <1>1, <1>2, <3>1, <4>1
        <4> QED
          BY <3>1, <4>1, <4>2
      <3>3. ASSUME s[j].op = "settle" PROVE t[i - 1].op = "run"
        <4>1. j # 1
          <5>1. Len(s) >= 1
            BY <1>2, <3>1
          <5>2. s # <<>>
            BY <5>1
          <5> QED
            BY <3>3, <5>2
        <4>2. j > 1 /\ j - 1 \in 1..Len(s)
          BY <1>2, <3>1, <4>1
        <4>3. s[j - 1].op = "run"
          BY <3>1, <3>3, <4>2 DEF Shape, Paired
        <4>4. t[i - 1] = s[j - 1]
          BY <1>1, <1>2, <3>1, <4>2
        <4> QED
          BY <4>3, <4>4
      <3> QED
        BY <3>1, <3>2, <3>3
    <2> QED
      BY <2>2, <2>3
  <1>7. Watching(o, t, 1)
    <2>1. Watching(o, s, 1) <=> Watching(o, t, 1 + 1)
      BY <1>1, WatchingShifted
    <2>2. 1 \in 1..Len(t) /\ t[1].op # "run"
      BY <1>1, <1>2
    <2>3. Watching(o, t, 1) <=> Watching(o, t, 1 + 1)
      BY <1>1, <2>2, WatchingOn
    <2> QED
      BY <2>1, <2>3 DEF Shape
  <1>8. Watched(t)
    <2>1. SUFFICES ASSUME NEW i \in 1..Len(t), t[i].op = "run"
                   PROVE  Watching(t[i].prev, t, i + 1)
      BY DEF Watched
    <2> DEFINE j == i - 1
    <2>2. j \in 1..Len(s) /\ t[i] = s[j] /\ j + 1 = i /\ j + 1 \in Nat /\ j + 1 >= 1
      BY <1>1, <1>2, <1>3, <2>1
    <2> HIDE DEF j
    <2>3. Watching(s[j].prev, s, j + 1)
      BY <2>1, <2>2 DEF Shape, Watched
    <2>4. \A k \in (j + 1)..Len(s) : k \in 1..Len(s)
      BY <1>2, <2>2
    <2>5. Watching(s[j].prev, s, j + 1) <=> Watching(s[j].prev, t, (j + 1) + 1)
      BY <1>1, <2>2, <2>4, WatchingShifted
    <2> QED
      BY <2>2, <2>3, <2>5
  <1>9. Shape(a, t, o)
    BY <1>4, <1>5, <1>6, <1>7, <1>8 DEF Shape
  <1> QED
    BY <1>9 DEF t

\* Returning: the closure below watches again.
LEMMA ShapePop ==
  ASSUME NEW a, NEW o, NEW s \in Seq(TypedFrame), Shape(a, s, o), s # <<>>
  PROVE  Shape(a, Tail(s), IF Head(s).op = "run" THEN Head(s).prev ELSE o)
  <1> DEFINE t == Tail(s)
             p == IF Head(s).op = "run" THEN Head(s).prev ELSE o
  <1>1. /\ t \in Seq(TypedFrame) /\ Len(s) = Len(t) + 1 /\ Head(s) = s[1]
        /\ \A i \in 1..Len(t) : t[i] = s[i + 1]
    BY Popped
  <1> HIDE DEF t
  <1>2. Len(t) \in Nat
    BY <1>1
  <1>3. \A i \in 1..Len(t) : i + 1 \in 1..Len(s) /\ t[i] = s[i + 1]
    BY <1>1, <1>2
  <1>4. Nested(a, t)
    <2>1. \A i, j \in 1..Len(t) : i < j => i + 1 < j + 1
      OBVIOUS
    <2> QED
      BY <1>3, <2>1 DEF Shape, Nested
  <1>5. NoSignals(a, t) /\ \A i \in 1..Len(t) : TodoOK(a, t[i])
    BY <1>3 DEF Shape, NoSignals
  <1>6. Paired(t)
    <2>1. SUFFICES ASSUME NEW i \in 1..Len(t)
                   PROVE  /\ t[i].op = "run" => i + 1 \in 1..Len(t) /\ t[i + 1].op = "settle"
                                                /\ t[i + 1].of = t[i].of
                          /\ t[i].op = "settle" /\ i > 1 => t[i - 1].op = "run"
      BY DEF Paired
    <2> DEFINE j == i + 1
    <2>2. j \in 1..Len(s) /\ t[i] = s[j] /\ j - 1 = i /\ j > 1
      BY <1>2, <1>3
    <2> HIDE DEF j
    <2>3. ASSUME s[j].op = "run"
          PROVE  i + 1 \in 1..Len(t) /\ t[i + 1].op = "settle" /\ t[i + 1].of = t[i].of
      <3>1. j + 1 \in 1..Len(s) /\ s[j + 1].op = "settle" /\ s[j + 1].of = s[j].of
        BY <2>2, <2>3 DEF Shape, Paired
      <3>2. i + 1 \in 1..Len(t) /\ (i + 1) + 1 = j + 1
        BY <1>1, <1>2, <2>2, <3>1
      <3>3. t[i + 1] = s[j + 1]
        BY <1>3, <3>2
      <3> QED
        BY <2>2, <3>1, <3>2, <3>3
    <2>4. ASSUME s[j].op = "settle", i > 1 PROVE t[i - 1].op = "run"
      <3>1. s[j - 1].op = "run"
        BY <2>2, <2>4 DEF Shape, Paired
      <3>2. i - 1 \in 1..Len(t) /\ (i - 1) + 1 = j - 1
        BY <1>2, <2>2, <2>4
      <3>3. t[i - 1] = s[j - 1]
        BY <1>3, <3>2
      <3> QED
        BY <3>1, <3>3
    <2> QED
      BY <2>2, <2>3, <2>4
  <1>7. \A q : \A k \in 1..(Len(t) + 1) : Watching(q, t, k) <=> Watching(q, s, k + 1)
    <2>1. SUFFICES ASSUME NEW q, NEW k \in 1..(Len(t) + 1)
                   PROVE  Watching(q, t, k) <=> Watching(q, s, k + 1)
      OBVIOUS
    <2>2. k \in Nat /\ k >= 1 /\ \A i \in k..Len(t) : s[i + 1] = t[i]
      BY <1>2, <1>3
    <2> QED
      BY <1>1, <2>2, WatchingShifted
  <1>8. Watching(p, t, 1)
    <2>1. 1 \in 1..(Len(t) + 1) /\ 1 \in 1..Len(s)
      BY <1>1, <1>2
    <2>2. CASE s[1].op = "run"
      <3>1. Watching(s[1].prev, s, 1 + 1)
        BY <2>1, <2>2 DEF Shape, Watched
      <3> QED
        BY <1>1, <1>7, <2>1, <2>2, <3>1
    <2>3. CASE s[1].op # "run"
      <3>1. Watching(o, s, 1) <=> Watching(o, s, 1 + 1)
        BY <2>1, <2>3, WatchingOn
      <3> QED
        BY <1>1, <1>7, <2>1, <2>3, <3>1 DEF Shape
    <2> QED
      BY <2>2, <2>3
  <1>9. Watched(t)
    <2>1. SUFFICES ASSUME NEW i \in 1..Len(t), t[i].op = "run"
                   PROVE  Watching(t[i].prev, t, i + 1)
      BY DEF Watched
    <2>2. i + 1 \in 1..Len(s) /\ t[i] = s[i + 1] /\ i + 1 \in 1..(Len(t) + 1)
      BY <1>2, <1>3
    <2>3. Watching(s[i + 1].prev, s, (i + 1) + 1)
      BY <2>1, <2>2 DEF Shape, Watched
    <2> QED
      BY <1>7, <2>2, <2>3
  <1>10. Shape(a, t, p)
    BY <1>4, <1>5, <1>6, <1>8, <1>9 DEF Shape
  <1> QED
    BY <1>10 DEF t

LEMMA ShapeSwap ==
  ASSUME NEW a, NEW o, NEW s \in Seq(TypedFrame), Shape(a, s, o), s # <<>>,
         NEW f \in TypedFrame, f.op = Head(s).op, f.of = Head(s).of, f.prev = Head(s).prev,
         TodoOK(a, f)
  PROVE  Shape(a, <<f>> \o Tail(s), o)
  <1> DEFINE r == Tail(s)
             t == <<f>> \o r
  <1>1. /\ r \in Seq(TypedFrame) /\ Len(s) = Len(r) + 1 /\ Head(s) = s[1]
        /\ \A i \in 1..Len(r) : r[i] = s[i + 1]
    BY Popped
  <1> HIDE DEF r
  <1>2. /\ t \in Seq(TypedFrame) /\ Len(t) = Len(r) + 1 /\ t[1] = f
        /\ \A i \in 2..(Len(r) + 1) : t[i] = r[i - 1]
    BY <1>1, Pushed
  <1> HIDE DEF t
  <1>3. \A i \in 1..Len(s) : i = 1 \/ t[i] = s[i]
    <2>1. SUFFICES ASSUME NEW i \in 1..Len(s), i # 1 PROVE t[i] = s[i]
      OBVIOUS
    <2>2. Len(r) \in Nat
      BY <1>1
    <2>3. i \in 2..(Len(r) + 1) /\ i - 1 \in 1..Len(r) /\ (i - 1) + 1 = i
      BY <1>1, <2>1, <2>2
    <2> QED
      BY <1>1, <1>2, <2>3
  <1>4. \A i \in 1..Len(s) : /\ t[i].op = s[i].op /\ t[i].of = s[i].of
                             /\ t[i].prev = s[i].prev /\ TodoOK(a, t[i])
    BY <1>1, <1>2, <1>3 DEF Shape
  <1>5. Shape(a, t, o)
    BY <1>1, <1>2, <1>4, SameShape
  <1> QED
    BY <1>5 DEF t, r

\* The closure of the node that is being settled starts, and watches.
LEMMA ShapeRun ==
  ASSUME NEW a, NEW o, NEW s \in Seq(TypedFrame), Shape(a, s, o), s # <<>>,
         NEW f \in TypedFrame, f.op = "run", f.prev = o,
         s[1].op = "settle", f.of = s[1].of,
         \A i \in 1..Len(s) : MayRest(a, f, s[i])
  PROVE  Shape(a, <<f>> \o s, f.of)
  <1> DEFINE t == <<f>> \o s
  <1>1. /\ t \in Seq(TypedFrame) /\ Len(t) = Len(s) + 1 /\ t[1] = f
        /\ \A i \in 1..Len(s) : t[i + 1] = s[i]
        /\ \A i \in 2..(Len(s) + 1) : t[i] = s[i - 1]
    BY Pushed
  <1> HIDE DEF t
  <1>2. Len(s) \in Nat /\ Len(s) >= 1
    OBVIOUS
  <1>3. \A i \in 1..Len(t) : i = 1 \/ (i \in 2..(Len(s) + 1) /\ i - 1 \in 1..Len(s) /\ t[i] = s[i - 1])
    BY <1>1, <1>2
  <1>4. Nested(a, t)
    <2>1. SUFFICES ASSUME NEW i \in 1..Len(t), NEW j \in 1..Len(t), i < j
                   PROVE  MayRest(a, t[i], t[j])
      BY DEF Nested
    <2>2. j - 1 \in 1..Len(s) /\ t[j] = s[j - 1]
      BY <1>2, <1>3, <2>1
    <2>3. CASE i = 1
      BY <1>1, <2>2, <2>3
    <2>4. CASE i # 1
      <3>1. i - 1 \in 1..Len(s) /\ t[i] = s[i - 1] /\ i - 1 < j - 1
        BY <1>2, <1>3, <2>1, <2>4
      <3> QED
        BY <2>2, <3>1 DEF Shape, Nested
    <2> QED
      BY <2>3, <2>4
  <1>5. NoSignals(a, t) /\ \A i \in 1..Len(t) : TodoOK(a, t[i])
    <2>1. 1 \in 1..Len(s)
      BY <1>2
    <2>2. a.kind[f.of] # "signal"
      BY <2>1 DEF Shape, NoSignals, Working
    <2>3. TodoOK(a, f)
      BY DEF TodoOK
    <2> QED
      BY <1>1, <1>3, <2>2, <2>3 DEF Shape, NoSignals
  <1>6. Paired(t)
    <2>1. SUFFICES ASSUME NEW i \in 1..Len(t)
                   PROVE  /\ t[i].op = "run" => i + 1 \in 1..Len(t) /\ t[i + 1].op = "settle"
                                                /\ t[i + 1].of = t[i].of
                          /\ t[i].op = "settle" /\ i > 1 => t[i - 1].op = "run"
      BY DEF Paired
    <2>2. CASE i = 1
      <3>1. i + 1 \in 1..Len(t) /\ t[i + 1] = s[1]
        BY <1>1, <1>2, <2>2
      <3> QED
        BY <1>1, <2>2, <3>1
    <2>3. CASE i # 1
      <3> DEFINE j == i - 1
      <3>1. j \in 1..Len(s) /\ t[i] = s[j] /\ j + 1 = i
        BY <1>3, <2>3
      <3> HIDE DEF j
      <3>2. ASSUME s[j].op = "run"
            PROVE  i + 1 \in 1..Len(t) /\ t[i + 1].op = "settle" /\ t[i + 1].of = t[i].of
        <4>1. j + 1 \in 1..Len(s) /\ s[j + 1].op = "settle" /\ s[j + 1].of = s[j].of
          BY <3>1, <3>2 DEF Shape, Paired
        <4>2. i + 1 \in 1..Len(t) /\ t[i + 1] = s[j + 1]
          BY <1>1, <1>2, <3>1, <4>1
        <4> QED
          BY <3>1, <4>1, <4>2
      <3>3. ASSUME s[j].op = "settle" PROVE t[i - 1].op = "run"
        <4>1. CASE j = 1
          BY <1>1, <3>1, <4>1
        <4>2. CASE j # 1
          <5>1. j > 1 /\ j - 1 \in 1..Len(s)
            BY <1>2, <3>1, <4>2
          <5>2. s[j - 1].op = "run"
            BY <3>1, <3>3, <5>1 DEF Shape, Paired
          <5>3. t[i - 1] = s[j - 1]
            BY <1>1, <1>2, <3>1, <5>1
          <5> QED
            BY <5>2, <5>3
        <4> QED
          BY <4>1, <4>2
      <3> QED
        BY <3>1, <3>2, <3>3
    <2> QED
      BY <2>2, <2>3
  <1>7. Watching(f.of, t, 1)
    <2>1. 1 \in 1..Len(t) /\ \A i \in 1..(1 - 1) : FALSE
      BY <1>1, <1>2
    <2> QED
      BY <1>1, <2>1 DEF Watching
  <1>8. Watched(t)
    <2>1. SUFFICES ASSUME NEW i \in 1..Len(t), t[i].op = "run"
                   PROVE  Watching(t[i].prev, t, i + 1)
      BY DEF Watched
    <2>2. CASE i = 1
      <3>1. Watching(o, s, 1) <=> Watching(o, t, 1 + 1)
        BY <1>1, WatchingShifted
      <3> QED
        BY <1>1, <2>2, <3>1 DEF Shape
    <2>3. CASE i # 1
      <3> DEFINE j == i - 1
      <3>1. j \in 1..Len(s) /\ t[i] = s[j] /\ j + 1 = i /\ j + 1 \in Nat /\ j + 1 >= 1
        BY <1>1, <1>2, <1>3, <2>1, <2>3
      <3> HIDE DEF j
      <3>2. Watching(s[j].prev, s, j + 1)
        BY <2>1, <3>1 DEF Shape, Watched
      <3>3. \A k \in (j + 1)..Len(s) : k \in 1..Len(s)
        BY <1>2, <3>1
      <3>4. Watching(s[j].prev, s, j + 1) <=> Watching(s[j].prev, t, (j + 1) + 1)
        BY <1>1, <3>1, <3>3, WatchingShifted
      <3> QED
        BY <3>1, <3>2, <3>4
    <2> QED
      BY <2>2, <2>3
  <1>9. Shape(a, t, f.of)
    BY <1>4, <1>5, <1>6, <1>7, <1>8 DEF Shape
  <1> QED
    BY <1>9 DEF t

\* A visit becomes the call that settles its node.
LEMMA ShapeSettle ==
  ASSUME NEW a, NEW o, NEW s \in Seq(TypedFrame), Shape(a, s, o), s # <<>>,
         s[1].op = "visit",
         NEW f \in TypedFrame, f.op = "settle", f.of = s[1].of
  PROVE  /\ Shape(a, <<f>> \o Tail(s), o)
         /\ \A i \in 1..Len(Tail(s)) : MayRest(a, f, Tail(s)[i]) /\ MayRest(a, s[1], Tail(s)[i])
  <1>1. /\ Tail(s) \in Seq(TypedFrame) /\ Len(s) = Len(Tail(s)) + 1 /\ Head(s) = s[1]
        /\ \A i \in 1..Len(Tail(s)) : Tail(s)[i] = s[i + 1]
    BY Popped
  <1> DEFINE r == Tail(s)
  <1>2. /\ r \in Seq(TypedFrame) /\ Len(s) = Len(r) + 1 /\ Len(r) \in Nat
        /\ \A i \in 1..Len(r) : r[i] = s[i + 1]
    BY <1>1
  <1>3. Shape(a, r, o)
    BY <1>1, ShapePop
  <1> HIDE DEF r
  <1>4. \A i \in 1..Len(r) : MayRest(a, s[1], r[i])
    <2>1. SUFFICES ASSUME NEW i \in 1..Len(r) PROVE MayRest(a, s[1], r[i])
      OBVIOUS
    <2>2. 1 \in 1..Len(s) /\ i + 1 \in 1..Len(s) /\ 1 < i + 1
      BY <1>2
    <2> QED
      BY <1>2, <2>2 DEF Shape, Nested
  <1>5. \A i \in 1..Len(r) : MayRest(a, f, r[i])
    BY <1>4 DEF MayRest, MemoCall, Working
  <1>6. a.kind[f.of] # "signal" /\ TodoOK(a, f)
    <2>1. 1 \in 1..Len(s)
      BY <1>2
    <2> QED
      BY <2>1 DEF Shape, NoSignals, Working, TodoOK
  <1>7. ASSUME r # <<>> PROVE r[1].op # "settle"
    <2>1. 1 \in 1..Len(r) /\ 2 \in 1..Len(s) /\ r[1] = s[2]
      BY <1>2, <1>7
    <2>2. s[2].op = "settle" => s[1].op = "run"
      BY <2>1 DEF Shape, Paired
    <2> QED
      BY <2>1, <2>2
  <1>8. Shape(a, <<f>> \o r, o)
    BY <1>2, <1>3, <1>5, <1>6, <1>7, ShapePush
  <1> QED
    BY <1>4, <1>5, <1>8 DEF r

\* op is in progress for n.
Called(s, op, n) == \E i \in 1..Len(s) : s[i].op = op /\ s[i].of = n

LEMMA CalledPush ==
  ASSUME NEW s \in Seq(TypedFrame), NEW f \in TypedFrame, NEW op, NEW n
  PROVE  Called(<<f>> \o s, op, n) <=> Called(s, op, n) \/ (f.op = op /\ f.of = n)
  <1> DEFINE t == <<f>> \o s
  <1>1. /\ t \in Seq(TypedFrame) /\ Len(t) = Len(s) + 1 /\ t[1] = f /\ Len(s) \in Nat
        /\ \A i \in 1..Len(s) : t[i + 1] = s[i]
        /\ \A i \in 2..(Len(s) + 1) : t[i] = s[i - 1]
    BY Pushed
  <1> HIDE DEF t
  <1>2. \A i \in 1..Len(t) : i = 1 \/ (i - 1 \in 1..Len(s) /\ t[i] = s[i - 1])
    BY <1>1
  <1>3. 1 \in 1..Len(t) /\ \A i \in 1..Len(s) : i + 1 \in 1..Len(t)
    BY <1>1
  <1>4. Called(t, op, n) <=> Called(s, op, n) \/ (f.op = op /\ f.of = n)
    BY <1>1, <1>2, <1>3 DEF Called
  <1> QED
    BY <1>4 DEF t

LEMMA CalledPop ==
  ASSUME NEW s \in Seq(TypedFrame), s # <<>>, NEW op, NEW n
  PROVE  Called(s, op, n) <=> Called(Tail(s), op, n) \/ (Head(s).op = op /\ Head(s).of = n)
  <1> DEFINE t == Tail(s)
  <1>1. /\ t \in Seq(TypedFrame) /\ Len(s) = Len(t) + 1 /\ Head(s) = s[1] /\ Len(t) \in Nat
        /\ \A i \in 1..Len(t) : t[i] = s[i + 1]
    BY Popped
  <1> HIDE DEF t
  <1>2. \A i \in 1..Len(s) : i = 1 \/ (i - 1 \in 1..Len(t) /\ s[i] = t[i - 1])
    BY <1>1
  <1>3. 1 \in 1..Len(s) /\ \A i \in 1..Len(t) : i + 1 \in 1..Len(s)
    BY <1>1
  <1>4. Called(s, op, n) <=> Called(t, op, n) \/ (Head(s).op = op /\ Head(s).of = n)
    BY <1>1, <1>2, <1>3 DEF Called
  <1> QED
    BY <1>4 DEF t

LEMMA CalledSwap ==
  ASSUME NEW s \in Seq(TypedFrame), s # <<>>, NEW f \in TypedFrame,
         f.op = Head(s).op, f.of = Head(s).of, NEW op, NEW n
  PROVE  Called(<<f>> \o Tail(s), op, n) <=> Called(s, op, n)
  <1>1. Tail(s) \in Seq(TypedFrame)
    BY Popped
  <1>2. Called(<<f>> \o Tail(s), op, n) <=> Called(Tail(s), op, n) \/ (f.op = op /\ f.of = n)
    BY <1>1, CalledPush
  <1>3. Called(s, op, n) <=> Called(Tail(s), op, n) \/ (Head(s).op = op /\ Head(s).of = n)
    BY CalledPop
  <1> QED
    BY <1>2, <1>3

\* A memo is called once; only its own settling is below its closure.
LEMMA CalledOnce ==
  ASSUME NEW a \in App, NEW o, NEW s \in Seq(TypedFrame), Shape(a, s, o), s # <<>>,
         MemoCall(a, Head(s)), NEW op \in Working, Called(Tail(s), op, Head(s).of)
  PROVE  Head(s).op = "run" /\ op = "settle"
  <1> DEFINE t == Tail(s)
  <1>1. /\ t \in Seq(TypedFrame) /\ Len(s) = Len(t) + 1 /\ Head(s) = s[1] /\ Len(t) \in Nat
        /\ \A i \in 1..Len(t) : t[i] = s[i + 1]
    BY Popped
  <1> HIDE DEF t
  <1>2. PICK i \in 1..Len(t) : t[i].op = op /\ t[i].of = Head(s).of
    BY DEF Called, t
  <1>3. 1 \in 1..Len(s) /\ i + 1 \in 1..Len(s) /\ 1 < i + 1 /\ s[i + 1] = t[i]
    BY <1>1
  <1>4. MayRest(a, s[1], s[i + 1])
    BY <1>3 DEF Shape, Nested
  <1>5. MemoCall(a, s[i + 1]) /\ Pulls(a, s[i + 1])
    BY <1>1, <1>2, <1>3 DEF MemoCall, Pulls
  <1>6. s[1].of \in Node
    BY <1>1, <1>3, FrameFields DEF MemoCall, Working
  <1>7. ~(a.order[s[1].of] < a.order[s[1].of])
    BY <1>6, AppAssumption
  <1> QED
    BY <1>1, <1>2, <1>3, <1>4, <1>5, <1>7 DEF MayRest

LEMMA CalmCalls ==
  ASSUME NEW a, NEW o, NEW s \in Seq(TypedFrame), Shape(a, s, o), s # <<>>,
         ~Pulls(a, Head(s)), NEW n, a.kind[n] = "memo", NEW op \in Working
  PROVE  ~Called(s, op, n)
  <1>1. Head(s) = s[1]
    BY Popped
  <1> QED
    BY <1>1, Calm DEF Called, Pulls, MemoCall

\* One call on top of another that goes on.
LEMMA ShapeSwapPush ==
  ASSUME NEW a, NEW o, NEW s \in Seq(TypedFrame), Shape(a, s, o), s # <<>>,
         NEW g \in TypedFrame, g.op = Head(s).op, g.of = Head(s).of, g.prev = Head(s).prev,
         TodoOK(a, g), Head(s).op # "settle",
         NEW f \in TypedFrame, f.op # "run", TodoOK(a, f),
         f.op \in Working => a.kind[f.of] # "signal",
         \A i \in 1..Len(s) : MayRest(a, f, s[i])
  PROVE  /\ Shape(a, <<f>> \o (<<g>> \o Tail(s)), o)
         /\ <<f>> \o (<<g>> \o Tail(s)) \in Seq(TypedFrame)
  <1> DEFINE r == Tail(s)
             t == <<g>> \o r
  <1>1. /\ r \in Seq(TypedFrame) /\ Len(s) = Len(r) + 1 /\ Head(s) = s[1] /\ Len(r) \in Nat
        /\ \A i \in 1..Len(r) : r[i] = s[i + 1]
    BY Popped
  <1>2. Shape(a, t, o)
    BY ShapeSwap
  <1> HIDE DEF r
  <1>3. /\ t \in Seq(TypedFrame) /\ Len(t) = Len(r) + 1 /\ t[1] = g
        /\ \A i \in 2..(Len(r) + 1) : t[i] = r[i - 1]
    BY <1>1, Pushed
  <1> HIDE DEF t
  <1>4. \A i \in 1..Len(t) : i = 1 \/ (i \in 2..(Len(r) + 1) /\ i - 1 \in 1..Len(r) /\ (i - 1) + 1 = i)
    BY <1>1, <1>3
  <1>5. \A i \in 1..Len(t) : i = 1 \/ t[i] = s[i]
    BY <1>1, <1>3, <1>4
  <1>6. \A i \in 1..Len(t) : i \in 1..Len(s)
    BY <1>1, <1>3
  <1>7. \A i \in 1..Len(t) : MayRest(a, f, t[i])
    BY <1>1, <1>3, <1>5, <1>6 DEF MayRest, Pulls, MemoCall
  <1>8. Shape(a, <<f>> \o t, o)
    BY <1>1, <1>2, <1>3, <1>7, ShapePush
  <1>9. <<f>> \o t \in Seq(TypedFrame)
    BY <1>3, Pushed
  <1> QED
    BY <1>8, <1>9 DEF t, r

LEMMA Joined ==
  ASSUME NEW T, NEW s \in Seq(T), NEW t \in Seq(T)
  PROVE  /\ s \o t \in Seq(T) /\ Len(s \o t) = Len(s) + Len(t)
         /\ \A i \in 1..Len(s) : (s \o t)[i] = s[i]
         /\ \A i \in 1..Len(t) : (s \o t)[i + Len(s)] = t[i]
  OBVIOUS

\* notify(n, m) is still to be called.
Asked(q, n, m) == \E k \in 1..Len(q) : q[k].node = n /\ q[k].mark = m

LEMMA AskedMarks ==
  ASSUME NEW s \in Seq(Node), NEW q \in Seq(Mark), NEW mk \in {"Check", "Dirty"},
         NEW n, NEW m
  PROVE  /\ Asked(Marks(s, mk), n, m) <=> Contains(s, n) /\ m = mk
         /\ Asked(Marks(s, mk) \o q, n, m) <=> (Contains(s, n) /\ m = mk) \/ Asked(q, n, m)
         /\ q # <<>> => (Asked(q, n, m) <=>
              (Head(q).node = n /\ Head(q).mark = m) \/ Asked(Tail(q), n, m))
  <1> DEFINE t == Marks(s, mk)
  <1>1. /\ t \in Seq(Mark) /\ Len(t) = Len(s) /\ Len(s) \in Nat /\ Len(q) \in Nat
        /\ \A i \in 1..Len(s) : t[i].node = s[i] /\ t[i].mark = mk
    <2>1. t \in Seq(Mark)
      BY MarksType
    <2> QED
      BY <2>1 DEF Marks
  <1> HIDE DEF t
  <1>2. Asked(t, n, m) <=> Contains(s, n) /\ m = mk
    BY <1>1 DEF Asked, Contains
  <1>3. Asked(t \o q, n, m) <=> Asked(t, n, m) \/ Asked(q, n, m)
    <2> DEFINE u == t \o q
    <2>1. /\ Len(u) = Len(t) + Len(q)
          /\ \A i \in 1..Len(t) : u[i] = t[i]
          /\ \A i \in 1..Len(q) : u[i + Len(t)] = q[i]
      <3>1. t \in Seq(Mark) /\ q \in Seq(Mark)
        BY <1>1
      <3> QED
        BY <3>1, Joined
    <2> HIDE DEF u
    <2>2. \A i \in 1..Len(u) : i \in 1..Len(t) \/ (i - Len(t) \in 1..Len(q) /\ i = (i - Len(t)) + Len(t))
      BY <1>1, <2>1
    <2>3. /\ \A i \in 1..Len(t) : i \in 1..Len(u)
          /\ \A i \in 1..Len(q) : i + Len(t) \in 1..Len(u)
      BY <1>1, <2>1
    <2>5. \A i \in 1..Len(u) : i \in 1..Len(t) \/ (i - Len(t) \in 1..Len(q) /\ u[i] = q[i - Len(t)])
      BY <2>1, <2>2
    <2>6. Asked(u, n, m) => Asked(t, n, m) \/ Asked(q, n, m)
      BY <2>1, <2>5 DEF Asked
    <2>7. Asked(t, n, m) => Asked(u, n, m)
      BY <2>1, <2>3 DEF Asked
    <2>8. Asked(q, n, m) => Asked(u, n, m)
      <3>1. SUFFICES ASSUME NEW i \in 1..Len(q), q[i].node = n, q[i].mark = m
                     PROVE  Asked(u, n, m)
        BY DEF Asked
      <3>2. i + Len(t) \in 1..Len(u) /\ u[i + Len(t)] = q[i]
        BY <2>1, <2>3
      <3> QED
        BY <3>1, <3>2 DEF Asked
    <2>4. Asked(u, n, m) <=> Asked(t, n, m) \/ Asked(q, n, m)
      BY <2>6, <2>7, <2>8
    <2> QED
      BY <2>4 DEF u
  <1>4. ASSUME q # <<>>
        PROVE  Asked(q, n, m) <=>
                 (Head(q).node = n /\ Head(q).mark = m) \/ Asked(Tail(q), n, m)
    <2> DEFINE r == Tail(q)
    <2>1. /\ r \in Seq(Mark) /\ Len(q) = Len(r) + 1 /\ Head(q) = q[1] /\ Len(r) \in Nat
          /\ \A i \in 1..Len(r) : r[i] = q[i + 1]
      BY <1>4, Popped
    <2> HIDE DEF r
    <2>2. \A i \in 1..Len(q) : i = 1 \/ (i - 1 \in 1..Len(r) /\ q[i] = r[i - 1])
      BY <2>1
    <2>3. 1 \in 1..Len(q) /\ \A i \in 1..Len(r) : i + 1 \in 1..Len(q)
      BY <2>1
    <2>4. Asked(q, n, m) <=> (Head(q).node = n /\ Head(q).mark = m) \/ Asked(r, n, m)
      BY <2>1, <2>2, <2>3 DEF Asked
    <2> QED
      BY <2>4 DEF r
  <1> QED
    BY <1>2, <1>3, <1>4 DEF t

LinksOK ==
  \A m, n \in Node : DependsOn(m, n) =>
    /\ ~IsSignal(m) /\ ~IsEffect(n)
    /\ IsMemo(m) => app.order[n] < app.order[m]

SignalsClean ==
  \A n \in Node : IsSignal(n) =>
    state[n] = "Clean" /\ \A m : ~Asked(agenda, n, m)

\* A memo is brought up to date only when it is marked; while its closure runs
\* it stays Dirty.
CallMarks ==
  \A n \in Node : IsMemo(n) =>
    /\ Called(stack, "visit", n) => state[n] # "Clean"
    /\ Called(stack, "settle", n) => state[n] = "Dirty"
    /\ Called(stack, "run", n) => state[n] = "Dirty"

\* The computation of a living memo is out of place while it runs.
MemosReady ==
  \A n \in Node : IsMemo(n) =>
    /\ n \notin alive => n \notin ready /\ sources[n] = <<>>
    /\ n \in alive /\ n \notin ready <=> Called(stack, "run", n)

CallsInv ==
  /\ LinksAgree /\ LinksOK /\ SignalsClean
  /\ Shape(app, stack, observer) /\ CallMarks /\ MemosReady

\* The closure that reads is the innermost one; for a memo it is on top.
LEMMA Watcher ==
  ASSUME StoreType, StackType(stack, depth), Shape(app, stack, observer)
  PROVE  /\ observer # None => observer \in Node /\ ~IsSignal(observer)
         /\ stack # <<>> /\ Top.op = "run" => observer = Top.of
         /\ InCode /\ observer \in Node /\ IsMemo(observer) => Top.op = "run"
  <1>1. stack \in Seq(TypedFrame) /\ Watching(observer, stack, 1) /\ Nested(app, stack)
        /\ NoSignals(app, stack)
    BY DEF StackType, Shape
  <1>2. observer # None => observer \in Node
    BY DEF StoreType
  <1>3. observer \in Node => \E j \in 1..Len(stack) :
          /\ stack[j].op = "run" /\ stack[j].of = observer
          /\ \A i \in 1..(j - 1) : stack[i].op # "run"
    BY <1>1, NamesAssumption DEF Watching
  <1>4. observer \in Node => ~IsSignal(observer)
    BY <1>1, <1>3 DEF NoSignals, Working, IsSignal
  <1>5. ASSUME stack # <<>>, Top.op = "run" PROVE observer = Top.of
    <2>1. Top = stack[1] /\ 1 \in 1..Len(stack) /\ Len(stack) \in Nat
      BY <1>1, <1>5, Popped DEF Top
    <2>2. ~(\A i \in 1..Len(stack) : stack[i].op # "run")
      BY <1>5, <2>1
    <2>3. PICK j \in 1..Len(stack) :
            /\ stack[j].op = "run" /\ stack[j].of = observer
            /\ \A i \in 1..(j - 1) : stack[i].op # "run"
      BY <1>1, <2>2 DEF Watching
    <2>4. j = 1
      <3>1. 1 \in 1..(j - 1) => FALSE
        BY <1>5, <2>1, <2>3
      <3> QED
        BY <2>1, <2>3, <3>1
    <2> QED
      BY <2>1, <2>3, <2>4
  <1>6. ASSUME InCode, observer \in Node, IsMemo(observer) PROVE Top.op = "run"
    <2>1. stack # <<>> /\ Top.op \in {"run", "handler", "batch"}
      BY <1>6 DEF InCode, At
    <2>2. Top = stack[1] /\ 1 \in 1..Len(stack) /\ Len(stack) \in Nat
      BY <1>1, <2>1, Popped DEF Top
    <2>3. PICK j \in 1..Len(stack) : stack[j].op = "run" /\ stack[j].of = observer
      BY <1>3, <1>6
    <2>4. CASE j = 1
      BY <2>2, <2>3, <2>4
    <2>5. CASE j # 1
      <3>1. 1 < j /\ MayRest(app, stack[1], stack[j])
        BY <1>1, <2>2, <2>3, <2>5 DEF Nested
      <3>2. MemoCall(app, stack[1])
        BY <1>6, <2>3, <3>1 DEF MayRest, Pulls, MemoCall, Working, IsMemo
      <3> QED
        BY <2>1, <2>2, <3>2 DEF MemoCall, Working
    <2> QED
      BY <2>4, <2>5
  <1> QED
    BY <1>2, <1>4, <1>5, <1>6

\* What user code reads: never an effect, and a memo only older nodes.
LEMMA Reads ==
  ASSUME StoreType, StackType(stack, depth), Shape(app, stack, observer), Doing("get")
  PROVE  /\ Arg \in Node /\ ~IsEffect(Arg) /\ InCode
         /\ Top.op = "run" => Top.of \in Node /\ app.order[Arg] < app.order[Top.of]
         /\ observer \in Node /\ IsMemo(observer) =>
              Top.of = observer /\ app.order[Arg] < app.order[observer]
  <1>1. /\ InCode /\ Code[Top.pc].do = "get" /\ Arg = Code[Top.pc].of
        /\ WellTyped(app, Code[Top.pc])
        /\ Top.op = "run" => CodeOfNode(app, Top.of, Code[Top.pc])
    BY DoingFacts
  <1>2. /\ Top.op = "run" => Top.of \in Node
        /\ stack # <<>>
    BY <1>1, CodeFacts
  <1> QED
    BY <1>1, <1>2, Watcher DEF WellTyped, CodeOfNode, IsEffect

LEMMA LinksOKStep ==
  ASSUME TypeInv, CallsInv, [Next]_vars PROVE LinksOK' /\ app' = app
  <1>0. StoreType /\ StackType(stack, depth) /\ LinksAgree /\ LinksOK
        /\ Shape(app, stack, observer)
    BY TypeInvParts DEF CallsInv
  <1>a. app' = app
    BY DEF Next, Step, Notify, CheckSource, CheckPassed, Update, Return, Settle, FlushTake,
         FlushRun, FlushDone, GetStale, Get, Peek, Set, Mount, BuildBranch, BuildMounted, Jump,
         HandlerReturns, Dispose, DisposeChild, CallDispose, TakeCleanups, RunCleanup,
         DisposeNodes, Event, Dispatch, Rest, OnlyTheStack, vars
  <1>b. \A n \in Node : (IsSignal(n)' <=> IsSignal(n)) /\ (IsMemo(n)' <=> IsMemo(n))
                        /\ (IsEffect(n)' <=> IsEffect(n))
    BY <1>a DEF IsSignal, IsMemo, IsEffect
  <1>1. CASE LinksUntouched \/ UNCHANGED vars
    BY <1>0, <1>1, <1>a, <1>b, LinksUntouchedKept DEF LinksOK, DependsOn
  <1>2. CASE Update
    <2>1. Unlinked(Top.of) /\ Top.of \in Node
      BY <1>0, <1>2, TopFacts, FrameFields DEF Update, At
    <2> QED
      BY <1>0, <1>a, <1>b, <2>1, UnlinkedLinks DEF LinksOK
  <1>3. CASE GetStale \/ Get
    <2>1. Linked(Arg) /\ Doing("get")
      BY <1>3 DEF GetStale, Get
    <2>2. /\ Arg \in Node /\ ~IsEffect(Arg)
          /\ observer # None => observer \in Node /\ ~IsSignal(observer)
          /\ observer \in Node /\ IsMemo(observer) => app.order[Arg] < app.order[observer]
      BY <1>0, <2>1, Reads, Watcher
    <2>3. \A m, k \in Node :
              DependsOn(m, k)' <=> DependsOn(m, k) \/ (m = observer /\ k = Arg)
      BY <1>0, <2>1, <2>2, LinkedLinks
    <2>4. \A m \in Node : m = observer => m # None
      BY NamesAssumption
    <2> QED
      BY <1>0, <1>a, <1>b, <2>2, <2>3, <2>4 DEF LinksOK
  <1>4. CASE DisposeNodes
    BY <1>0, <1>4, <1>a, <1>b, DisposedLinks DEF LinksOK
  <1> QED
    BY <1>a, <1>1, <1>2, <1>3, <1>4, NextByLinks

\* What notify() does to the marks that are on their way.
LEMMA NotifyAsks ==
  ASSUME StoreType, Notify
  PROVE  LET n == Head(agenda).node
             m == Head(agenda).mark
         IN /\ agenda # <<>> /\ n \in Node /\ m \in {"Check", "Dirty"}
            /\ ~panicked
            /\ \A k, mk : Asked(agenda, k, mk) <=> (k = n /\ mk = m) \/ Asked(Tail(agenda), k, mk)
            /\ Rank[state[n]] >= Rank[m] =>
                 UNCHANGED state /\ \A k, mk : Asked(agenda', k, mk) <=> Asked(Tail(agenda), k, mk)
            /\ ~(Rank[state[n]] >= Rank[m]) =>
                 /\ state' = [state EXCEPT ![n] = m]
                 /\ \A k, mk : Asked(agenda', k, mk) <=>
                      (Contains(observers[n], k) /\ mk = "Check") \/ Asked(Tail(agenda), k, mk)
            /\ UNCHANGED <<app, value, links, ready, alive, scopes, observer, depth,
                           stack, panicked, ghosts>>
  <1> DEFINE h == Head(agenda)
             n == h.node
             m == h.mark
             q == Tail(agenda)
  <1>1. agenda # <<>> /\ agenda \in Seq(Mark) /\ ~panicked
    BY DEF Notify, StoreType
  <1>2. q \in Seq(Mark) /\ h \in Mark
    BY <1>1
  <1>3. n \in Node /\ m \in {"Check", "Dirty"}
    BY <1>2 DEF Mark
  <1>4. observers[n] \in Seq(Node)
    BY <1>3 DEF StoreType
  <1>5. \A k, mk : /\ Asked(agenda, k, mk) <=> (n = k /\ m = mk) \/ Asked(q, k, mk)
                   /\ Asked(Marks(observers[n], "Check") \o q, k, mk) <=>
                        (Contains(observers[n], k) /\ mk = "Check") \/ Asked(q, k, mk)
    <2>1. SUFFICES ASSUME NEW k, NEW mk
          PROVE  /\ Asked(agenda, k, mk) <=> (n = k /\ m = mk) \/ Asked(q, k, mk)
                 /\ Asked(Marks(observers[n], "Check") \o q, k, mk) <=>
                        (Contains(observers[n], k) /\ mk = "Check") \/ Asked(q, k, mk)
      OBVIOUS
    <2>2. Asked(agenda, k, mk) <=> (n = k /\ m = mk) \/ Asked(q, k, mk)
      BY <1>1, <1>4, AskedMarks
    <2>3. Asked(Marks(observers[n], "Check") \o q, k, mk) <=>
                        (Contains(observers[n], k) /\ mk = "Check") \/ Asked(q, k, mk)
      BY <1>2, <1>4, AskedMarks
    <2> QED
      BY <2>2, <2>3
  <1>6. /\ Rank[state[n]] >= Rank[m] => agenda' = q /\ UNCHANGED state
        /\ ~(Rank[state[n]] >= Rank[m]) =>
             agenda' = Marks(observers[n], "Check") \o q /\ state' = [state EXCEPT ![n] = m]
        /\ UNCHANGED <<app, value, links, ready, alive, scopes, observer, depth,
                           stack, panicked, ghosts>>
    BY DEF Notify, Onward
  <1> HIDE DEF h, n, m, q
  <1>7. \A k, mk : Asked(agenda, k, mk) <=> (k = n /\ mk = m) \/ Asked(q, k, mk)
    BY <1>5
  <1>8. \A k, mk : Asked(Marks(observers[n], "Check") \o q, k, mk) <=>
                        (Contains(observers[n], k) /\ mk = "Check") \/ Asked(q, k, mk)
    BY <1>5
  <1>9. Rank[state[n]] >= Rank[m] =>
          UNCHANGED state /\ \A k, mk : Asked(agenda', k, mk) <=> Asked(q, k, mk)
    BY <1>6
  <1>10. ~(Rank[state[n]] >= Rank[m]) =>
           /\ state' = [state EXCEPT ![n] = m]
           /\ \A k, mk : Asked(agenda', k, mk) <=>
                      (Contains(observers[n], k) /\ mk = "Check") \/ Asked(q, k, mk)
    BY <1>6, <1>8
  <1>11. UNCHANGED <<app, value, links, ready, alive, scopes, observer, depth,
                           stack, panicked, ghosts>>
    BY <1>6
  <1> QED
    BY <1>1, <1>3, <1>7, <1>9, <1>10, <1>11 DEF h, n, m, q

LEMMA EmptyAgenda == \A n, m : ~Asked(<<>>, n, m)
  BY DEF Asked

\* The other actions find no mark on its way, and only two send some.
LEMMA OthersAsk ==
  ASSUME StoreType, StackType(stack, depth), Step, ~Notify
  PROVE  /\ agenda = <<>>
         /\ \/ agenda' = <<>>
            \/ /\ Return /\ IsMemo(Top.of) /\ value[Top.of] # Top.acc /\ Top.of \in Node
               /\ \A k, mk : Asked(agenda', k, mk) <=> Contains(observers[Top.of], k) /\ mk = "Dirty"
            \/ /\ Set /\ value[Arg] # Top.acc /\ Arg \in Node
               /\ \A k, mk : Asked(agenda', k, mk) <=> Contains(observers[Arg], k) /\ mk = "Dirty"
  <1>1. \A s \in Seq(Node) : \A k, mk :
          Asked(Marks(s, "Dirty"), k, mk) <=> Contains(s, k) /\ mk = "Dirty"
    <2>1. <<>> \in Seq(Mark)
      OBVIOUS
    <2> QED
      BY <2>1, AskedMarks
  <1>2. CASE Return
    <2>1. stack # <<>> /\ Top.op = "run" /\ agenda = <<>>
      BY <1>2 DEF Return, At
    <2>2. Top.of \in Node
      BY <2>1, TopFacts, FrameFields
    <2>3. observers[Top.of] \in Seq(Node)
      BY <2>2 DEF StoreType
    <2>4. CASE IsMemo(Top.of) /\ value[Top.of] # Top.acc
      <3>1. agenda' = Marks(observers[Top.of], "Dirty")
        BY <1>2, <2>4 DEF Return, Woken
      <3> QED
        BY <1>1, <1>2, <2>1, <2>2, <2>3, <2>4, <3>1
    <2>5. CASE ~(IsMemo(Top.of) /\ value[Top.of] # Top.acc)
      <3>1. agenda' = agenda
        BY <1>2, <2>5 DEF Return
      <3> QED
        BY <2>1, <3>1
    <2> QED
      BY <2>4, <2>5
  <1>3. CASE Set
    <2>1. Arg \in Node /\ agenda = <<>>
      BY <1>3, DoingFacts, CodeFacts DEF Set, WellTyped
    <2>2. observers[Arg] \in Seq(Node)
      BY <2>1 DEF StoreType
    <2>3. CASE value[Arg] = Top.acc
      BY <1>3, <2>1, <2>3 DEF Set
    <2>4. CASE value[Arg] # Top.acc
      <3>1. agenda' = Marks(observers[Arg], "Dirty")
        BY <1>3, <2>4 DEF Set
      <3> QED
        BY <1>1, <1>3, <2>1, <2>2, <2>4, <3>1
    <2> QED
      BY <2>3, <2>4
  <1>4. CASE CheckSource \/ CheckPassed \/ Update \/ Settle \/ FlushTake \/ FlushRun \/ FlushDone
    BY <1>4 DEF CheckSource, CheckPassed, Update, Settle, FlushTake, FlushRun, FlushDone, At,
                OnlyTheStack
  <1>5. CASE GetStale \/ Get \/ Peek \/ Mount \/ BuildBranch \/ BuildMounted \/ Jump
    BY <1>5 DEF GetStale, Get, Peek, Mount, BuildBranch, BuildMounted, Jump, Doing, InCode, At,
                OnlyTheStack
  <1>6. CASE HandlerReturns \/ Dispose \/ DisposeChild \/ TakeCleanups \/ RunCleanup \/ DisposeNodes
    BY <1>6 DEF HandlerReturns, Dispose, DisposeChild, TakeCleanups, RunCleanup, DisposeNodes,
                CallDispose, Doing, InCode, At, OnlyTheStack
  <1> QED
    BY <1>2, <1>3, <1>4, <1>5, <1>6 DEF Step

\* What the actions do to the marks themselves.
LEMMA StatesStep ==
  ASSUME StoreType, StackType(stack, depth), Step, ~Notify
  PROVE  \/ UNCHANGED state
         \/ CheckPassed /\ Top.of \in Node /\ state' = [state EXCEPT ![Top.of] = "Clean"]
         \/ Settle /\ Top.of \in Node /\ state' = [state EXCEPT ![Top.of] = "Clean"]
         \/ Mount /\ Arg \in Node /\ IsEffect(Arg) /\ state' = [state EXCEPT ![Arg] = "Dirty"]
         \/ BuildBranch
         \/ DisposeNodes
  <1>1. CASE CheckPassed \/ Settle
    <2>1. stack # <<>> /\ Top.op \in {"visit", "settle"}
      BY <1>1 DEF CheckPassed, Settle, At
    <2>2. Top.of \in Node
      BY <2>1, TopFacts, FrameFields
    <2> QED
      BY <1>1, <2>2 DEF CheckPassed, Settle
  <1>2. CASE Mount
    <2>1. WellTyped(app, Code[Top.pc]) /\ Code[Top.pc].do = "mount" /\ Arg = Code[Top.pc].of
      BY <1>2, DoingFacts DEF Mount
    <2> QED
      BY <1>2, <2>1 DEF Mount, WellTyped, IsEffect
  <1>3. CASE CheckSource \/ Update \/ Return \/ FlushTake \/ FlushRun \/ FlushDone
    BY <1>3 DEF CheckSource, Update, Return, FlushTake, FlushRun, FlushDone, OnlyTheStack, graph
  <1>4. CASE GetStale \/ Get \/ Peek \/ Set \/ BuildMounted \/ Jump
    BY <1>4 DEF GetStale, Get, Peek, Set, BuildMounted, Jump, OnlyTheStack, graph
  <1>5. CASE HandlerReturns \/ Dispose \/ DisposeChild \/ TakeCleanups \/ RunCleanup
    BY <1>5 DEF HandlerReturns, Dispose, DisposeChild, TakeCleanups, RunCleanup, CallDispose,
                OnlyTheStack, graph
  <1> QED
    BY <1>1, <1>2, <1>3, <1>4, <1>5 DEF Step

LEMMA SignalsStep ==
  ASSUME TypeInv, CallsInv, [Next]_vars PROVE SignalsClean'
  <1>0. StoreType /\ StackType(stack, depth) /\ LinksAgree /\ LinksOK /\ SignalsClean
    BY TypeInvParts DEF CallsInv
  <1>a. \A n \in Node : IsSignal(n)' <=> IsSignal(n)
    BY LinksOKStep DEF IsSignal
  <1>b. \A n, k \in Node : Contains(observers[n], k) => ~IsSignal(k)
    BY <1>0 DEF LinksAgree, LinksOK, DependsOn
  <1>1. CASE UNCHANGED <<state, agenda>>
    BY <1>0, <1>1, <1>a DEF SignalsClean
  <1>2. CASE Notify
    <2> DEFINE n == Head(agenda).node
               m == Head(agenda).mark
    <2>1. /\ n \in Node
          /\ \A k, mk : Asked(agenda, k, mk) <=> (k = n /\ mk = m) \/ Asked(Tail(agenda), k, mk)
          /\ Rank[state[n]] >= Rank[m] =>
                 UNCHANGED state /\ \A k, mk : Asked(agenda', k, mk) <=> Asked(Tail(agenda), k, mk)
          /\ ~(Rank[state[n]] >= Rank[m]) =>
                 /\ state' = [state EXCEPT ![n] = m]
                 /\ \A k, mk : Asked(agenda', k, mk) <=>
                      (Contains(observers[n], k) /\ mk = "Check") \/ Asked(Tail(agenda), k, mk)
      BY <1>0, <1>2, NotifyAsks
    <2> HIDE DEF n, m
    <2>2. ~IsSignal(n)
      BY <1>0, <2>1 DEF SignalsClean
    <2>3. \A k \in Node : IsSignal(k) => state'[k] = state[k]
      BY <1>0, <2>1, <2>2 DEF StoreType
    <2>4. \A k \in Node : IsSignal(k) => \A mk : ~Asked(agenda', k, mk)
      BY <1>0, <1>b, <2>1 DEF SignalsClean
    <2> QED
      BY <1>0, <1>a, <2>3, <2>4 DEF SignalsClean
  <1>3. CASE Step /\ ~Notify
    <2>1. \A k \in Node : IsSignal(k) => \A mk : ~Asked(agenda', k, mk)
      BY <1>0, <1>b, <1>3, OthersAsk, EmptyAgenda
    <2>2. \A k \in Node : IsSignal(k) => state'[k] = "Clean"
      <3>1. CASE BuildBranch
        <4>1. \A k \in Node : state'[k] = "Clean" \/ state'[k] = state[k] \/ ~IsSignal(k)
          BY <3>1 DEF BuildBranch
        <4> QED
          BY <1>0, <4>1 DEF SignalsClean
      <3>2. CASE DisposeNodes
        <4>1. \A k \in Node : state'[k] = "Clean" \/ state'[k] = state[k]
          BY <3>2, DisposeNodesParts
        <4> QED
          BY <1>0, <4>1 DEF SignalsClean
      <3>3. CASE ~BuildBranch /\ ~DisposeNodes
        <4>1. \/ UNCHANGED state
              \/ Top.of \in Node /\ state' = [state EXCEPT ![Top.of] = "Clean"]
              \/ Arg \in Node /\ IsEffect(Arg) /\ state' = [state EXCEPT ![Arg] = "Dirty"]
          BY <1>0, <1>3, <3>3, StatesStep
        <4>2. \A k \in Node : IsSignal(k) => ~IsEffect(k)
          BY DEF IsSignal, IsEffect
        <4>3. \A k \in Node : IsSignal(k) => state[k] = "Clean"
          BY <1>0 DEF SignalsClean
        <4>4. state \in [Node -> NodeState]
          BY <1>0 DEF StoreType
        <4> QED
          BY <4>1, <4>2, <4>3, <4>4
      <3> QED
        BY <3>1, <3>2, <3>3
    <2> QED
      BY <1>a, <2>1, <2>2 DEF SignalsClean
  <1>4. CASE Event \/ Rest
    BY <1>1, <1>4 DEF Event, Dispatch, Rest, graph, vars
  <1>5. CASE UNCHANGED vars
    BY <1>1, <1>5 DEF graph, vars
  <1> QED
    BY <1>2, <1>3, <1>4, <1>5 DEF Next, Step

\* A step that takes no memo's computation out or back.
LEMMA MemosKept ==
  ASSUME CallMarks, MemosReady, app' = app,
         \A n \in Node : IsMemo(n) =>
           /\ n \in alive' <=> n \in alive
           /\ n \in ready' <=> n \in ready
           /\ n \notin alive => sources'[n] = sources[n]
           /\ state[n] # "Clean" => state'[n] # "Clean"
           /\ state[n] = "Dirty" => state'[n] = "Dirty"
           /\ Called(stack', "visit", n) => Called(stack, "visit", n) \/ state[n] # "Clean"
           /\ Called(stack', "settle", n) => Called(stack, "settle", n)
           /\ Called(stack', "run", n) <=> Called(stack, "run", n)
  PROVE  CallMarks' /\ MemosReady'
  BY DEF CallMarks, MemosReady, IsMemo

\* Entering update_if_necessary.
LEMMA ShapeVisit ==
  ASSUME StoreType, LinksOK, SignalsClean,
         NEW s \in Seq(TypedFrame), NEW o, Shape(app, s, o),
         s # <<>> => s[1].op # "settle", NEW n \in Node,
         state[n] # "Clean" => \A i \in 1..Len(s) : MayRest(app, NewFrame("visit", n, <<>>), s[i])
  PROVE  /\ Shape(app, Visit(n, s), o) /\ Visit(n, s) \in Seq(TypedFrame)
         /\ \A op, m : Called(Visit(n, s), op, m) <=>
              Called(s, op, m) \/ (state[n] # "Clean" /\ op = "visit" /\ m = n)
  <1>1. CASE state[n] = "Clean"
    BY <1>1 DEF Visit
  <1>2. CASE state[n] # "Clean"
    <2>1. PICK t \in Seq(Node) : /\ Visit(n, s) = <<NewFrame("visit", n, t)>> \o s
                                 /\ t = sources[n] \/ t = <<>>
      <3>1. state[n] \in {"Check", "Dirty"}
        BY <1>2 DEF StoreType, NodeState
      <3>2. sources[n] \in Seq(Node) /\ <<>> \in Seq(Node)
        BY DEF StoreType
      <3> QED
        BY <3>1, <3>2 DEF Visit
    <2> DEFINE f == NewFrame("visit", n, t)
    <2>2. f \in TypedFrame /\ f.op = "visit" /\ f.of = n /\ f.todo = t
      BY NewFrames DEF NewFrame
    <2>3. Visit(n, s) = <<f>> \o s
      BY <2>1
    <2> HIDE DEF f
    <2>4. TodoOK(app, f)
      <3>1. SUFFICES ASSUME NEW k \in 1..Len(t)
                     PROVE /\ app.kind[t[k]] # "effect"
                           /\ app.kind[n] = "memo" => app.order[t[k]] < app.order[n]
        BY <2>2 DEF TodoOK
      <3>2. t = sources[n]
        BY <2>1, <3>1
      <3>3. t[k] \in Node /\ DependsOn(n, t[k])
        BY <3>1, <3>2 DEF DependsOn, Contains
      <3> QED
        BY <3>3 DEF LinksOK, IsMemo, IsEffect
    <2>5. app.kind[f.of] # "signal"
      BY <1>2, <2>2 DEF SignalsClean, IsSignal
    <2>6. \A i \in 1..Len(s) : MayRest(app, f, s[i])
      BY <1>2, <2>2 DEF MayRest, MemoCall, NewFrame
    <2>7. Shape(app, <<f>> \o s, o)
      BY <2>2, <2>4, <2>5, <2>6, ShapePush
    <2>8. <<f>> \o s \in Seq(TypedFrame)
      BY <2>2, Pushed
    <2>9. \A op, m : Called(<<f>> \o s, op, m) <=> Called(s, op, m) \/ (f.op = op /\ f.of = m)
      BY <2>2, CalledPush
    <2> QED
      BY <1>2, <2>2, <2>3, <2>7, <2>8, <2>9
  <1> QED
    BY <1>1, <1>2

\* A call that goes on is still about the same thing.
LEMMA FrameSame ==
  ASSUME NEW f \in TypedFrame, NEW k, NEW v, NEW t
  PROVE  /\ [f EXCEPT !.pc = k].op = f.op /\ [f EXCEPT !.pc = k].of = f.of
         /\ [f EXCEPT !.pc = k].prev = f.prev
         /\ [[f EXCEPT !.pc = k] EXCEPT !.acc = v].op = f.op
         /\ [[f EXCEPT !.pc = k] EXCEPT !.acc = v].of = f.of
         /\ [[f EXCEPT !.pc = k] EXCEPT !.acc = v].prev = f.prev
         /\ [f EXCEPT !.todo = t].op = f.op /\ [f EXCEPT !.todo = t].of = f.of
         /\ [f EXCEPT !.todo = t].prev = f.prev /\ [f EXCEPT !.todo = t].todo = t
         /\ [f EXCEPT !.pc = k, !.todo = t].op = f.op
         /\ [f EXCEPT !.pc = k, !.todo = t].of = f.of
         /\ [f EXCEPT !.pc = k, !.todo = t].prev = f.prev
  BY DEF TypedFrame, Frame

SameMemos ==
  /\ app' = app
  /\ \A n \in Node : IsMemo(n) =>
       /\ n \in alive' <=> n \in alive
       /\ n \in ready' <=> n \in ready
       /\ n \notin alive => sources'[n] = sources[n]
       /\ state'[n] = state[n]

\* The innermost call goes on.
LEMMA CallsMoved ==
  ASSUME StoreType, StackType(stack, depth), CallsInv, SameMemos, observer' = observer,
         stack # <<>>, NEW f \in TypedFrame, f.op = Top.op, f.of = Top.of, f.prev = Top.prev,
         TodoOK(app, f), stack' = <<f>> \o Below
  PROVE  Shape(app', stack', observer') /\ CallMarks' /\ MemosReady'
  <1>1. stack \in Seq(TypedFrame) /\ Shape(app, stack, observer) /\ CallMarks /\ MemosReady
    BY DEF StackType, CallsInv
  <1>2. Shape(app, stack', observer)
    BY <1>1, ShapeSwap DEF Top, Below
  <1>3. \A op, n : Called(stack', op, n) <=> Called(stack, op, n)
    BY <1>1, CalledSwap DEF Top, Below
  <1>4. CallMarks' /\ MemosReady'
    BY <1>1, <1>3, MemosKept DEF SameMemos
  <1> QED
    BY <1>2, <1>4 DEF SameMemos

\* While nothing is brought up to date, anything may be called.
LEMMA PushedShape ==
  ASSUME StoreType, StackType(stack, depth), Shape(app, stack, observer),
         stack # <<>>, ~Pulls(app, Top), Top.op # "settle",
         NEW f \in TypedFrame, f.op = Top.op, f.of = Top.of, f.prev = Top.prev, TodoOK(app, f),
         NEW h \in TypedFrame, h.op \notin {"run", "settle"}, TodoOK(app, h),
         h.op = "visit" => app.kind[h.of] = "effect",
         stack' = <<h>> \o (<<f>> \o Below)
  PROVE  /\ Shape(app, stack', observer)
         /\ \A op, n : Called(stack', op, n) <=> Called(stack, op, n) \/ (h.op = op /\ h.of = n)
  <1>1. stack \in Seq(TypedFrame)
    BY DEF StackType
  <1>2. Top = Head(stack) /\ Top = stack[1]
    BY <1>1, Popped DEF Top
  <1>3. \A i \in 1..Len(stack) : MayRest(app, h, stack[i])
    BY <1>1, <1>2, Calm DEF MayRest
  <1>4. Shape(app, stack', observer)
    BY <1>1, <1>2, <1>3, ShapeSwapPush DEF Top, Below, Working
  <1>5. \A op, n : Called(stack', op, n) <=> Called(stack, op, n) \/ (h.op = op /\ h.of = n)
    <2>1. SUFFICES ASSUME NEW op, NEW n
                   PROVE  Called(stack', op, n) <=> Called(stack, op, n) \/ (h.op = op /\ h.of = n)
      OBVIOUS
    <2>2. Called(<<f>> \o Below, op, n) <=> Called(stack, op, n)
      BY <1>1, CalledSwap DEF Top, Below
    <2>3. <<f>> \o Below \in Seq(TypedFrame)
      BY <1>1, Popped, Pushed DEF Below
    <2> QED
      BY <2>2, <2>3, CalledPush
  <1> QED
    BY <1>4, <1>5

LEMMA CallsPushed ==
  ASSUME StoreType, StackType(stack, depth), CallsInv, SameMemos, observer' = observer,
         stack # <<>>, ~Pulls(app, Top), Top.op # "settle",
         NEW f \in TypedFrame, f.op = Top.op, f.of = Top.of, f.prev = Top.prev, TodoOK(app, f),
         NEW h \in TypedFrame, h.op \notin {"run", "settle"}, TodoOK(app, h),
         h.op = "visit" => app.kind[h.of] = "effect",
         stack' = <<h>> \o (<<f>> \o Below)
  PROVE  Shape(app', stack', observer') /\ CallMarks' /\ MemosReady'
  <1>1. Shape(app, stack, observer) /\ CallMarks /\ MemosReady
    BY DEF CallsInv
  <1>2. /\ Shape(app, stack', observer)
        /\ \A op, n : Called(stack', op, n) <=> Called(stack, op, n) \/ (h.op = op /\ h.of = n)
    BY <1>1, PushedShape
  <1>6. \A n \in Node : IsMemo(n) => ~(h.op = "visit" /\ h.of = n)
    BY DEF IsMemo
  <1>7. CallMarks' /\ MemosReady'
    BY <1>1, <1>2, <1>6, MemosKept DEF SameMemos
  <1> QED
    BY <1>2, <1>7 DEF SameMemos

\* A call that is no closure returns.
LEMMA CallsPopped ==
  ASSUME StoreType, StackType(stack, depth), CallsInv, SameMemos, observer' = observer,
         stack # <<>>, Top.op # "run", stack' = Below
  PROVE  Shape(app', stack', observer') /\ CallMarks' /\ MemosReady'
  <1>1. stack \in Seq(TypedFrame) /\ Shape(app, stack, observer) /\ CallMarks /\ MemosReady
    BY DEF StackType, CallsInv
  <1>2. Shape(app, stack', observer)
    BY <1>1, ShapePop DEF Top, Below
  <1>3. \A op, n : Called(stack, op, n) <=> Called(stack', op, n) \/ (Top.op = op /\ Top.of = n)
    BY <1>1, CalledPop DEF Top, Below
  <1>4. CallMarks' /\ MemosReady'
    BY <1>1, <1>3, MemosKept DEF SameMemos
  <1> QED
    BY <1>2, <1>4 DEF SameMemos

\* User code that is not a memo's runs while nothing is brought up to date.
LEMMA NotPulling ==
  ASSUME StoreType, StackType(stack, depth), NEW i, i \notin {"get", "ifzero", "clear", "return"},
         Doing(i)
  PROVE  ~Pulls(app, Top) /\ Top.op # "settle" /\ stack # <<>> /\ Top \in TypedFrame
  <1>1. /\ InCode /\ Code[Top.pc].do = i
        /\ Top.op = "run" => CodeOfNode(app, Top.of, Code[Top.pc])
    BY DoingFacts
  <1>2. /\ stack # <<>> /\ Top \in TypedFrame /\ Top.op \in {"run", "handler", "batch"}
    BY <1>1, CodeFacts
  <1> QED
    BY <1>1, <1>2 DEF Pulls, MemoCall, Working, CodeOfNode

LEMMA CallsFlush ==
  ASSUME StoreType, StackType(stack, depth), CallsInv, FlushTake \/ FlushRun \/ FlushDone
  PROVE  Shape(app', stack', observer') /\ CallMarks' /\ MemosReady'
  <1>1. stack # <<>> /\ Top.op = "flush"
    BY DEF FlushTake, FlushRun, FlushDone, At
  <1>2. Top \in TypedFrame /\ Top.todo \in Seq(Node) /\ pending \in Seq(Node)
    BY <1>1, TopFacts, FrameFields DEF StoreType
  <1>3. UNCHANGED <<app, state, ready, alive, sources, observer>>
    BY DEF FlushTake, FlushRun, FlushDone, OnlyTheStack, graph, links
  <1>4. SameMemos
    BY <1>3 DEF SameMemos
  <1>5. \A t \in Seq(Node) : LET f == [Top EXCEPT !.todo = t]
                             IN /\ f \in TypedFrame /\ f.op = Top.op /\ f.of = Top.of
                                /\ f.prev = Top.prev /\ TodoOK(app, f)
    BY <1>1, <1>2, FrameGoesOn, FrameSame DEF TodoOK
  <1>6. CASE FlushTake
    <2>1. stack' = <<[Top EXCEPT !.todo = pending]>> \o Below
      BY <1>6 DEF FlushTake
    <2> QED
      BY <1>1, <1>2, <1>3, <1>4, <1>5, <2>1, CallsMoved
  <1>7. CASE FlushDone
    <2>1. stack' = Below
      BY <1>7 DEF FlushDone
    <2> QED
      BY <1>1, <1>3, <1>4, <2>1, CallsPopped
  <1>8. CASE FlushRun
    <2> DEFINE f == [Top EXCEPT !.todo = Tail(Top.todo)]
               s == <<f>> \o Below
               n == Head(Top.todo)
    <2>1. Top.todo # <<>> /\ stack' = IF n \in alive THEN Visit(n, s) ELSE s
      BY <1>8 DEF FlushRun
    <2>2. Tail(Top.todo) \in Seq(Node) /\ n \in Node
      BY <1>2, <2>1
    <2>3. /\ f \in TypedFrame /\ f.op = Top.op /\ f.of = Top.of
          /\ f.prev = Top.prev /\ TodoOK(app, f)
      BY <1>5, <2>2
    <2> HIDE DEF f, n
    <2>4. /\ stack \in Seq(TypedFrame) /\ Shape(app, stack, observer) /\ CallMarks /\ MemosReady
          /\ LinksOK /\ SignalsClean
      BY DEF StackType, CallsInv
    <2>5. /\ Shape(app, s, observer) /\ s \in Seq(TypedFrame) /\ s[1] = f
      BY <1>1, <2>3, <2>4, ShapeSwap, Popped, Pushed DEF Top, Below
    <2>6. \A op, m : Called(s, op, m) <=> Called(stack, op, m)
      BY <1>1, <2>3, <2>4, CalledSwap DEF Top, Below
    <2> HIDE DEF s
    <2>7. s # <<>> => ~Pulls(app, s[1])
      BY <1>1, <2>3, <2>5 DEF Pulls, MemoCall, Working
    <2>8. \A i \in 1..Len(s) : MayRest(app, NewFrame("visit", n, <<>>), s[i])
      <3>1. CASE s = <<>>
        BY <3>1
      <3>2. CASE s # <<>>
        BY <2>5, <2>7, <3>2, Calm DEF MayRest
      <3> QED
        BY <3>1, <3>2
    <2>9. /\ Shape(app, Visit(n, s), observer)
          /\ \A op, m : Called(Visit(n, s), op, m) <=>
              Called(s, op, m) \/ (state[n] # "Clean" /\ op = "visit" /\ m = n)
      BY <1>1, <2>2, <2>3, <2>4, <2>5, <2>8, ShapeVisit
    <2>10. /\ Shape(app, stack', observer)
           /\ \A op, m : /\ Called(stack', op, m) =>
                              Called(stack, op, m) \/ (state[n] # "Clean" /\ op = "visit" /\ m = n)
                         /\ Called(stack, op, m) => Called(stack', op, m)
      BY <2>1, <2>5, <2>6, <2>9
    <2>11. CallMarks' /\ MemosReady'
      BY <1>4, <2>4, <2>10, MemosKept DEF SameMemos
    <2> QED
      BY <1>3, <2>10, <2>11
  <1> QED
    BY <1>6, <1>7, <1>8

LEMMA CallsNotify ==
  ASSUME StoreType, StackType(stack, depth), CallsInv, Notify
  PROVE  Shape(app', stack', observer') /\ CallMarks' /\ MemosReady'
  <1> DEFINE n == Head(agenda).node
             m == Head(agenda).mark
  <1>1. /\ n \in Node /\ m \in {"Check", "Dirty"}
        /\ Rank[state[n]] >= Rank[m] => UNCHANGED state
        /\ ~(Rank[state[n]] >= Rank[m]) => state' = [state EXCEPT ![n] = m]
        /\ UNCHANGED <<app, value, links, ready, alive, scopes, observer, depth,
                           stack, panicked, ghosts>>
    BY NotifyAsks
  <1> HIDE DEF n, m
  <1>2. state \in [Node -> NodeState]
    BY DEF StoreType
  <1>3. Rank["Clean"] = 0 /\ Rank["Check"] = 1 /\ Rank["Dirty"] = 2
    BY DEF Rank
  <1>4. \A k \in Node : /\ state[k] # "Clean" => state'[k] # "Clean"
                        /\ state[k] = "Dirty" => state'[k] = "Dirty"
    <2>1. CASE Rank[state[n]] >= Rank[m]
      BY <1>1, <2>1
    <2>2. CASE ~(Rank[state[n]] >= Rank[m])
      <3>1. state[n] # "Dirty"
        BY <1>1, <1>3, <2>2
      <3>2. \A k \in Node : state'[k] = IF k = n THEN m ELSE state[k]
        BY <1>1, <1>2, <2>2
      <3> QED
        BY <1>1, <3>1, <3>2
    <2> QED
      BY <2>1, <2>2
  <1>5. UNCHANGED <<app, ready, alive, sources, observer, stack>>
    BY <1>1 DEF links
  <1>6. CallMarks /\ MemosReady /\ Shape(app, stack, observer)
    BY DEF CallsInv
  <1>7. CallMarks' /\ MemosReady'
    BY <1>4, <1>5, <1>6, MemosKept
  <1> QED
    BY <1>5, <1>6, <1>7

LEMMA CallsCheckSource ==
  ASSUME StoreType, StackType(stack, depth), CallsInv, CheckSource
  PROVE  Shape(app', stack', observer') /\ CallMarks' /\ MemosReady'
  <1>1. stack # <<>> /\ Top.op = "visit" /\ Top.todo # <<>>
    BY DEF CheckSource, At
  <1>2. Top \in TypedFrame /\ Top.todo \in Seq(Node) /\ Top.of \in Node
    BY <1>1, TopFacts, FrameFields
  <1>3. UNCHANGED <<app, state, ready, alive, sources, observer>>
    BY DEF CheckSource, OnlyTheStack, graph, links
  <1>4. /\ stack \in Seq(TypedFrame) /\ Shape(app, stack, observer) /\ CallMarks /\ MemosReady
        /\ LinksOK /\ SignalsClean
    BY DEF StackType, CallsInv
  <1>5. Top = stack[1] /\ 1 \in 1..Len(stack) /\ TodoOK(app, Top) /\ Len(stack) \in Nat
    BY <1>1, <1>4, Popped DEF Top, Shape
  <1> DEFINE f == [Top EXCEPT !.todo = Tail(Top.todo)]
             s == <<f>> \o Below
             n == Head(Top.todo)
  <1>6. stack' = Visit(n, s)
    BY DEF CheckSource
  <1>7. Tail(Top.todo) \in Seq(Node) /\ n = Top.todo[1] /\ n \in Node /\ 1 \in 1..Len(Top.todo)
        /\ \A i \in 1..Len(Tail(Top.todo)) : i + 1 \in 1..Len(Top.todo)
                                             /\ Tail(Top.todo)[i] = Top.todo[i + 1]
    BY <1>1, <1>2
  <1>8. /\ f \in TypedFrame /\ f.op = Top.op /\ f.of = Top.of
        /\ f.prev = Top.prev /\ f.todo = Tail(Top.todo)
    BY <1>1, <1>2, <1>7, FrameGoesOn, FrameSame
  <1>9. TodoOK(app, f)
    BY <1>5, <1>7, <1>8 DEF TodoOK
  <1>10. ~IsEffect(n) /\ (IsMemo(Top.of) => app.order[n] < app.order[Top.of])
    BY <1>1, <1>5, <1>7 DEF TodoOK, IsMemo, IsEffect
  <1> HIDE DEF f, n
  <1>11. /\ Shape(app, s, observer) /\ s \in Seq(TypedFrame) /\ s[1] = f
    BY <1>1, <1>8, <1>9, <1>4, ShapeSwap, Popped, Pushed DEF Top, Below
  <1>12. \A op, m : Called(s, op, m) <=> Called(stack, op, m)
    BY <1>1, <1>8, <1>4, CalledSwap DEF Top, Below
  <1> HIDE DEF s
  <1>13. ASSUME state[n] # "Clean"
         PROVE  \A i \in 1..Len(s) : MayRest(app, NewFrame("visit", n, <<>>), s[i])
    <2> DEFINE v == NewFrame("visit", n, <<>>)
    <2>1. v.op = "visit" /\ v.of = n
      BY DEF NewFrame
    <2> HIDE DEF v
    <2>2. IsMemo(n)
      <3>1. ~IsSignal(n)
        BY <1>4, <1>7, <1>13 DEF SignalsClean
      <3>2. app.kind[n] \in {"signal", "memo", "effect"}
        BY <1>7, AppAssumption DEF StoreType
      <3> QED
        BY <1>10, <3>1, <3>2 DEF IsMemo, IsSignal, IsEffect
    <2>3. MemoCall(app, v)
      BY <2>1, <2>2 DEF MemoCall, Working, IsMemo
    <2>4. SUFFICES ASSUME NEW i \in 1..Len(s), MemoCall(app, s[i])
                   PROVE  app.order[n] < app.order[s[i].of]
      BY <2>1, <2>3 DEF MayRest, v
    <2>5. CASE i = 1
      BY <1>8, <1>10, <1>11, <2>4, <2>5 DEF MemoCall, IsMemo
    <2>6. CASE i # 1
      <3>1. 1 \in 1..Len(s) /\ 1 < i
        BY <1>11, <2>6
      <3>2. MayRest(app, s[1], s[i]) /\ Pulls(app, s[i])
        BY <1>11, <2>4, <3>1 DEF Shape, Nested, Pulls
      <3>3. MemoCall(app, s[1]) /\ app.order[s[1].of] < app.order[s[i].of]
        BY <1>1, <1>8, <1>11, <2>4, <3>2 DEF MayRest
      <3>4. app.order[n] < app.order[s[1].of]
        BY <1>8, <1>10, <1>11, <3>3 DEF MemoCall, IsMemo
      <3>5. s[i] \in TypedFrame /\ s[i].of \in Node
        BY <1>11, <2>4, FrameFields DEF MemoCall, Working
      <3>6. app.order[n] \in Nat /\ app.order[Top.of] \in Nat /\ app.order[s[i].of] \in Nat
        BY <1>2, <1>7, <3>5, AppAssumption DEF StoreType
      <3> QED
        BY <1>8, <1>11, <3>3, <3>4, <3>6
    <2> QED
      BY <2>5, <2>6
  <1>14. /\ Shape(app, Visit(n, s), observer)
         /\ \A op, m : Called(Visit(n, s), op, m) <=>
              Called(s, op, m) \/ (state[n] # "Clean" /\ op = "visit" /\ m = n)
    BY <1>1, <1>4, <1>7, <1>8, <1>11, <1>13, ShapeVisit
  <1>15. CallMarks' /\ MemosReady'
    BY <1>3, <1>4, <1>6, <1>12, <1>14, MemosKept
  <1> QED
    BY <1>3, <1>6, <1>14, <1>15

\* A call that brought a node up to date returns.
LEMMA CallsCleaned ==
  ASSUME StoreType, StackType(stack, depth), CallsInv, CheckPassed \/ Settle
  PROVE  Shape(app', stack', observer') /\ CallMarks' /\ MemosReady'
  <1>1. stack # <<>> /\ Top.op \in {"visit", "settle"}
    BY DEF CheckPassed, Settle, At
  <1>2. Top \in TypedFrame /\ Top.of \in Node
    BY <1>1, TopFacts, FrameFields
  <1>3. /\ UNCHANGED <<app, ready, alive, sources, observer>> /\ stack' = Below
        /\ state' = [state EXCEPT ![Top.of] = "Clean"]
    BY DEF CheckPassed, Settle, links
  <1>4. /\ stack \in Seq(TypedFrame) /\ Shape(app, stack, observer) /\ CallMarks /\ MemosReady
        /\ app \in App
    BY DEF StackType, CallsInv, StoreType
  <1>5. Shape(app, stack', observer)
    BY <1>1, <1>3, <1>4, ShapePop DEF Top, Below
  <1>6. \A op, n : Called(stack, op, n) <=> Called(stack', op, n) \/ (Top.op = op /\ Top.of = n)
    BY <1>1, <1>3, <1>4, CalledPop DEF Top, Below
  <1>7. IsMemo(Top.of) => \A op \in Working : ~Called(stack', op, Top.of)
    BY <1>1, <1>3, <1>4, CalledOnce DEF Top, Below, MemoCall, IsMemo, Working
  <1>8. \A n \in Node : state'[n] = IF n = Top.of THEN "Clean" ELSE state[n]
    BY <1>2, <1>3 DEF StoreType
  <1>9. CallMarks'
    BY <1>3, <1>4, <1>6, <1>7, <1>8 DEF CallMarks, IsMemo, Working
  <1>10. MemosReady'
    BY <1>1, <1>3, <1>4, <1>6 DEF MemosReady, IsMemo
  <1> QED
    BY <1>3, <1>5, <1>9, <1>10

LEMMA CallsUpdate ==
  ASSUME StoreType, StackType(stack, depth), CallsInv, Update
  PROVE  Shape(app', stack', observer') /\ CallMarks' /\ MemosReady'
  <1> DEFINE n == Top.of
             g == NewFrame("settle", n, <<>>)
             f == [NewFrame("run", n, <<>>) EXCEPT !.prev = observer]
             s == <<g>> \o Below
  <1>1. stack # <<>> /\ Top.op = "visit" /\ state[n] = "Dirty"
    BY DEF Update, At
  <1>2. Top \in TypedFrame /\ n \in Node
    BY <1>1, TopFacts, FrameFields
  <1>3. /\ stack \in Seq(TypedFrame) /\ Shape(app, stack, observer) /\ CallMarks /\ MemosReady
        /\ LinksAgree /\ app \in App /\ observer \in Node \cup {None}
    BY DEF StackType, CallsInv, StoreType
  <1>4. g \in TypedFrame /\ g.op = "settle" /\ g.of = n
        /\ f \in TypedFrame /\ f.op = "run" /\ f.of = n /\ f.prev = observer
    BY <1>2, <1>3, NewFrames DEF NewFrame
  <1>5. /\ Unlinked(n)
        /\ n \in ready => ready' = ready \ {n} /\ observer' = n /\ stack' = <<f>> \o s
        /\ n \notin ready => UNCHANGED <<ready, observer>> /\ stack' = s
        /\ UNCHANGED <<app, state, alive>>
    BY DEF Update
  <1>6. Top = stack[1] /\ Below \in Seq(TypedFrame)
    BY <1>1, <1>3, Popped DEF Top, Below
  <1> HIDE DEF f, g
  <1>7. /\ Shape(app, s, observer)
        /\ \A i \in 1..Len(Below) : MayRest(app, Top, Below[i])
    BY <1>1, <1>3, <1>4, <1>6, ShapeSettle DEF Below
  <1>8. /\ s \in Seq(TypedFrame) /\ Len(s) = Len(Below) + 1 /\ s[1] = g /\ s # <<>>
        /\ \A i \in 2..(Len(Below) + 1) : s[i] = Below[i - 1]
    <2>1. /\ s \in Seq(TypedFrame) /\ Len(s) = Len(Below) + 1 /\ s[1] = g
          /\ \A i \in 2..(Len(Below) + 1) : s[i] = Below[i - 1]
      BY <1>4, <1>6, Pushed
    <2> HIDE DEF s
    <2>2. Len(Below) \in Nat
      BY <1>6
    <2>3. s # <<>>
      BY <2>1, <2>2
    <2> QED
      BY <2>1, <2>3
  <1>9. \A op, m : Called(s, op, m) <=> Called(Below, op, m) \/ (op = "settle" /\ m = n)
    BY <1>4, <1>6, CalledPush
  <1> HIDE DEF s
  <1>10. \A op, m : Called(<<f>> \o s, op, m) <=> Called(s, op, m) \/ (op = "run" /\ m = n)
    BY <1>4, <1>8, CalledPush
  <1>11. \A op, m : Called(stack, op, m) <=> Called(Below, op, m) \/ (Top.op = op /\ n = m)
    BY <1>1, <1>3, CalledPop DEF Top, Below
  <1>12. \A i \in 1..Len(s) : MayRest(app, f, s[i])
    <2>1. SUFFICES ASSUME NEW i \in 1..Len(s) PROVE MayRest(app, f, s[i])
      OBVIOUS
    <2>2. CASE i = 1
      BY <1>4, <1>8, <2>2 DEF MayRest, Pulls, MemoCall, Working
    <2>3. CASE i # 1
      <3>1. i - 1 \in 1..Len(Below) /\ s[i] = Below[i - 1]
        <4>1. Len(Below) \in Nat
          BY <1>6
        <4> QED
          BY <1>8, <2>3, <4>1
      <3>2. MayRest(app, Top, s[i])
        BY <1>7, <3>1
      <3> QED
        BY <1>1, <1>4, <3>2 DEF MayRest, MemoCall, Working
    <2> QED
      BY <2>2, <2>3
  <1>13. Shape(app, <<f>> \o s, n)
    BY <1>4, <1>7, <1>8, <1>12, ShapeRun
  <1>14. Shape(app', stack', observer')
    BY <1>5, <1>7, <1>13
  <1>15. IsMemo(n) => \A op \in Working : ~Called(Below, op, n)
    BY <1>1, <1>3, CalledOnce DEF Top, Below, MemoCall, IsMemo, Working
  <1>16. CallMarks'
    BY <1>1, <1>3, <1>5, <1>9, <1>10, <1>11 DEF CallMarks, IsMemo
  <1>17. \A m \in Node : sources'[m] = IF m = n THEN <<>> ELSE sources[m]
    BY <1>5 DEF Unlinked, StoreType
  <1>18. MemosReady'
    <2>1. SUFFICES ASSUME NEW m \in Node, IsMemo(m)
          PROVE  /\ m \notin alive' => m \notin ready' /\ sources'[m] = <<>>
                 /\ m \in alive' /\ m \notin ready' <=> Called(stack', "run", m)
      BY <1>5 DEF MemosReady, IsMemo
    <2>2. /\ m \notin alive => m \notin ready /\ sources[m] = <<>>
          /\ m \in alive /\ m \notin ready <=> Called(stack, "run", m)
      BY <1>3, <2>1 DEF MemosReady
    <2>3. Called(stack, "run", m) <=> Called(Below, "run", m)
      BY <1>1, <1>11
    <2>4. CASE n \in ready
      <3>1. Called(stack', "run", m) <=> Called(Below, "run", m) \/ m = n
        BY <1>5, <1>9, <1>10, <2>4
      <3> QED
        BY <1>5, <1>17, <2>2, <2>3, <2>4, <3>1
    <2>5. CASE n \notin ready
      <3>1. Called(stack', "run", m) <=> Called(Below, "run", m)
        BY <1>5, <1>9, <2>5
      <3> QED
        BY <1>5, <1>17, <2>2, <2>3, <2>5, <3>1
    <2> QED
      BY <2>4, <2>5
  <1> QED
    BY <1>14, <1>16, <1>18

LEMMA CallsReturn ==
  ASSUME StoreType, StackType(stack, depth), CallsInv, Return
  PROVE  Shape(app', stack', observer') /\ CallMarks' /\ MemosReady'
  <1>1. stack # <<>> /\ Top.op = "run"
    BY DEF Return, At
  <1>2. Top \in TypedFrame /\ Top.of \in Node
    BY <1>1, TopFacts, FrameFields
  <1>3. /\ UNCHANGED <<app, state, alive, sources>> /\ stack' = Below
        /\ ready' = ready \cup {Top.of} /\ observer' = Top.prev
    BY DEF Return, links
  <1>4. /\ stack \in Seq(TypedFrame) /\ Shape(app, stack, observer) /\ CallMarks /\ MemosReady
        /\ app \in App
    BY DEF StackType, CallsInv, StoreType
  <1>5. Shape(app, stack', observer')
    <2>1. Shape(app, Tail(stack), IF Head(stack).op = "run" THEN Head(stack).prev ELSE observer)
      BY <1>1, <1>4, ShapePop
    <2> QED
      BY <1>1, <1>3, <2>1 DEF Top, Below
  <1>6. \A op, n : Called(stack, op, n) <=> Called(stack', op, n) \/ (Top.op = op /\ Top.of = n)
    BY <1>1, <1>3, <1>4, CalledPop DEF Top, Below
  <1>7. IsMemo(Top.of) => ~Called(stack', "run", Top.of)
    BY <1>1, <1>3, <1>4, CalledOnce DEF Top, Below, MemoCall, IsMemo, Working
  <1>8. CallMarks'
    BY <1>3, <1>4, <1>6 DEF CallMarks, IsMemo
  <1>9. MemosReady'
    BY <1>1, <1>2, <1>3, <1>4, <1>6, <1>7 DEF MemosReady, IsMemo
  <1> QED
    BY <1>3, <1>5, <1>8, <1>9

\* A read links nothing but the node whose closure runs.
LEMMA LinkedOthers ==
  ASSUME StoreType, StackType(stack, depth), Shape(app, stack, observer), MemosReady,
         InCode, NEW n \in Node, Linked(n)
  PROVE  \A m \in Node : IsMemo(m) /\ m \notin alive => sources'[m] = sources[m]
  <1>1. SUFFICES ASSUME NEW m \in Node, IsMemo(m), m \notin alive
                 PROVE  sources'[m] = sources[m]
    OBVIOUS
  <1>2. ASSUME m = observer PROVE FALSE
    <2>1. Top.op = "run" /\ Top.of = m
      BY <1>1, <1>2, Watcher, CodeFacts
    <2>2. Called(stack, "run", m)
      <3>1. stack \in Seq(TypedFrame) /\ stack # <<>>
        BY CodeFacts DEF StackType
      <3> QED
        BY <2>1, <3>1, CalledPop DEF Top
    <2> QED
      BY <1>1, <2>2 DEF MemosReady
  <1>3. sources \in [Node -> Seq(Node)]
    BY DEF StoreType
  <1> QED
    BY <1>2, <1>3 DEF Linked, links

LEMMA CallsGetStale ==
  ASSUME StoreType, StackType(stack, depth), CallsInv, GetStale
  PROVE  Shape(app', stack', observer') /\ CallMarks' /\ MemosReady'
  <1>1. Doing("get") /\ state[Arg] # "Clean" /\ Linked(Arg) /\ stack' = Visit(Arg, stack)
    BY DEF GetStale
  <1>2. UNCHANGED <<app, state, ready, alive, observer>>
    BY DEF GetStale
  <1>3. /\ stack \in Seq(TypedFrame) /\ Shape(app, stack, observer) /\ CallMarks /\ MemosReady
        /\ LinksOK /\ SignalsClean /\ LinksAgree /\ app \in App
    BY DEF StackType, CallsInv, StoreType
  <1>4. /\ Arg \in Node /\ ~IsEffect(Arg) /\ InCode
        /\ Top.op = "run" => Top.of \in Node /\ app.order[Arg] < app.order[Top.of]
    BY <1>1, <1>3, Reads
  <1>5. stack # <<>> /\ Top \in TypedFrame /\ Top.op \in {"run", "handler", "batch"}
    BY <1>4, CodeFacts
  <1>6. Top = stack[1] /\ 1 \in 1..Len(stack)
    BY <1>3, <1>5, Popped DEF Top
  <1>7. IsMemo(Arg)
    <2>1. ~IsSignal(Arg)
      BY <1>1, <1>3, <1>4 DEF SignalsClean
    <2>2. app.kind[Arg] \in {"signal", "memo", "effect"}
      BY <1>3, <1>4, AppAssumption
    <2> QED
      BY <1>4, <2>1, <2>2 DEF IsMemo, IsSignal, IsEffect
  <1> DEFINE v == NewFrame("visit", Arg, <<>>)
  <1>8. v.op = "visit" /\ v.of = Arg
    BY DEF NewFrame
  <1>9. \A i \in 1..Len(stack) : MayRest(app, v, stack[i])
    <2> HIDE DEF v
    <2>1. SUFFICES ASSUME NEW i \in 1..Len(stack) PROVE MayRest(app, v, stack[i])
      OBVIOUS
    <2>2. MemoCall(app, v)
      BY <1>7, <1>8 DEF MemoCall, Working, IsMemo
    <2>3. SUFFICES ASSUME MemoCall(app, stack[i])
                   PROVE  app.order[Arg] < app.order[stack[i].of]
      BY <1>8, <2>2 DEF MayRest
    <2>4. CASE i = 1
      <3>1. Top.op = "run"
        BY <1>5, <1>6, <2>3, <2>4 DEF MemoCall, Working
      <3> QED
        BY <1>4, <1>6, <2>4, <3>1
    <2>5. CASE i # 1
      <3>1. 1 < i
        BY <2>5
      <3>2. MayRest(app, stack[1], stack[i]) /\ Pulls(app, stack[i])
        BY <1>3, <1>6, <2>3, <3>1 DEF Shape, Nested, Pulls
      <3>3. /\ MemoCall(app, Top)
            /\ app.order[Top.of] < app.order[stack[i].of] \/ Top.of = stack[i].of
        BY <1>6, <2>3, <3>2 DEF MayRest
      <3>4. Top.op = "run"
        BY <1>5, <3>3 DEF MemoCall, Working
      <3>5. stack[i].of \in Node
        BY <1>3, <2>3, FrameFields DEF MemoCall, Working
      <3>6. app.order[Arg] \in Nat /\ app.order[Top.of] \in Nat /\ app.order[stack[i].of] \in Nat
        BY <1>3, <1>4, <3>4, <3>5, AppAssumption
      <3> QED
        BY <1>4, <3>3, <3>4, <3>6
    <2> QED
      BY <2>4, <2>5
  <1>10. /\ Shape(app, Visit(Arg, stack), observer)
         /\ \A op, m : Called(Visit(Arg, stack), op, m) <=>
              Called(stack, op, m) \/ (state[Arg] # "Clean" /\ op = "visit" /\ m = Arg)
    BY <1>3, <1>4, <1>5, <1>6, <1>9, ShapeVisit
  <1>11. \A n \in Node : IsMemo(n) /\ n \notin alive => sources'[n] = sources[n]
    BY <1>1, <1>3, <1>4, LinkedOthers
  <1>12. CallMarks' /\ MemosReady'
    BY <1>1, <1>2, <1>3, <1>10, <1>11, MemosKept
  <1> QED
    BY <1>1, <1>2, <1>10, <1>12

LEMMA CallsGet ==
  ASSUME StoreType, StackType(stack, depth), CallsInv, Get
  PROVE  Shape(app', stack', observer') /\ CallMarks' /\ MemosReady'
  <1>1. Doing("get") /\ Linked(Arg)
    BY DEF Get
  <1>2. UNCHANGED <<app, state, ready, alive, observer>>
    BY DEF Get
  <1>3. /\ Shape(app, stack, observer) /\ CallMarks /\ MemosReady
    BY DEF CallsInv
  <1>4. Arg \in Node /\ InCode
    BY <1>1, <1>3, Reads
  <1>5. \A n \in Node : IsMemo(n) /\ n \notin alive => sources'[n] = sources[n]
    BY <1>1, <1>3, <1>4, LinkedOthers
  <1>6. SameMemos
    BY <1>2, <1>5 DEF SameMemos
  <1>7. stack # <<>> /\ Top \in TypedFrame /\ Top.op \in {"run", "handler", "batch"}
    BY <1>4, CodeFacts
  <1> DEFINE f == [Skipping(0) EXCEPT !.acc = Add(@, value[Arg])]
  <1>8. stack' = stack \/ stack' = <<f>> \o Below
    BY DEF Get
  <1>9. CASE stack' = stack
    BY <1>2, <1>3, <1>6, <1>9, MemosKept DEF SameMemos
  <1>10. CASE value[Arg] # NoValue /\ stack' = <<f>> \o Below
    <2>1. Add(Top.acc, value[Arg]) \in Value
      BY <1>4, <1>7, <1>10, AddType, FrameFields DEF StoreType
    <2>2. f = [Skipping(0) EXCEPT !.acc = Add(Top.acc, value[Arg])]
      BY <1>7 DEF Skipping, TypedFrame, Frame
    <2>3. f \in TypedFrame
      BY <1>7, <2>1, <2>2, FrameGoesOn DEF Skipping
    <2>4. f.op = Top.op /\ f.of = Top.of /\ f.prev = Top.prev
      BY <1>7, <2>2, FrameSame DEF Skipping
    <2>5. TodoOK(app, f)
      BY <1>7, <2>4 DEF TodoOK
    <2> HIDE DEF f
    <2> QED
      BY <1>2, <1>6, <1>7, <1>10, <2>3, <2>4, <2>5, CallsMoved
  <1> QED
    BY <1>8, <1>9, <1>10 DEF Get

LEMMA SkippingSame ==
  ASSUME NEW k \in Nat, Top \in TypedFrame, Top.op \in {"run", "handler", "batch"}
  PROVE  /\ Skipping(k) \in TypedFrame
         /\ Skipping(k).op = Top.op /\ Skipping(k).of = Top.of /\ Skipping(k).prev = Top.prev
         /\ \A v \in Value :
              /\ [Skipping(k) EXCEPT !.acc = v] \in TypedFrame
              /\ [Skipping(k) EXCEPT !.acc = v].op = Top.op
              /\ [Skipping(k) EXCEPT !.acc = v].of = Top.of
              /\ [Skipping(k) EXCEPT !.acc = v].prev = Top.prev
  <1>1. /\ Skipping(k) \in TypedFrame
        /\ \A v \in Value : [Skipping(k) EXCEPT !.acc = v] \in TypedFrame
    <2>1. \A j \in Nat, v \in Value :
            /\ [Top EXCEPT !.pc = @ + 1 + j] \in TypedFrame
            /\ [[Top EXCEPT !.pc = @ + 1 + j] EXCEPT !.acc = v] \in TypedFrame
      BY FrameGoesOn
    <2>2. [Top EXCEPT !.pc = @ + 1 + k] \in TypedFrame
      BY <2>1, ZeroIsValue
    <2>3. \A v \in Value : [[Top EXCEPT !.pc = @ + 1 + k] EXCEPT !.acc = v] \in TypedFrame
      BY <2>1
    <2> QED
      BY <2>2, <2>3 DEF Skipping
  <1>2. Skipping(k).op = Top.op /\ Skipping(k).of = Top.of /\ Skipping(k).prev = Top.prev
    BY FrameFields DEF Skipping, Frame
  <1>3. \A v \in Value : /\ [Skipping(k) EXCEPT !.acc = v].op = Top.op
                         /\ [Skipping(k) EXCEPT !.acc = v].of = Top.of
                         /\ [Skipping(k) EXCEPT !.acc = v].prev = Top.prev
    BY FrameFields DEF Skipping, Frame
  <1> QED
    BY <1>1, <1>2, <1>3

\* The steps of a closure that only move it on.
LEMMA CallsMoves ==
  ASSUME StoreType, StackType(stack, depth), CallsInv, Peek \/ Jump \/ BuildMounted
  PROVE  Shape(app', stack', observer') /\ CallMarks' /\ MemosReady'
  <1>1. InCode
    BY DEF Peek, Jump, BuildMounted, Doing
  <1>2. /\ stack # <<>> /\ Top \in TypedFrame /\ Top.op \in {"run", "handler", "batch"}
        /\ Top.pc \in Nat /\ Code \in Seq(Instr)
    BY <1>1, CodeFacts
  <1>3. UNCHANGED <<app, state, ready, alive, sources, observer>>
    BY DEF Peek, Jump, BuildMounted, OnlyTheStack, graph, links
  <1>4. SameMemos
    BY <1>3 DEF SameMemos
  <1>5. ASSUME NEW f \in TypedFrame, f.op = Top.op, f.of = Top.of, f.prev = Top.prev,
               stack' = <<f>> \o Below
        PROVE  Shape(app', stack', observer') /\ CallMarks' /\ MemosReady'
    BY <1>2, <1>3, <1>4, <1>5, CallsMoved DEF TodoOK
  <1>6. \A k \in Nat : LET f == Skipping(k)
                       IN f \in TypedFrame /\ f.op = Top.op /\ f.of = Top.of /\ f.prev = Top.prev
    BY <1>2, SkippingSame
  <1>7. \A k \in Nat, v \in Value :
          LET f == [Skipping(k) EXCEPT !.acc = v]
          IN f \in TypedFrame /\ f.op = Top.op /\ f.of = Top.of /\ f.prev = Top.prev
    BY <1>2, SkippingSame
  <1>8. ASSUME NEW k \in Nat, stack' = <<Skipping(k)>> \o Below
        PROVE  Shape(app', stack', observer') /\ CallMarks' /\ MemosReady'
    <2> DEFINE f == Skipping(k)
    <2>1. f \in TypedFrame /\ f.op = Top.op /\ f.of = Top.of /\ f.prev = Top.prev
          /\ stack' = <<f>> \o Below
      BY <1>6, <1>8
    <2> HIDE DEF f
    <2> QED
      BY <2>1, <1>5
  <1>9. ASSUME NEW k \in Nat, NEW v \in Value, stack' = <<[Skipping(k) EXCEPT !.acc = v]>> \o Below
        PROVE  Shape(app', stack', observer') /\ CallMarks' /\ MemosReady'
    <2> DEFINE f == [Skipping(k) EXCEPT !.acc = v]
    <2>1. f \in TypedFrame /\ f.op = Top.op /\ f.of = Top.of /\ f.prev = Top.prev
          /\ stack' = <<f>> \o Below
      BY <1>7, <1>9
    <2> HIDE DEF f
    <2> QED
      BY <2>1, <1>5
  <1>10. CASE stack' = stack
    <2>1. CallMarks /\ MemosReady /\ Shape(app, stack, observer)
      BY DEF CallsInv
    <2> QED
      BY <1>3, <1>4, <1>10, <2>1, MemosKept DEF SameMemos
  <1>11. CASE Peek
    <2>1. CASE value[Arg] = NoValue
      BY <1>10, <1>11, <2>1 DEF Peek
    <2>2. CASE value[Arg] # NoValue
      <3>1. stack' = <<[Skipping(0) EXCEPT !.acc = Add(@, value[Arg])]>> \o Below
        BY <1>11, <2>2 DEF Peek
      <3>2. Arg \in Node
        BY <1>11, DoingFacts DEF Peek, WellTyped
      <3>3. Add(Top.acc, value[Arg]) \in Value
        BY <1>2, <2>2, <3>2, AddType, FrameFields DEF StoreType
      <3>4. [Skipping(0) EXCEPT !.acc = Add(@, value[Arg])]
              = [Skipping(0) EXCEPT !.acc = Add(Top.acc, value[Arg])]
        BY <1>2 DEF Skipping, TypedFrame, Frame
      <3> DEFINE v == Add(Top.acc, value[Arg])
      <3>5. stack' = <<[Skipping(0) EXCEPT !.acc = v]>> \o Below
        BY <3>1, <3>4
      <3>6. v \in Value
        BY <3>3
      <3> HIDE DEF v
      <3> QED
        BY <1>9, <3>5, <3>6
    <2> QED
      BY <2>1, <2>2
  <1>12. CASE BuildMounted
    <2>1. stack' = <<Skipping(0)>> \o Below
      BY <1>12 DEF BuildMounted, Advanced
    <2> QED
      BY <1>8, <2>1
  <1>13. CASE Jump
    <2>1. CASE Doing("ifzero") /\ stack' = <<Skipping(IF Top.acc = 0 THEN Code[Top.pc].skip ELSE 0)>> \o Below
      <3>1. Code[Top.pc].skip \in Nat
        BY <2>1, DoingFacts DEF Instr
      <3> QED
        BY <1>8, <2>1, <3>1
    <2>2. CASE Doing("return") /\ stack' = <<Skipping(Len(Code))>> \o Below
      <3>1. Len(Code) \in Nat
        BY <1>2
      <3> QED
        BY <1>8, <2>2, <3>1
    <2>3. CASE Doing("clear") /\ stack' = <<[Skipping(0) EXCEPT !.acc = 0]>> \o Below
      BY <1>9, <2>3, ZeroIsValue
    <2> QED
      BY <1>13, <2>1, <2>2, <2>3 DEF Jump
  <1> QED
    BY <1>11, <1>12, <1>13

\* A closure that calls something which is no memo.
LEMMA CodePushes ==
  ASSUME StoreType, StackType(stack, depth), CallsInv, SameMemos, observer' = observer,
         ~Pulls(app, Top), Top.op # "settle", InCode,
         NEW h \in TypedFrame, h.op \notin {"run", "settle"}, TodoOK(app, h),
         h.op = "visit" => app.kind[h.of] = "effect",
         stack' = <<h>> \o Advanced
  PROVE  Shape(app', stack', observer') /\ CallMarks' /\ MemosReady'
  <1> DEFINE f == Skipping(0)
  <1>1. stack # <<>> /\ Top \in TypedFrame /\ Top.op \in {"run", "handler", "batch"}
    BY CodeFacts
  <1>2. f \in TypedFrame /\ f.op = Top.op /\ f.of = Top.of /\ f.prev = Top.prev
    BY <1>1, SkippingSame
  <1>3. TodoOK(app, f)
    BY <1>1, <1>2 DEF TodoOK
  <1>4. stack' = <<h>> \o (<<f>> \o Below)
    BY DEF Advanced
  <1> HIDE DEF f
  <1> QED
    BY <1>1, <1>2, <1>3, <1>4, CallsPushed

LEMMA CodeAdvances ==
  ASSUME StoreType, StackType(stack, depth), CallsInv, SameMemos, observer' = observer,
         InCode, stack' = Advanced
  PROVE  Shape(app', stack', observer') /\ CallMarks' /\ MemosReady'
  <1> DEFINE f == Skipping(0)
  <1>1. stack # <<>> /\ Top \in TypedFrame /\ Top.op \in {"run", "handler", "batch"}
    BY CodeFacts
  <1>2. f \in TypedFrame /\ f.op = Top.op /\ f.of = Top.of /\ f.prev = Top.prev
    BY <1>1, SkippingSame
  <1>3. TodoOK(app, f)
    BY <1>1, <1>2 DEF TodoOK
  <1>4. stack' = <<f>> \o Below
    BY DEF Advanced
  <1> HIDE DEF f
  <1> QED
    BY <1>1, <1>2, <1>3, <1>4, CallsMoved

LEMMA FlushFrame ==
  LET h == NewFrame("flush", None, <<>>)
  IN h \in TypedFrame /\ h.op = "flush" /\ TodoOK(app, h)
  BY NewFrames DEF NewFrame, TodoOK

LEMMA CallsSet ==
  ASSUME StoreType, StackType(stack, depth), CallsInv, Set
  PROVE  Shape(app', stack', observer') /\ CallMarks' /\ MemosReady'
  <1>1. Doing("set") /\ InCode
    BY DEF Set, Doing
  <1>2. ~Pulls(app, Top) /\ Top.op # "settle" /\ stack # <<>> /\ Top \in TypedFrame
    BY <1>1, NotPulling
  <1>3. UNCHANGED <<app, state, ready, alive, sources, observer>>
    BY DEF Set, links
  <1>4. SameMemos
    BY <1>3 DEF SameMemos
  <1>5. CASE stack' = Advanced
    BY <1>1, <1>3, <1>4, <1>5, CodeAdvances
  <1>6. CASE stack' = <<NewFrame("flush", None, <<>>)>> \o Advanced
    <2> DEFINE h == NewFrame("flush", None, <<>>)
    <2>1. h \in TypedFrame /\ h.op = "flush" /\ TodoOK(app, h)
      BY FlushFrame
    <2>2. stack' = <<h>> \o Advanced
      BY <1>6
    <2> HIDE DEF h
    <2> QED
      BY <1>1, <1>2, <1>3, <1>4, <2>1, <2>2, CodePushes
  <1> QED
    BY <1>5, <1>6 DEF Set, Flush

LEMMA CallsMount ==
  ASSUME StoreType, StackType(stack, depth), CallsInv, Mount
  PROVE  Shape(app', stack', observer') /\ CallMarks' /\ MemosReady'
  <1>1. Doing("mount") /\ InCode
    BY DEF Mount, Doing
  <1>2. ~Pulls(app, Top) /\ Top.op # "settle" /\ stack # <<>> /\ Top \in TypedFrame
    BY <1>1, NotPulling
  <1>3. Arg \in Node /\ app.kind[Arg] = "effect"
    BY <1>1, DoingFacts DEF WellTyped
  <1>4. /\ UNCHANGED <<app, sources, observer>>
        /\ alive' = alive \cup {Arg} /\ ready' = ready \cup {Arg}
        /\ state' = [state EXCEPT ![Arg] = "Dirty"]
        /\ stack' = <<NewFrame("visit", Arg, <<>>)>> \o Advanced
    BY DEF Mount, links
  <1>5. SameMemos
    <2>1. state \in [Node -> NodeState]
      BY DEF StoreType
    <2> QED
      BY <1>3, <1>4, <2>1 DEF SameMemos, IsMemo
  <1> DEFINE h == NewFrame("visit", Arg, <<>>)
  <1>6. h \in TypedFrame /\ h.op = "visit" /\ h.of = Arg /\ TodoOK(app, h)
    <2>1. h \in TypedFrame
      BY <1>3, NewFrames
    <2>2. h.op = "visit" /\ h.of = Arg /\ h.todo = <<>>
      BY DEF NewFrame
    <2>3. Len(<<>>) = 0 /\ 1..0 = {}
      OBVIOUS
    <2> QED
      BY <2>1, <2>2, <2>3 DEF TodoOK
  <1>7. stack' = <<h>> \o Advanced
    BY <1>4
  <1> HIDE DEF h
  <1> QED
    BY <1>1, <1>2, <1>3, <1>4, <1>5, <1>6, <1>7, CodePushes

LEMMA CallsHandlerReturns ==
  ASSUME StoreType, StackType(stack, depth), CallsInv, HandlerReturns
  PROVE  Shape(app', stack', observer') /\ CallMarks' /\ MemosReady'
  <1>1. stack # <<>> /\ Top.op \in {"handler", "batch"}
    BY DEF HandlerReturns, At
  <1>2. UNCHANGED <<app, state, ready, alive, sources, observer>>
    BY DEF HandlerReturns, graph, links
  <1>3. SameMemos
    BY <1>2 DEF SameMemos
  <1>4. CASE stack' = Below
    BY <1>1, <1>2, <1>3, <1>4, CallsPopped
  <1>5. CASE stack' = <<NewFrame("flush", None, <<>>)>> \o Below
    <2> DEFINE h == NewFrame("flush", None, <<>>)
    <2>1. h \in TypedFrame /\ h.op = "flush" /\ TodoOK(app, h)
      BY FlushFrame
    <2>2. stack' = <<h>> \o Below
      BY <1>5
    <2> HIDE DEF h
    <2>3. /\ stack \in Seq(TypedFrame) /\ Shape(app, stack, observer) /\ CallMarks /\ MemosReady
      BY DEF StackType, CallsInv
    <2>4. Shape(app, Below, observer)
      BY <1>1, <2>3, ShapePop DEF Top, Below
    <2>5. \A i \in 1..Len(stack) : ~Pulls(app, stack[i])
      <3>1. ~Pulls(app, stack[1])
        BY <1>1, <2>3, Popped DEF Pulls, MemoCall, Working, Top
      <3> QED
        BY <1>1, <2>3, <3>1, Calm
    <2> DEFINE r == Below
    <2>6. /\ r \in Seq(TypedFrame) /\ Len(stack) = Len(r) + 1 /\ Len(r) \in Nat
          /\ \A i \in 1..Len(r) : r[i] = stack[i + 1]
          /\ stack[1] = Top
      BY <1>1, <2>3, Popped DEF Top, Below
    <2> HIDE DEF r
    <2>7. \A i \in 1..Len(r) : MayRest(app, h, r[i])
      BY <2>5, <2>6 DEF MayRest
    <2>8. r # <<>> => r[1].op # "settle"
      <3>1. SUFFICES ASSUME r # <<>> PROVE r[1].op # "settle"
        OBVIOUS
      <3>2. 1 \in 1..Len(r) /\ 2 \in 1..Len(stack) /\ r[1] = stack[2]
        BY <2>6, <3>1
      <3>3. stack[2].op = "settle" => stack[1].op = "run"
        BY <2>3, <3>2 DEF Shape, Paired
      <3> QED
        BY <1>1, <2>6, <3>2, <3>3
    <2>9. Shape(app, r, observer)
      BY <2>4 DEF r
    <2>10. Shape(app, <<h>> \o r, observer)
      BY <2>1, <2>6, <2>7, <2>8, <2>9, ShapePush DEF Working
    <2>11. stack' = <<h>> \o r
      BY <2>2 DEF r
    <2>12. \A op, n : Called(<<h>> \o r, op, n) <=> Called(r, op, n) \/ (h.op = op /\ h.of = n)
      BY <2>1, <2>6, CalledPush
    <2>13. \A op, n : Called(stack, op, n) <=> Called(r, op, n) \/ (Top.op = op /\ Top.of = n)
      BY <1>1, <2>3, CalledPop DEF Top, Below, r
    <2>14. \A op \in Working : \A n : Called(stack', op, n) <=> Called(stack, op, n)
      BY <1>1, <2>1, <2>11, <2>12, <2>13 DEF Working
    <2>15. CallMarks' /\ MemosReady'
      BY <1>3, <2>3, <2>14, MemosKept DEF SameMemos, Working
    <2> QED
      BY <1>2, <2>10, <2>11, <2>15
  <1> QED
    BY <1>4, <1>5 DEF HandlerReturns

LEMMA DisposeTop ==
  ASSUME StoreType, StackType(stack, depth), stack # <<>>, Top.op = "dispose"
  PROVE  /\ Top \in TypedFrame /\ Top.of \in Scope /\ ~Pulls(app, Top)
         /\ Top.pc = 1 => Top.todo \in Seq(Scope)
         /\ Top.pc # 1 => Top.todo \in Seq(Handler)
         /\ \A f : f.op = Top.op => TodoOK(app, f)
  BY TopFacts, FrameFields DEF Pulls, MemoCall, Working, TodoOK

\* dispose_scope called by a call that goes on as f.
LEMMA CallsCallDispose ==
  ASSUME StoreType, StackType(stack, depth), CallsInv, NEW s \in Scope,
         stack # <<>>, ~Pulls(app, Top), Top.op # "settle",
         NEW f \in TypedFrame, f.op = Top.op, f.of = Top.of, f.prev = Top.prev, TodoOK(app, f),
         CallDispose(s, <<f>> \o Below)
  PROVE  Shape(app', stack', observer') /\ CallMarks' /\ MemosReady'
  <1>1. UNCHANGED <<app, state, ready, alive, sources, observer>>
    BY DEF CallDispose, graph, links
  <1>2. SameMemos
    BY <1>1 DEF SameMemos
  <1>3. CASE scopes[s].alive
    <2> DEFINE h == DisposeFrame(s)
    <2>1. scopes[s].children \in Seq(Scope)
      BY ScopeTypes
    <2>2. h \in TypedFrame /\ h.op = "dispose"
      BY <2>1, NewFrames DEF DisposeFrame, NewFrame
    <2>3. stack' = <<h>> \o (<<f>> \o Below)
      BY <1>3 DEF CallDispose
    <2> HIDE DEF h
    <2>4. TodoOK(app, h)
      BY <2>2 DEF TodoOK
    <2> QED
      BY <1>1, <1>2, <2>2, <2>3, <2>4, CallsPushed
  <1>4. CASE ~scopes[s].alive
    <2>1. stack' = <<f>> \o Below
      BY <1>4 DEF CallDispose
    <2> QED
      BY <1>1, <1>2, <2>1, CallsMoved
  <1> QED
    BY <1>3, <1>4

LEMMA CallsDisposes ==
  ASSUME StoreType, StackType(stack, depth), CallsInv,
         Dispose \/ DisposeChild \/ TakeCleanups \/ RunCleanup
  PROVE  Shape(app', stack', observer') /\ CallMarks' /\ MemosReady'
  <1>1. CASE Dispose
    <2> DEFINE f == Skipping(0)
    <2>1. Doing("dispose") /\ Arg \in Scope /\ InCode
      BY <1>1, DoingFacts DEF Dispose, WellTyped
    <2>2. ~Pulls(app, Top) /\ Top.op # "settle" /\ stack # <<>> /\ Top \in TypedFrame
          /\ Top.op \in {"run", "handler", "batch"}
      BY <2>1, NotPulling, CodeFacts
    <2>3. f \in TypedFrame /\ f.op = Top.op /\ f.of = Top.of /\ f.prev = Top.prev
      BY <2>2, SkippingSame
    <2>4. TodoOK(app, f)
      BY <2>2, <2>3 DEF TodoOK
    <2>5. CallDispose(Arg, <<f>> \o Below)
      BY <1>1 DEF Dispose, Advanced
    <2> HIDE DEF f
    <2> QED
      BY <2>1, <2>2, <2>3, <2>4, <2>5, CallsCallDispose
  <1>2. CASE DisposeChild
    <2>1. stack # <<>> /\ Top.op = "dispose" /\ Top.pc = 1 /\ Top.todo # <<>>
      BY <1>2 DEF DisposeChild, At
    <2>2. /\ Top \in TypedFrame /\ ~Pulls(app, Top) /\ Top.todo \in Seq(Scope)
      BY <2>1, DisposeTop
    <2>3. Head(Top.todo) \in Scope /\ Tail(Top.todo) \in Seq(Scope)
      BY <2>1, <2>2
    <2> DEFINE f == [Top EXCEPT !.todo = Tail(Top.todo)]
    <2>4. f \in TypedFrame /\ f.op = Top.op /\ f.of = Top.of /\ f.prev = Top.prev
      BY <2>1, <2>2, <2>3, FrameGoesOn, FrameSame
    <2>5. CallDispose(Head(Top.todo), <<f>> \o Below)
      BY <1>2 DEF DisposeChild
    <2> HIDE DEF f
    <2>6. TodoOK(app, f)
      BY <2>1, <2>4 DEF TodoOK
    <2> QED
      BY <2>1, <2>2, <2>3, <2>4, <2>5, <2>6, CallsCallDispose
  <1>3. CASE TakeCleanups
    <2>1. stack # <<>> /\ Top.op = "dispose"
      BY <1>3 DEF TakeCleanups, At
    <2>2. Top \in TypedFrame /\ Top.of \in Scope
      BY <2>1, DisposeTop
    <2> DEFINE t == Reverse(scopes[Top.of].cleanups)
               f == [Top EXCEPT !.pc = 2, !.todo = t]
    <2>3. t \in Seq(Handler)
      BY <2>2, ScopeTypes, ReversedList
    <2>4. stack' = <<f>> \o Below /\ UNCHANGED <<app, state, ready, alive, sources, observer>>
      BY <1>3 DEF TakeCleanups, graph, links
    <2> HIDE DEF t
    <2>5. f \in TypedFrame /\ f.op = Top.op /\ f.of = Top.of /\ f.prev = Top.prev
      <3>1. \A u \in Seq(Handler) : [Top EXCEPT !.pc = 2, !.todo = u] \in TypedFrame
        BY <2>1, <2>2, FrameGoesOn
      <3>2. f \in TypedFrame
        BY <2>3, <3>1
      <3>3. f.op = Top.op /\ f.of = Top.of /\ f.prev = Top.prev
        BY <2>2 DEF TypedFrame, Frame
      <3> QED
        BY <3>2, <3>3
    <2> HIDE DEF f
    <2>6. TodoOK(app, f) /\ SameMemos
      BY <2>1, <2>4, <2>5 DEF TodoOK, SameMemos
    <2> QED
      BY <2>1, <2>4, <2>5, <2>6, CallsMoved
  <1>4. CASE RunCleanup
    <2>1. stack # <<>> /\ Top.op = "dispose" /\ Top.todo # <<>> /\ Top.pc # 1
      BY <1>4 DEF RunCleanup, At
    <2>2. /\ Top \in TypedFrame /\ ~Pulls(app, Top) /\ Top.todo \in Seq(Handler)
      BY <2>1, DisposeTop
    <2>3. Head(Top.todo) \in Handler /\ Tail(Top.todo) \in Seq(Handler)
      BY <2>1, <2>2
    <2> DEFINE h == NewFrame("handler", Head(Top.todo), <<>>)
               f == [Top EXCEPT !.todo = Tail(Top.todo)]
    <2>4. h \in TypedFrame /\ h.op = "handler"
      BY <2>3, NewFrames DEF NewFrame
    <2>5. f \in TypedFrame /\ f.op = Top.op /\ f.of = Top.of /\ f.prev = Top.prev
      BY <2>1, <2>2, <2>3, FrameGoesOn, FrameSame
    <2>6. stack' = <<h, f>> \o Below /\ UNCHANGED <<app, state, ready, alive, sources, observer>>
      BY <1>4 DEF RunCleanup, OnlyTheStack, graph, links
    <2> HIDE DEF f, h
    <2>7. stack' = <<h>> \o (<<f>> \o Below)
      <3>1. Below \in Seq(TypedFrame)
        BY <2>1, TopFacts
      <3>2. <<h, f>> \o Below = <<h>> \o (<<f>> \o Below)
        BY <2>4, <2>5, <3>1, PushTwo
      <3> QED
        BY <2>6, <3>2
    <2>8. TodoOK(app, f) /\ TodoOK(app, h) /\ SameMemos
      BY <2>1, <2>4, <2>5, <2>6 DEF TodoOK, SameMemos
    <2> QED
      BY <2>1, <2>2, <2>4, <2>5, <2>6, <2>7, <2>8, CallsPushed
  <1> QED
    BY <1>1, <1>2, <1>3, <1>4

\* Nodes come and go while no memo is brought up to date.
LEMMA CallsBuildBranch ==
  ASSUME StoreType, StackType(stack, depth), CallsInv, BuildBranch
  PROVE  Shape(app', stack', observer') /\ CallMarks' /\ MemosReady'
  <1>1. Doing("build") /\ InCode
    BY DEF BuildBranch, Doing
  <1>2. ~Pulls(app, Top) /\ Top.op # "settle" /\ stack # <<>> /\ Top \in TypedFrame
        /\ Top.op \in {"run", "handler", "batch"}
    BY <1>1, NotPulling, CodeFacts
  <1>3. Arg \in Scope
    BY <1>1, DoingFacts DEF WellTyped
  <1> DEFINE new == {n \in Owned(Arg) : ~IsEffect(n)}
             h == NewFrame("handler", app.build[Arg], <<>>)
             f == Skipping(0)
  <1>4. /\ UNCHANGED <<app, sources, observer>>
        /\ alive' = alive \cup new /\ ready' = ready \cup {n \in new : IsMemo(n)}
        /\ stack' = <<h>> \o (<<f>> \o Below)
    BY DEF BuildBranch, links, Advanced
  <1>5. app.build[Arg] \in Handler
    BY <1>3, AppAssumption DEF StoreType
  <1>6. h \in TypedFrame /\ h.op = "handler"
    BY <1>5, NewFrames DEF NewFrame
  <1>7. f \in TypedFrame /\ f.op = Top.op /\ f.of = Top.of /\ f.prev = Top.prev
    BY <1>2, SkippingSame
  <1> HIDE DEF new, h, f
  <1>8. TodoOK(app, h) /\ TodoOK(app, f)
    BY <1>2, <1>6, <1>7 DEF TodoOK
  <1>9. /\ stack \in Seq(TypedFrame) /\ Shape(app, stack, observer) /\ MemosReady
    BY DEF StackType, CallsInv
  <1>10. /\ Shape(app, stack', observer)
         /\ \A op, n : Called(stack', op, n) <=> Called(stack, op, n) \/ (h.op = op /\ h.of = n)
    BY <1>2, <1>4, <1>6, <1>7, <1>8, <1>9, PushedShape
  <1>11. \A n \in Node : IsMemo(n) => \A op \in Working : ~Called(stack, op, n)
    BY <1>2, <1>9, CalmCalls DEF Top, IsMemo
  <1>12. \A n \in Node : IsMemo(n) => \A op \in Working : ~Called(stack', op, n)
    BY <1>6, <1>10, <1>11 DEF Working
  <1>13. CallMarks'
    BY <1>4, <1>12 DEF CallMarks, IsMemo, Working
  <1>14. MemosReady'
    BY <1>4, <1>9, <1>11, <1>12 DEF MemosReady, IsMemo, Working
  <1> QED
    BY <1>4, <1>10, <1>13, <1>14

LEMMA CallsDisposeNodes ==
  ASSUME StoreType, StackType(stack, depth), CallsInv, DisposeNodes
  PROVE  Shape(app', stack', observer') /\ CallMarks' /\ MemosReady'
  <1>1. stack # <<>> /\ Top.op = "dispose"
    BY DEF DisposeNodes, At
  <1>2. ~Pulls(app, Top)
    BY <1>1, DisposeTop
  <1> DEFINE dead == Dying(Top.of)
  <1>3. /\ alive' = alive \ dead /\ ready' = ready \ dead
        /\ sources' = [n \in Node |-> IF n \in dead THEN <<>> ELSE Living(sources[n], dead)]
        /\ stack' = Below /\ UNCHANGED <<app, observer>>
    BY DisposeNodesParts
  <1> HIDE DEF dead
  <1>4. /\ stack \in Seq(TypedFrame) /\ Shape(app, stack, observer) /\ MemosReady
    BY DEF StackType, CallsInv
  <1>5. Shape(app, stack', observer)
    BY <1>1, <1>3, <1>4, ShapePop DEF Top, Below
  <1>6. \A op, n : Called(stack, op, n) <=> Called(stack', op, n) \/ (Top.op = op /\ Top.of = n)
    BY <1>1, <1>3, <1>4, CalledPop DEF Top, Below
  <1>7. \A n \in Node : IsMemo(n) => \A op \in Working : ~Called(stack, op, n)
    BY <1>1, <1>2, <1>4, CalmCalls DEF Top, IsMemo
  <1>8. CallMarks'
    BY <1>3, <1>6, <1>7 DEF CallMarks, IsMemo, Working
  <1>9. Living(<<>>, dead) = <<>>
    <2>1. <<>> \in Seq(Node)
      OBVIOUS
    <2>2. Living(<<>>, dead) \in Seq(Node) /\ \A x : ~Contains(Living(<<>>, dead), x)
      BY <2>1, LivingList, NothingListed
    <2> DEFINE l == Living(<<>>, dead)
    <2>3. l \in Seq(Node) /\ \A x : ~Contains(l, x)
      BY <2>2
    <2> HIDE DEF l
    <2>4. ~(1 \in 1..Len(l))
      BY <2>3 DEF Contains
    <2>5. Len(l) = 0
      BY <2>3, <2>4
    <2>6. l = <<>>
      BY <2>3, <2>5
    <2> QED
      BY <2>6 DEF l
  <1>10. MemosReady'
    <2>1. \A n \in Node : sources[n] = <<>> => sources'[n] = <<>>
      BY <1>3, <1>9
    <2>2. \A n \in Node : n \in dead => sources'[n] = <<>>
      BY <1>3
    <2> QED
      BY <1>3, <1>4, <1>6, <1>7, <2>1, <2>2 DEF MemosReady, IsMemo, Working
  <1> QED
    BY <1>3, <1>5, <1>8, <1>10

LEMMA CallsEvent ==
  ASSUME StoreType, StackType(stack, depth), CallsInv, Event
  PROVE  Shape(app', stack', observer') /\ CallMarks' /\ MemosReady'
  <1>1. PICK h \in app.onEvent, payload \in Value, op \in Calls : Dispatch(h, payload, op)
    BY DEF Event
  <1>2. h \in Handler /\ op \in {"handler", "batch"}
    BY AppAssumption, CallsAssumption DEF StoreType
  <1> DEFINE f == [NewFrame(op, h, <<>>) EXCEPT !.acc = payload]
  <1>3. f \in TypedFrame /\ f.op = op
    BY <1>2, NewFrames DEF NewFrame
  <1>4. stack' = <<f>> /\ stack = <<>> /\ UNCHANGED <<app, graph, observer>>
    BY <1>1 DEF Dispatch
  <1> HIDE DEF f
  <1>5. /\ stack \in Seq(TypedFrame) /\ Shape(app, stack, observer) /\ CallMarks /\ MemosReady
    BY DEF StackType, CallsInv
  <1>6. <<f>> \o stack = <<f>>
    <2>1. <<f>> \o <<>> = <<f>>
      BY <1>3
    <2> QED
      BY <1>4, <2>1, Zenon
  <1>7. Len(stack) = 0
    BY <1>4
  <1>8. Shape(app, <<f>> \o stack, observer)
    <2>1. \A i \in 1..Len(stack) : MayRest(app, f, stack[i])
      BY <1>7
    <2>2. TodoOK(app, f) /\ f.op \notin Working /\ f.op # "run"
      BY <1>2, <1>3 DEF TodoOK, Working
    <2> QED
      BY <1>3, <1>4, <1>5, <2>1, <2>2, ShapePush
  <1>9. \A o, n : Called(<<f>> \o stack, o, n) <=> Called(stack, o, n) \/ (f.op = o /\ f.of = n)
    BY <1>3, <1>5, CalledPush
  <1>10. \A o \in Working : \A n : Called(stack', o, n) <=> Called(stack, o, n)
    BY <1>2, <1>3, <1>4, <1>6, <1>9 DEF Working
  <1>11. SameMemos
    BY <1>4 DEF SameMemos, graph, links
  <1>12. CallMarks' /\ MemosReady'
    BY <1>5, <1>10, <1>11, MemosKept DEF SameMemos, Working
  <1> QED
    BY <1>4, <1>6, <1>8, <1>12

LEMMA CallsInit == Init => CallsInv
  <1> SUFFICES ASSUME Init PROVE CallsInv
    OBVIOUS
  <1> DEFINE f == NewFrame("handler", app.build[Root], <<>>)
  <1>1. TypeInv
    BY TypeInit
  <1>2. StoreType /\ StackType(stack, depth)
    BY <1>1, TypeInvParts
  <1>3. stack = <<f>> /\ f.op = "handler" /\ observer = None /\ agenda = <<>>
        /\ sources = [n \in Node |-> <<>>]
        /\ state = [n \in Node |-> IF IsSignal(n) THEN "Clean" ELSE "Dirty"]
        /\ ready = {n \in Owned(Root) : IsMemo(n)}
        /\ alive = {n \in Owned(Root) : ~IsEffect(n)}
    BY DEF Init, NewFrame
  <1> HIDE DEF f
  <1>4. Len(stack) = 1 /\ stack[1] = f
    BY <1>3
  <1>5. \A n \in Node : IsMemo(n) => ~IsEffect(n)
    BY DEF IsMemo, IsEffect
  <1>6. \A op \in Working : \A n : ~Called(stack, op, n)
    BY <1>3, <1>4 DEF Called, Working
  <1>7. Shape(app, stack, observer)
    <2>1. \A i \in 1..Len(stack) : i = 1
      BY <1>4
    <2>2. Nested(app, stack) /\ NoSignals(app, stack) /\ Paired(stack) /\ Watched(stack)
      BY <1>3, <1>4, <2>1 DEF Nested, NoSignals, Paired, Watched, Working
    <2>3. Watching(observer, stack, 1)
      BY <1>3, <1>4, <2>1 DEF Watching
    <2>4. \A i \in 1..Len(stack) : TodoOK(app, stack[i])
      BY <1>3, <1>4, <2>1 DEF TodoOK
    <2> QED
      BY <2>2, <2>3, <2>4 DEF Shape
  <1>8. LinksAgree
    BY LinksInit
  <1>9. LinksOK
    BY <1>3, NothingListed DEF LinksOK, DependsOn
  <1>10. SignalsClean
    BY <1>3, EmptyAgenda DEF SignalsClean
  <1>11. CallMarks
    BY <1>6 DEF CallMarks, Working
  <1>12. MemosReady
    BY <1>3, <1>5, <1>6 DEF MemosReady, Working, Owned
  <1> QED
    BY <1>7, <1>8, <1>9, <1>10, <1>11, <1>12 DEF CallsInv

LEMMA CallsStep ==
  ASSUME TypeInv, CallsInv, [Next]_vars PROVE CallsInv'
  <1>0. StoreType /\ StackType(stack, depth)
    BY TypeInvParts
  <1>1. LinksAgree' /\ LinksOK' /\ SignalsClean'
    BY LinksStep, LinksOKStep, SignalsStep DEF CallsInv
  <1>2. Shape(app', stack', observer') /\ CallMarks' /\ MemosReady'
    <2>1. CASE UNCHANGED vars
      BY <2>1 DEF CallsInv, CallMarks, MemosReady, IsMemo, vars, graph, links
    <2>2. CASE Rest
      BY <2>2 DEF CallsInv, CallMarks, MemosReady, IsMemo, Rest, vars, graph, links
    <2>3. CASE Event
      BY <1>0, <2>3, CallsEvent
    <2>4. CASE Notify
      BY <1>0, <2>4, CallsNotify
    <2>5. CASE CheckSource
      BY <1>0, <2>5, CallsCheckSource
    <2>6. CASE CheckPassed \/ Settle
      BY <1>0, <2>6, CallsCleaned
    <2>7. CASE Update
      BY <1>0, <2>7, CallsUpdate
    <2>8. CASE Return
      BY <1>0, <2>8, CallsReturn
    <2>9. CASE FlushTake \/ FlushRun \/ FlushDone
      BY <1>0, <2>9, CallsFlush
    <2>10. CASE GetStale
      BY <1>0, <2>10, CallsGetStale
    <2>11. CASE Get
      BY <1>0, <2>11, CallsGet
    <2>12. CASE Peek \/ BuildMounted \/ Jump
      BY <1>0, <2>12, CallsMoves
    <2>13. CASE Set
      BY <1>0, <2>13, CallsSet
    <2>14. CASE Mount
      BY <1>0, <2>14, CallsMount
    <2>15. CASE BuildBranch
      BY <1>0, <2>15, CallsBuildBranch
    <2>16. CASE HandlerReturns
      BY <1>0, <2>16, CallsHandlerReturns
    <2>17. CASE Dispose \/ DisposeChild \/ TakeCleanups \/ RunCleanup
      BY <1>0, <2>17, CallsDisposes
    <2>18. CASE DisposeNodes
      BY <1>0, <2>18, CallsDisposeNodes
    <2> QED
      BY <2>1, <2>2, <2>3, <2>4, <2>5, <2>6, <2>7, <2>8, <2>9, <2>10, <2>11, <2>12,
         <2>13, <2>14, <2>15, <2>16, <2>17, <2>18 DEF Next, Step
  <1> QED
    BY <1>1, <1>2 DEF CallsInv

\* However closures nest, bringing a memo up to date calls nothing but memos it
\* was created after, each once; the observer is the innermost closure that
\* runs; a memo in progress is marked, and its computation is out of place
\* exactly while it runs.
THEOREM ReactiveCalls == Spec => []CallsInv
  BY TypeInvHolds, CallsInit, CallsStep, PTL DEF Spec

-----------------------------------------------------------------------------
(* Marks.  What could be out of date is marked, or its mark is on the way: a*)
(* memo with a source that is not Clean.  And while a memo is brought up to *)
(* date no memo that is Clean is marked, so the sources it has been through *)
(* stay as they are.                                                        *)

Marked(q, n) == \E m : Asked(q, n, m)

\* Only memos are brought up to date above some call.
Pulling(a, s) ==
  \E n : Called(s, "visit", n) \/ (a.kind[n] = "memo" /\ \E op \in Working : Called(s, op, n))

\* m is among the sources that a visit of n has not come to yet.
ToVisit(s, n, m) ==
  \E i \in 1..Len(s) : s[i].op = "visit" /\ s[i].of = n /\ Contains(s[i].todo, m)

StaleIsMarked ==
  \A n, m \in Node :
    IsMemo(n) /\ DependsOn(n, m) /\ state[m] # "Clean" => state[n] # "Clean" \/ Marked(agenda, n)

NoNewMarks ==
  \A n \in Node : IsMemo(n) /\ Pulling(app, stack) /\ Marked(agenda, n) => state[n] # "Clean"

InProgress(s, m) == Called(s, "visit", m) \/ Called(s, "settle", m)

SourcesUpToDate ==
  \A n, m \in Node : IsMemo(n) /\ DependsOn(n, m) =>
    /\ Called(stack, "visit", n) =>
         state[m] = "Clean" \/ InProgress(stack, m) \/ state[n] = "Dirty" \/ ToVisit(stack, n, m)
    /\ Called(stack, "settle", n) => state[m] = "Clean" \/ InProgress(stack, m)

MarksInv == StaleIsMarked /\ NoNewMarks /\ SourcesUpToDate

LEMMA ToVisitPush ==
  ASSUME NEW s \in Seq(TypedFrame), NEW f \in TypedFrame, NEW n, NEW m
  PROVE  ToVisit(<<f>> \o s, n, m) <=>
           ToVisit(s, n, m) \/ (f.op = "visit" /\ f.of = n /\ Contains(f.todo, m))
  <1> DEFINE t == <<f>> \o s
  <1>1. /\ t \in Seq(TypedFrame) /\ Len(t) = Len(s) + 1 /\ t[1] = f /\ Len(s) \in Nat
        /\ \A i \in 1..Len(s) : t[i + 1] = s[i]
        /\ \A i \in 2..(Len(s) + 1) : t[i] = s[i - 1]
    BY Pushed
  <1> HIDE DEF t
  <1>2. \A i \in 1..Len(t) : i = 1 \/ (i - 1 \in 1..Len(s) /\ t[i] = s[i - 1])
    BY <1>1
  <1>3. 1 \in 1..Len(t) /\ \A i \in 1..Len(s) : i + 1 \in 1..Len(t)
    BY <1>1
  <1>a. ToVisit(t, n, m) =>
          ToVisit(s, n, m) \/ (f.op = "visit" /\ f.of = n /\ Contains(f.todo, m))
    BY <1>1, <1>2 DEF ToVisit
  <1>b. ToVisit(s, n, m) => ToVisit(t, n, m)
    BY <1>1, <1>3 DEF ToVisit
  <1>c. f.op = "visit" /\ f.of = n /\ Contains(f.todo, m) => ToVisit(t, n, m)
    BY <1>1, <1>3 DEF ToVisit
  <1>4. ToVisit(t, n, m) <=>
          ToVisit(s, n, m) \/ (f.op = "visit" /\ f.of = n /\ Contains(f.todo, m))
    BY <1>a, <1>b, <1>c
  <1> QED
    BY <1>4 DEF t

LEMMA ToVisitPop ==
  ASSUME NEW s \in Seq(TypedFrame), s # <<>>, NEW n, NEW m
  PROVE  ToVisit(s, n, m) <=>
           \/ ToVisit(Tail(s), n, m)
           \/ Head(s).op = "visit" /\ Head(s).of = n /\ Contains(Head(s).todo, m)
  <1> DEFINE t == Tail(s)
  <1>1. /\ t \in Seq(TypedFrame) /\ Len(s) = Len(t) + 1 /\ Head(s) = s[1] /\ Len(t) \in Nat
        /\ \A i \in 1..Len(t) : t[i] = s[i + 1]
    BY Popped
  <1> HIDE DEF t
  <1>2. \A i \in 1..Len(s) : i = 1 \/ (i - 1 \in 1..Len(t) /\ s[i] = t[i - 1])
    BY <1>1
  <1>3. 1 \in 1..Len(s) /\ \A i \in 1..Len(t) : i + 1 \in 1..Len(s)
    BY <1>1
  <1>a. ToVisit(s, n, m) =>
          ToVisit(t, n, m) \/ (Head(s).op = "visit" /\ Head(s).of = n /\ Contains(Head(s).todo, m))
    BY <1>1, <1>2 DEF ToVisit
  <1>b. ToVisit(t, n, m) => ToVisit(s, n, m)
    BY <1>1, <1>3 DEF ToVisit
  <1>c. Head(s).op = "visit" /\ Head(s).of = n /\ Contains(Head(s).todo, m) => ToVisit(s, n, m)
    BY <1>1, <1>3 DEF ToVisit
  <1>4. ToVisit(s, n, m) <=>
          ToVisit(t, n, m) \/ (Head(s).op = "visit" /\ Head(s).of = n /\ Contains(Head(s).todo, m))
    BY <1>a, <1>b, <1>c
  <1> QED
    BY <1>4 DEF t

\* The same nodes are being brought up to date, as far as before.
SameWork(s, t) ==
  /\ \A op \in Working : \A n : Called(t, op, n) <=> Called(s, op, n)
  /\ \A n, m : ToVisit(t, n, m) <=> ToVisit(s, n, m)

LEMMA WorkPush ==
  ASSUME NEW s \in Seq(TypedFrame), NEW f \in TypedFrame, f.op \notin Working
  PROVE  SameWork(s, <<f>> \o s)
  <1>1. \A op, n : Called(<<f>> \o s, op, n) <=> Called(s, op, n) \/ (f.op = op /\ f.of = n)
    BY CalledPush
  <1>2. \A n, m : ToVisit(<<f>> \o s, n, m) <=>
                    ToVisit(s, n, m) \/ (f.op = "visit" /\ f.of = n /\ Contains(f.todo, m))
    BY ToVisitPush
  <1> QED
    BY <1>1, <1>2 DEF SameWork, Working

LEMMA WorkPop ==
  ASSUME NEW s \in Seq(TypedFrame), s # <<>>, Head(s).op \notin Working
  PROVE  SameWork(s, Tail(s))
  <1>1. \A op, n : Called(s, op, n) <=> Called(Tail(s), op, n) \/ (Head(s).op = op /\ Head(s).of = n)
    BY CalledPop
  <1>2. \A n, m : ToVisit(s, n, m) <=>
          \/ ToVisit(Tail(s), n, m)
          \/ Head(s).op = "visit" /\ Head(s).of = n /\ Contains(Head(s).todo, m)
    BY ToVisitPop
  <1> QED
    BY <1>1, <1>2 DEF SameWork, Working

LEMMA WorkSwap ==
  ASSUME NEW s \in Seq(TypedFrame), s # <<>>, NEW f \in TypedFrame,
         f.op = Head(s).op, f.of = Head(s).of, f.op # "visit"
  PROVE  SameWork(s, <<f>> \o Tail(s))
  <1>1. \A op, n : Called(<<f>> \o Tail(s), op, n) <=> Called(s, op, n)
    BY CalledSwap
  <1>2. Tail(s) \in Seq(TypedFrame)
    BY Popped
  <1>3. \A n, m : ToVisit(<<f>> \o Tail(s), n, m) <=> ToVisit(Tail(s), n, m)
    BY <1>2, ToVisitPush
  <1>4. \A n, m : ToVisit(s, n, m) <=> ToVisit(Tail(s), n, m)
    BY ToVisitPop
  <1> QED
    BY <1>1, <1>3, <1>4 DEF SameWork

\* One call that brings nothing up to date, on top of another that goes on.
LEMMA WorkSwapPush ==
  ASSUME NEW s \in Seq(TypedFrame), s # <<>>, NEW f \in TypedFrame,
         f.op = Head(s).op, f.of = Head(s).of, f.op # "visit",
         NEW h \in TypedFrame, h.op \notin Working
  PROVE  SameWork(s, <<h>> \o (<<f>> \o Tail(s)))
  <1> DEFINE t == <<f>> \o Tail(s)
  <1>1. t \in Seq(TypedFrame)
    BY Popped, Pushed
  <1>2. SameWork(s, t)
    BY WorkSwap
  <1> HIDE DEF t
  <1>3. SameWork(t, <<h>> \o t)
    BY <1>1, WorkPush
  <1>4. SameWork(s, <<h>> \o t)
    BY <1>2, <1>3 DEF SameWork
  <1> QED
    BY <1>4 DEF t

\* How far the code on top goes on.
Moved(k, v) == stack' = <<[Skipping(k) EXCEPT !.acc = v]>> \o Below

LEMMA MovedFrame ==
  ASSUME StoreType, StackType(stack, depth), InCode, NEW k \in Nat, NEW v \in Value
  PROVE  LET f == [Skipping(k) EXCEPT !.acc = v]
         IN /\ f \in TypedFrame /\ f.op = Top.op /\ f.of = Top.of /\ f.prev = Top.prev
            /\ f.pc = Top.pc + 1 + k /\ f.acc = v
            /\ Skipping(k) = [Skipping(k) EXCEPT !.acc = Top.acc]
  <1>1. stack # <<>> /\ Top \in TypedFrame /\ Top.op \in {"run", "handler", "batch"}
    BY CodeFacts
  <1>2. LET f == [Skipping(k) EXCEPT !.acc = v]
        IN f \in TypedFrame /\ f.op = Top.op /\ f.of = Top.of /\ f.prev = Top.prev
    BY <1>1, SkippingSame
  <1>3. Top \in Frame
    BY <1>1, FrameFields
  <1>4. Skipping(k) \in Frame
    BY <1>1, FrameGoesOn DEF Skipping
  <1>5. Skipping(k).pc = Top.pc + 1 + k /\ Skipping(k).acc = Top.acc
    BY <1>3 DEF Skipping, Frame
  <1> DEFINE g == Skipping(k)
  <1>6. g \in Frame /\ g.pc = Top.pc + 1 + k /\ g.acc = Top.acc
    BY <1>4, <1>5
  <1> HIDE DEF g
  <1>7. /\ [g EXCEPT !.acc = v].pc = Top.pc + 1 + k /\ [g EXCEPT !.acc = v].acc = v
        /\ g = [g EXCEPT !.acc = Top.acc]
    BY <1>6 DEF Frame
  <1> QED
    BY <1>2, <1>7 DEF g

LEMMA Moves ==
  ASSUME StoreType, StackType(stack, depth)
  PROVE  /\ Get => \/ value[Arg] = NoValue /\ panicked' /\ stack' = stack
                   \/ value[Arg] \in Value /\ Moved(0, Add(Top.acc, value[Arg]))
         /\ Peek => \/ panicked' /\ stack' = stack
                    \/ value[Arg] \in Value /\ Moved(0, Add(Top.acc, value[Arg]))
         /\ BuildMounted => Moved(0, Top.acc)
         /\ Jump => \/ Doing("ifzero") /\ Moved(IF Top.acc = 0 THEN Code[Top.pc].skip ELSE 0, Top.acc)
                    \/ Doing("return") /\ Moved(Len(Code), Top.acc)
                    \/ Doing("clear") /\ Moved(0, 0)
  <1>1. ASSUME InCode, NEW k \in Nat PROVE Skipping(k) = [Skipping(k) EXCEPT !.acc = Top.acc]
    BY <1>1, MovedFrame, CodeFacts
  <1>2. ASSUME InCode, NEW w
        PROVE [Skipping(0) EXCEPT !.acc = Add(@, w)] = [Skipping(0) EXCEPT !.acc = Add(Top.acc, w)]
    <2>1. Top \in Frame
      BY <1>2, CodeFacts, FrameFields
    <2> QED
      BY <2>1 DEF Skipping, Frame
  <1>3. ASSUME Doing("get") \/ Doing("peek") PROVE InCode /\ (value[Arg] = NoValue \/ value[Arg] \in Value)
    <2>1. Arg \in Node
      BY <1>3, DoingFacts DEF WellTyped
    <2> QED
      BY <1>3, <2>1 DEF StoreType, Doing
  <1>4. Get => \/ value[Arg] = NoValue /\ panicked' /\ stack' = stack
               \/ value[Arg] \in Value /\ Moved(0, Add(Top.acc, value[Arg]))
    BY <1>2, <1>3 DEF Get, Moved
  <1>5. Peek => \/ panicked' /\ stack' = stack
                \/ value[Arg] \in Value /\ Moved(0, Add(Top.acc, value[Arg]))
    BY <1>2, <1>3 DEF Peek, Moved
  <1>6. BuildMounted => Moved(0, Top.acc)
    BY <1>1 DEF BuildMounted, Moved, Advanced, Doing
  <1>7. ASSUME Jump
        PROVE  \/ Doing("ifzero") /\ Moved(IF Top.acc = 0 THEN Code[Top.pc].skip ELSE 0, Top.acc)
               \/ Doing("return") /\ Moved(Len(Code), Top.acc)
               \/ Doing("clear") /\ Moved(0, 0)
    <2>1. CASE Doing("ifzero") /\ stack' = <<Skipping(IF Top.acc = 0 THEN Code[Top.pc].skip ELSE 0)>> \o Below
      <3>1. Code[Top.pc].skip \in Nat
        BY <2>1, DoingFacts DEF Instr
      <3> QED
        BY <1>1, <2>1, <3>1 DEF Moved, Doing
    <2>2. CASE Doing("return") /\ stack' = <<Skipping(Len(Code))>> \o Below
      <3>1. Len(Code) \in Nat
        BY <2>2, CodeFacts DEF Doing
      <3> QED
        BY <1>1, <2>2, <3>1 DEF Moved, Doing
    <2>3. CASE Doing("clear") /\ stack' = <<[Skipping(0) EXCEPT !.acc = 0]>> \o Below
      BY <2>3 DEF Moved
    <2> QED
      BY <1>7, <2>1, <2>2, <2>3 DEF Jump
  <1> QED
    BY <1>4, <1>5, <1>6, <1>7

\* Whatever the code on top does but a read of a stale memo, and what a handler
\* or a dispose in progress does, brings nothing up to date.
LEMMA MovedWork ==
  ASSUME StoreType, StackType(stack, depth), Get \/ Peek \/ BuildMounted \/ Jump
  PROVE  SameWork(stack, stack')
  <1>1. InCode
    BY DEF Get, Peek, BuildMounted, Jump, Doing
  <1>2. stack \in Seq(TypedFrame) /\ stack # <<>> /\ Top = Head(stack) /\ Below = Tail(stack)
        /\ Top.op \in {"run", "handler", "batch"} /\ Top.acc \in Value
    BY <1>1, CodeFacts DEF StackType, Top, Below
  <1>3. ASSUME NEW k \in Nat, NEW v \in Value, Moved(k, v) PROVE SameWork(stack, stack')
    <2> DEFINE f == [Skipping(k) EXCEPT !.acc = v]
    <2>1. f \in TypedFrame /\ f.op = Top.op /\ f.of = Top.of /\ stack' = <<f>> \o Below
      BY <1>1, <1>3, MovedFrame DEF Moved
    <2> HIDE DEF f
    <2> QED
      BY <1>2, <2>1, WorkSwap
  <1>4. stack' = stack => SameWork(stack, stack')
    BY DEF SameWork
  <1>5. CASE Get \/ Peek
    <2>1. value[Arg] \in Value => Add(Top.acc, value[Arg]) \in Value
      BY <1>2, AddType
    <2> QED
      BY <1>3, <1>4, <1>5, <2>1, Moves
  <1>6. CASE BuildMounted
    BY <1>2, <1>3, <1>6, Moves
  <1>7. CASE Jump
    <2>1. 0 \in Value /\ Len(Code) \in Nat
      BY <1>1, CodeFacts, ZeroIsValue
    <2>2. CASE Doing("ifzero") /\ Moved(IF Top.acc = 0 THEN Code[Top.pc].skip ELSE 0, Top.acc)
      <3>1. Code[Top.pc].skip \in Nat
        BY <2>2, DoingFacts DEF Instr
      <3> QED
        BY <1>2, <1>3, <2>2, <3>1
    <2> QED
      BY <1>2, <1>3, <1>7, <2>1, <2>2, Moves
  <1> QED
    BY <1>5, <1>6, <1>7

LEMMA AdvancedWork ==
  ASSUME StoreType, StackType(stack, depth), InCode, NEW h \in TypedFrame, h.op \notin Working
  PROVE  SameWork(stack, Advanced) /\ SameWork(stack, <<h>> \o Advanced)
  <1> DEFINE f == Skipping(0)
  <1>1. stack \in Seq(TypedFrame) /\ stack # <<>> /\ Top = Head(stack) /\ Below = Tail(stack)
        /\ Top.op \in {"run", "handler", "batch"} /\ Top \in TypedFrame
    BY CodeFacts DEF StackType, Top, Below
  <1>2. f \in TypedFrame /\ f.op = Top.op /\ f.of = Top.of
    BY <1>1, SkippingSame
  <1> HIDE DEF f
  <1>3. SameWork(stack, <<f>> \o Below) /\ SameWork(stack, <<h>> \o (<<f>> \o Below))
    BY <1>1, <1>2, WorkSwap, WorkSwapPush
  <1> QED
    BY <1>3 DEF Advanced, f

LEMMA OtherFrames ==
  /\ NewFrame("flush", None, <<>>) \in TypedFrame /\ NewFrame("flush", None, <<>>).op = "flush"
  /\ \A h \in Handler : /\ NewFrame("handler", h, <<>>) \in TypedFrame
                        /\ NewFrame("handler", h, <<>>).op = "handler"
  /\ \A s \in Scope, t \in Seq(Scope) : /\ NewFrame("dispose", s, t) \in TypedFrame
                                        /\ NewFrame("dispose", s, t).op = "dispose"
  BY NewFrames DEF NewFrame

LEMMA CallDisposeWork ==
  ASSUME StoreType, NEW s \in Scope, NEW rest \in Seq(TypedFrame), CallDispose(s, rest)
  PROVE  SameWork(rest, stack')
  <1>1. CASE scopes[s].alive
    <2> DEFINE f == DisposeFrame(s)
    <2>1. scopes[s].children \in Seq(Scope)
      BY ScopeTypes
    <2>2. f \in TypedFrame /\ f.op = "dispose"
      BY <2>1, OtherFrames DEF DisposeFrame
    <2>3. stack' = <<f>> \o rest
      BY <1>1 DEF CallDispose
    <2> HIDE DEF f
    <2> QED
      BY <2>2, <2>3, WorkPush DEF Working
  <1>2. CASE ~scopes[s].alive
    BY <1>2 DEF CallDispose, SameWork
  <1> QED
    BY <1>1, <1>2

LEMMA DisposeWork ==
  ASSUME StoreType, StackType(stack, depth),
         Dispose \/ DisposeChild \/ TakeCleanups \/ RunCleanup \/ DisposeNodes
  PROVE  SameWork(stack, stack')
  <1>0. stack \in Seq(TypedFrame) /\ Top = Head(stack) /\ Below = Tail(stack)
    BY DEF StackType, Top, Below
  <1>1. CASE Dispose
    <2>1. Arg \in Scope /\ InCode /\ CallDispose(Arg, Advanced)
      BY <1>1, DoingFacts DEF Dispose, WellTyped
    <2>2. SameWork(stack, Advanced)
      BY <2>1, AdvancedWork, OtherFrames DEF Working
    <2>3. Advanced \in Seq(TypedFrame)
      BY <2>1, GoesOn DEF Advanced, StackType
    <2>4. SameWork(Advanced, stack')
      BY <2>1, <2>3, CallDisposeWork
    <2> QED
      BY <2>2, <2>4 DEF SameWork
  <1>2. CASE DisposeChild
    <2> DEFINE f == [Top EXCEPT !.todo = Tail(Top.todo)]
               rest == <<f>> \o Below
    <2>1. stack # <<>> /\ Top.op = "dispose" /\ Top.pc = 1 /\ Top.todo # <<>>
      BY <1>2 DEF DisposeChild, At
    <2>2. Top \in TypedFrame /\ Top.todo \in Seq(Scope)
      BY <2>1, DisposeTop
    <2>3. Tail(Top.todo) \in Seq(Scope) /\ Head(Top.todo) \in Scope
      BY <2>1, <2>2
    <2>4. f \in TypedFrame /\ f.op = Top.op /\ f.of = Top.of
      BY <2>1, <2>2, <2>3, FrameGoesOn, FrameSame
    <2>5. CallDispose(Head(Top.todo), rest)
      BY <1>2 DEF DisposeChild
    <2> HIDE DEF f
    <2>6. SameWork(stack, rest) /\ rest \in Seq(TypedFrame)
      BY <1>0, <2>1, <2>4, WorkSwap, Popped, Pushed
    <2> HIDE DEF rest
    <2>7. SameWork(rest, stack')
      BY <2>3, <2>5, <2>6, CallDisposeWork
    <2> QED
      BY <2>6, <2>7 DEF SameWork
  <1>3. CASE TakeCleanups
    <2> DEFINE t == Reverse(scopes[Top.of].cleanups)
               f == [Top EXCEPT !.pc = 2, !.todo = t]
    <2>1. stack # <<>> /\ Top.op = "dispose" /\ stack' = <<f>> \o Below
      BY <1>3 DEF TakeCleanups, At
    <2>2. Top \in TypedFrame /\ Top.of \in Scope
      BY <2>1, DisposeTop
    <2>3. t \in Seq(Handler)
      BY <2>2, ScopeTypes, ReversedList
    <2> HIDE DEF t
    <2>4. f \in TypedFrame /\ f.op = Top.op /\ f.of = Top.of
      <3>1. \A u \in Seq(Handler) : [Top EXCEPT !.pc = 2, !.todo = u] \in TypedFrame
        BY <2>1, <2>2, FrameGoesOn
      <3>2. f \in TypedFrame
        BY <2>3, <3>1
      <3>3. f.op = Top.op /\ f.of = Top.of
        BY <2>2 DEF TypedFrame, Frame
      <3> QED
        BY <3>2, <3>3
    <2> HIDE DEF f
    <2> QED
      BY <1>0, <2>1, <2>4, WorkSwap
  <1>4. CASE RunCleanup
    <2> DEFINE f == [Top EXCEPT !.todo = Tail(Top.todo)]
               h == NewFrame("handler", Head(Top.todo), <<>>)
    <2>1. stack # <<>> /\ Top.op = "dispose" /\ Top.pc = 2 /\ Top.todo # <<>>
          /\ stack' = <<h, f>> \o Below
      BY <1>4 DEF RunCleanup, At
    <2>2. Top \in TypedFrame /\ Top.todo \in Seq(Handler)
      BY <2>1, DisposeTop
    <2>3. Tail(Top.todo) \in Seq(Handler) /\ Head(Top.todo) \in Handler
      BY <2>1, <2>2
    <2>4. f \in TypedFrame /\ f.op = Top.op /\ f.of = Top.of
      <3>1. Top.pc # 1
        BY <2>1
      <3> QED
        BY <2>1, <2>2, <2>3, <3>1, FrameGoesOn, FrameSame
    <2>5. h \in TypedFrame /\ h.op = "handler"
      BY <2>3, OtherFrames
    <2> HIDE DEF f, h
    <2>6. Below \in Seq(TypedFrame)
      BY <1>0, <2>1, Popped
    <2>7. stack' = <<h>> \o (<<f>> \o Below)
      <3>1. <<h, f>> \o Below = <<h>> \o (<<f>> \o Below)
        BY <2>4, <2>5, <2>6, PushTwo
      <3>2. stack' = <<h, f>> \o Below
        BY <2>1
      <3> QED
        BY <3>1, <3>2
    <2> QED
      BY <1>0, <2>1, <2>4, <2>5, <2>7, WorkSwapPush DEF Working
  <1>5. CASE DisposeNodes
    <2>1. stack # <<>> /\ Top.op = "dispose" /\ stack' = Below
      BY <1>5 DEF DisposeNodes, At
    <2> QED
      BY <1>0, <2>1, WorkPop DEF Working
  <1> QED
    BY <1>1, <1>2, <1>3, <1>4, <1>5

LEMMA QuietWork ==
  ASSUME StoreType, StackType(stack, depth),
         Notify \/ Set \/ BuildBranch \/ HandlerReturns \/ FlushTake \/ FlushDone \/ Event
  PROVE  SameWork(stack, stack')
  <1>0. stack \in Seq(TypedFrame) /\ Top = Head(stack) /\ Below = Tail(stack)
    BY DEF StackType, Top, Below
  <1> DEFINE h == NewFrame("flush", None, <<>>)
  <1>h. h \in TypedFrame /\ h.op \notin Working
    BY OtherFrames DEF Working
  <1> HIDE DEF h
  <1>1. CASE Notify
    BY <1>1 DEF Notify, SameWork
  <1>2. CASE Set
    <2>1. InCode /\ stack' \in {Advanced, <<h>> \o Advanced}
      BY <1>2 DEF Set, Doing, Flush, h
    <2> QED
      BY <1>h, <2>1, AdvancedWork
  <1>3. CASE BuildBranch
    <2> DEFINE g == NewFrame("handler", app.build[Arg], <<>>)
    <2>1. InCode /\ Arg \in Scope /\ stack' = <<g>> \o Advanced
      BY <1>3, DoingFacts DEF BuildBranch, WellTyped
    <2>2. g \in TypedFrame /\ g.op \notin Working
      BY <2>1, ScopeTypes, OtherFrames DEF Working
    <2> HIDE DEF g
    <2> QED
      BY <2>1, <2>2, AdvancedWork
  <1>4. CASE HandlerReturns
    <2>1. stack # <<>> /\ Top.op \in {"handler", "batch"} /\ stack' \in {Below, <<h>> \o Below}
      BY <1>4 DEF HandlerReturns, At, h
    <2>2. SameWork(stack, Below) /\ Below \in Seq(TypedFrame)
      BY <1>0, <2>1, WorkPop, Popped DEF Working
    <2>3. SameWork(Below, <<h>> \o Below)
      BY <1>h, <2>2, WorkPush
    <2> QED
      BY <2>1, <2>2, <2>3 DEF SameWork
  <1>5. CASE FlushTake
    <2> DEFINE f == [Top EXCEPT !.todo = pending]
    <2>1. stack # <<>> /\ Top.op = "flush" /\ stack' = <<f>> \o Below
      BY <1>5 DEF FlushTake, At
    <2>2. Top \in TypedFrame /\ pending \in Seq(Node)
      BY <2>1, TopFacts DEF StoreType
    <2>3. f \in TypedFrame /\ f.op = Top.op /\ f.of = Top.of
      BY <2>1, <2>2, FrameGoesOn, FrameSame
    <2> HIDE DEF f
    <2> QED
      BY <1>0, <2>1, <2>3, WorkSwap
  <1>6. CASE FlushDone
    <2>1. stack # <<>> /\ Top.op = "flush" /\ stack' = Below
      BY <1>6 DEF FlushDone, At
    <2> QED
      BY <1>0, <2>1, WorkPop DEF Working
  <1>7. CASE Event
    <2>1. PICK e \in app.onEvent, v \in Value, op \in Calls : Dispatch(e, v, op)
      BY <1>7 DEF Event
    <2> DEFINE f == [NewFrame(op, e, <<>>) EXCEPT !.acc = v]
    <2>2. stack = <<>> /\ stack' = <<f>>
      BY <2>1 DEF Dispatch
    <2>3. e \in Handler /\ op \in {"handler", "batch"}
      BY <2>1, AppAssumption, CallsAssumption DEF StoreType
    <2>4. f \in TypedFrame /\ f.op \notin Working
      BY <2>3, NewFrames DEF NewFrame, Working
    <2> HIDE DEF f
    <2>5. stack' = <<f>> \o stack
      BY <2>2, <2>4
    <2> QED
      BY <1>0, <2>4, <2>5, WorkPush
  <1> QED
    BY <1>1, <1>2, <1>3, <1>4, <1>5, <1>6, <1>7

LEMMA WorkVisit ==
  ASSUME StoreType, NEW s \in Seq(TypedFrame), NEW n \in Node
  PROVE  /\ \A op, k : Called(Visit(n, s), op, k) <=>
              Called(s, op, k) \/ (state[n] # "Clean" /\ op = "visit" /\ k = n)
         /\ \A k, m : ToVisit(Visit(n, s), k, m) <=>
              ToVisit(s, k, m) \/ (state[n] = "Check" /\ k = n /\ Contains(sources[n], m))
  <1>1. CASE state[n] = "Clean"
    BY <1>1 DEF Visit
  <1>2. CASE state[n] # "Clean"
    <2> DEFINE t == IF state[n] = "Check" THEN sources[n] ELSE <<>>
               f == NewFrame("visit", n, t)
    <2>1. state[n] \in {"Check", "Dirty"}
      BY <1>2 DEF StoreType, NodeState
    <2>2. t \in Seq(Node)
      BY DEF StoreType
    <2>3. f \in TypedFrame /\ f.op = "visit" /\ f.of = n /\ f.todo = t
      <3> HIDE DEF t
      <3> QED
        BY <2>2, NewFrames DEF NewFrame
    <2>4. Visit(n, s) = <<f>> \o s
      BY <2>1 DEF Visit
    <2>5. \A m : Contains(t, m) <=> state[n] = "Check" /\ Contains(sources[n], m)
      BY NothingListed
    <2> HIDE DEF f, t
    <2>6. \A op, m : Called(<<f>> \o s, op, m) <=> Called(s, op, m) \/ (f.op = op /\ f.of = m)
      BY <2>3, CalledPush
    <2>7. \A k, m : ToVisit(<<f>> \o s, k, m) <=>
            ToVisit(s, k, m) \/ (f.op = "visit" /\ f.of = k /\ Contains(f.todo, m))
      BY <2>3, ToVisitPush
    <2> QED
      BY <1>2, <2>3, <2>4, <2>5, <2>6, <2>7
  <1> QED
    BY <1>1, <1>2

\* Above the other calls, k is brought up to date if it is marked; if passed,
\* the visit below has come to k.
Visits(k, passed) ==
  /\ \A op \in Working : \A j : Called(stack', op, j) <=>
       Called(stack, op, j) \/ (state[k] # "Clean" /\ op = "visit" /\ j = k)
  /\ \A j, m : ToVisit(stack, j, m) =>
       ToVisit(stack', j, m) \/ (passed /\ j = Top.of /\ m = k)
  /\ \A m : state[k] = "Check" /\ Contains(sources[k], m) => ToVisit(stack', k, m)

LEMMA TodoChanged ==
  ASSUME NEW f \in TypedFrame, f.op \in {"visit", "flush"}, NEW t \in Seq(Node)
  PROVE  LET g == [f EXCEPT !.todo = t]
         IN g \in TypedFrame /\ g.op = f.op /\ g.of = f.of /\ g.todo = t
  <1>1. [f EXCEPT !.todo = t] \in TypedFrame
    BY FrameGoesOn
  <1>2. f \in Frame
    BY FrameFields
  <1> QED
    BY <1>1, <1>2 DEF Frame

LEMMA CheckSourceWork ==
  ASSUME StoreType, StackType(stack, depth), CheckSource
  PROVE  Head(Top.todo) \in Node /\ Visits(Head(Top.todo), TRUE)
  <1> DEFINE f == [Top EXCEPT !.todo = Tail(Top.todo)]
             s == <<f>> \o Below
             k == Head(Top.todo)
  <1>1. stack # <<>> /\ Top.op = "visit" /\ Top.todo # <<>> /\ stack' = Visit(k, s)
    BY DEF CheckSource, At
  <1>2. /\ Top \in TypedFrame /\ Top.todo \in Seq(Node)
        /\ stack \in Seq(TypedFrame) /\ Top = Head(stack) /\ Below = Tail(stack)
    BY <1>1, TopFacts, FrameFields DEF StackType, Top, Below
  <1>3. Tail(Top.todo) \in Seq(Node) /\ k \in Node
    BY <1>1, <1>2
  <1>4. \A m : Contains(Top.todo, m) <=> Contains(Tail(Top.todo), m) \/ m = k
    <2> DEFINE u == Top.todo
               w == Tail(u)
    <2>1. /\ u \in Seq(Node) /\ u # <<>> /\ w \in Seq(Node) /\ Len(u) = Len(w) + 1
          /\ Head(u) = u[1] /\ \A i \in 1..Len(w) : w[i] = u[i + 1]
      BY <1>1, <1>2, Popped
    <2>2. k = Head(u)
      OBVIOUS
    <2> HIDE DEF u, w, k
    <2>3. Len(w) \in Nat
      BY <2>1
    <2>4. \A i \in 1..Len(u) : i = 1 \/ (i - 1 \in 1..Len(w) /\ u[i] = w[i - 1])
      BY <2>1, <2>3
    <2>5. 1 \in 1..Len(u) /\ \A i \in 1..Len(w) : i + 1 \in 1..Len(u)
      BY <2>1, <2>3
    <2>6. \A m : Contains(u, m) <=> Contains(w, m) \/ m = k
      BY <2>1, <2>2, <2>4, <2>5 DEF Contains
    <2> QED
      BY <2>6 DEF u, w
  <1>5. f \in TypedFrame /\ f.op = "visit" /\ f.of = Top.of /\ f.todo = Tail(Top.todo)
    BY <1>1, <1>2, <1>3, TodoChanged
  <1> HIDE DEF f, k
  <1>6. Below \in Seq(TypedFrame) /\ s \in Seq(TypedFrame)
    BY <1>1, <1>2, <1>5, Popped, Pushed
  <1>7. \A op, j : Called(s, op, j) <=> Called(stack, op, j)
    BY <1>1, <1>2, <1>5, CalledSwap
  <1>8. \A j, m : ToVisit(s, j, m) <=>
          ToVisit(Below, j, m) \/ (f.op = "visit" /\ f.of = j /\ Contains(f.todo, m))
    BY <1>5, <1>6, ToVisitPush
  <1>9. \A j, m : ToVisit(stack, j, m) <=>
          ToVisit(Below, j, m) \/ (Top.op = "visit" /\ Top.of = j /\ Contains(Top.todo, m))
    BY <1>1, <1>2, ToVisitPop
  <1>10. \A j, m : ToVisit(stack, j, m) => ToVisit(s, j, m) \/ (j = Top.of /\ m = k)
    BY <1>4, <1>5, <1>8, <1>9
  <1> HIDE DEF s
  <1>11. /\ \A op, j : Called(stack', op, j) <=>
              Called(s, op, j) \/ (state[k] # "Clean" /\ op = "visit" /\ j = k)
         /\ \A j, m : ToVisit(stack', j, m) <=>
              ToVisit(s, j, m) \/ (state[k] = "Check" /\ j = k /\ Contains(sources[k], m))
    BY <1>1, <1>3, <1>6, WorkVisit DEF k
  <1>12. Visits(k, TRUE)
    BY <1>7, <1>10, <1>11 DEF Visits
  <1> QED
    BY <1>3, <1>12 DEF k

LEMMA FlushRunWork ==
  ASSUME StoreType, StackType(stack, depth), FlushRun
  PROVE  SameWork(stack, stack') \/ \E k \in Node : k \in alive /\ Visits(k, FALSE)
  <1> DEFINE f == [Top EXCEPT !.todo = Tail(Top.todo)]
             s == <<f>> \o Below
             k == Head(Top.todo)
  <1>1. stack # <<>> /\ Top.op = "flush" /\ Top.todo # <<>>
        /\ stack' = IF k \in alive THEN Visit(k, s) ELSE s
    BY DEF FlushRun, At
  <1>2. /\ Top \in TypedFrame /\ Top.todo \in Seq(Node)
        /\ stack \in Seq(TypedFrame) /\ Top = Head(stack) /\ Below = Tail(stack)
    BY <1>1, TopFacts, FrameFields DEF StackType, Top, Below
  <1>3. Tail(Top.todo) \in Seq(Node) /\ k \in Node
    BY <1>1, <1>2
  <1>5. f \in TypedFrame /\ f.op = Top.op /\ f.of = Top.of
    BY <1>1, <1>2, <1>3, TodoChanged
  <1> HIDE DEF f, k
  <1>6. s \in Seq(TypedFrame) /\ SameWork(stack, s)
    BY <1>1, <1>2, <1>5, Popped, Pushed, WorkSwap
  <1> HIDE DEF s
  <1>7. CASE k \in alive
    <2>1. /\ \A op, j : Called(stack', op, j) <=>
               Called(s, op, j) \/ (state[k] # "Clean" /\ op = "visit" /\ j = k)
          /\ \A j, m : ToVisit(stack', j, m) <=>
               ToVisit(s, j, m) \/ (state[k] = "Check" /\ j = k /\ Contains(sources[k], m))
      BY <1>1, <1>3, <1>6, <1>7, WorkVisit
    <2>2. Visits(k, FALSE)
      BY <1>6, <2>1 DEF Visits, SameWork
    <2> QED
      BY <1>3, <1>7, <2>2
  <1>8. CASE k \notin alive
    BY <1>1, <1>6, <1>8
  <1> QED
    BY <1>7, <1>8

LEMMA GetStaleWork ==
  ASSUME StoreType, StackType(stack, depth), GetStale, Arg \in Node
  PROVE  Visits(Arg, FALSE)
  <1>1. stack' = Visit(Arg, stack) /\ stack \in Seq(TypedFrame)
    BY DEF GetStale, StackType
  <1>2. /\ \A op, j : Called(stack', op, j) <=>
             Called(stack, op, j) \/ (state[Arg] # "Clean" /\ op = "visit" /\ j = Arg)
        /\ \A j, m : ToVisit(stack', j, m) <=>
             ToVisit(stack, j, m) \/ (state[Arg] = "Check" /\ j = Arg /\ Contains(sources[Arg], m))
    BY <1>1, WorkVisit
  <1> QED
    BY <1>2 DEF Visits

LEMMA PopWork ==
  ASSUME StoreType, StackType(stack, depth), CheckPassed \/ Settle \/ Return
  PROVE  /\ \A op, j : Called(stack, op, j) <=> Called(stack', op, j) \/ (Top.op = op /\ Top.of = j)
         /\ \A j, m : ToVisit(stack', j, m) <=> ToVisit(stack, j, m)
  <1>1. stack # <<>> /\ stack' = Below /\ (Top.op # "visit" \/ Top.todo = <<>>)
    BY DEF CheckPassed, Settle, Return, At
  <1>2. stack \in Seq(TypedFrame) /\ Top = Head(stack) /\ Below = Tail(stack)
    BY DEF StackType, Top, Below
  <1>3. \A op, j : Called(stack, op, j) <=> Called(Below, op, j) \/ (Top.op = op /\ Top.of = j)
    BY <1>1, <1>2, CalledPop
  <1>4. \A j, m : ToVisit(stack, j, m) <=>
          ToVisit(Below, j, m) \/ (Top.op = "visit" /\ Top.of = j /\ Contains(Top.todo, m))
    BY <1>1, <1>2, ToVisitPop
  <1> QED
    BY <1>1, <1>3, <1>4, NothingListed

LEMMA UpdateWork ==
  ASSUME StoreType, StackType(stack, depth), Update
  PROVE  /\ \A op, j : Called(stack, op, j) <=> Called(Below, op, j) \/ (op = "visit" /\ Top.of = j)
         /\ \A op, j : Called(stack', op, j) <=>
              \/ Called(Below, op, j)
              \/ op = "settle" /\ j = Top.of
              \/ op = "run" /\ j = Top.of /\ Top.of \in ready
         /\ \A j, m : ToVisit(stack, j, m) => ToVisit(stack', j, m) \/ j = Top.of
  <1> DEFINE n == Top.of
             g == NewFrame("settle", n, <<>>)
             f == [NewFrame("run", n, <<>>) EXCEPT !.prev = observer]
             s == <<g>> \o Below
  <1>1. stack # <<>> /\ Top.op = "visit" /\ stack' = IF n \in ready THEN <<f>> \o s ELSE s
    BY DEF Update, At
  <1>2. /\ Top \in TypedFrame /\ n \in Node /\ observer \in Node \cup {None}
        /\ stack \in Seq(TypedFrame) /\ Top = Head(stack) /\ Below = Tail(stack)
    BY <1>1, TopFacts, FrameFields DEF StackType, Top, Below, StoreType
  <1>3. g \in TypedFrame /\ g.op = "settle" /\ g.of = n
        /\ f \in TypedFrame /\ f.op = "run" /\ f.of = n
    BY <1>2, NewFrames DEF NewFrame
  <1> HIDE DEF f, g
  <1>4. Below \in Seq(TypedFrame) /\ s \in Seq(TypedFrame)
    BY <1>1, <1>2, <1>3, Popped, Pushed
  <1>5. /\ \A op, j : Called(s, op, j) <=> Called(Below, op, j) \/ (op = "settle" /\ j = n)
        /\ \A j, m : ToVisit(s, j, m) <=> ToVisit(Below, j, m)
    BY <1>3, <1>4, CalledPush, ToVisitPush
  <1> HIDE DEF s
  <1>6. /\ \A op, j : Called(<<f>> \o s, op, j) <=> Called(s, op, j) \/ (op = "run" /\ j = n)
        /\ \A j, m : ToVisit(<<f>> \o s, j, m) <=> ToVisit(s, j, m)
    BY <1>3, <1>4, CalledPush, ToVisitPush
  <1>7. \A op, j : Called(stack, op, j) <=> Called(Below, op, j) \/ (Top.op = op /\ Top.of = j)
    BY <1>1, <1>2, CalledPop
  <1>8. \A j, m : ToVisit(stack, j, m) <=>
          ToVisit(Below, j, m) \/ (Top.op = "visit" /\ Top.of = j /\ Contains(Top.todo, m))
    BY <1>1, <1>2, ToVisitPop
  <1> QED
    BY <1>1, <1>5, <1>6, <1>7, <1>8

LEMMA MountWork ==
  ASSUME StoreType, StackType(stack, depth), Mount
  PROVE  /\ Arg \in Node /\ IsEffect(Arg)
         /\ \A op \in Working : \A j : Called(stack', op, j) <=>
              Called(stack, op, j) \/ (op = "visit" /\ j = Arg)
         /\ \A j, m : ToVisit(stack', j, m) <=> ToVisit(stack, j, m)
  <1> DEFINE h == NewFrame("visit", Arg, <<>>)
  <1>1. InCode /\ Arg \in Node /\ IsEffect(Arg) /\ stack' = <<h>> \o Advanced
    BY DoingFacts DEF Mount, WellTyped, IsEffect
  <1>2. h \in TypedFrame /\ h.op = "visit" /\ h.of = Arg /\ h.todo = <<>>
    BY <1>1, NewFrames DEF NewFrame
  <1> HIDE DEF h
  <1>3. SameWork(stack, Advanced)
    BY <1>1, AdvancedWork, OtherFrames DEF Working
  <1>4. Advanced \in Seq(TypedFrame)
    BY <1>1, GoesOn DEF Advanced, StackType
  <1>5. /\ \A op, j : Called(<<h>> \o Advanced, op, j) <=>
             Called(Advanced, op, j) \/ (h.op = op /\ h.of = j)
        /\ \A j, m : ToVisit(<<h>> \o Advanced, j, m) <=>
             ToVisit(Advanced, j, m) \/ (h.op = "visit" /\ h.of = j /\ Contains(h.todo, m))
    BY <1>2, <1>4, CalledPush, ToVisitPush
  <1> QED
    BY <1>1, <1>2, <1>3, <1>5, NothingListed DEF SameWork

LEMMA CalmStack ==
  ASSUME StackType(stack, depth), Shape(app, stack, observer), stack # <<>>, ~Pulls(app, Top)
  PROVE  ~Pulling(app, stack)
  <1>1. stack \in Seq(TypedFrame) /\ Top = stack[1]
    BY Popped DEF StackType, Top
  <1>2. \A i \in 1..Len(stack) : ~Pulls(app, stack[i])
    BY <1>1, Calm
  <1> QED
    BY <1>2 DEF Pulling, Called, Pulls, MemoCall

\* Below a memo on top that depends on m, m is not brought up to date.
LEMMA SourcesNotBelow ==
  ASSUME StoreType, StackType(stack, depth), CallsInv,
         stack # <<>>, Top.op \in Working, IsMemo(Top.of), NEW m \in Node, DependsOn(Top.of, m)
  PROVE  /\ ~InProgress(stack, m) /\ ~IsEffect(m) /\ m # Top.of
  <1> DEFINE n == Top.of
  <1>2. /\ stack \in Seq(TypedFrame) /\ Top \in TypedFrame /\ n \in Node
        /\ Top = stack[1] /\ Len(stack) \in Nat /\ 1 \in 1..Len(stack)
    BY TopFacts, FrameFields, Popped DEF StackType, Top, Working
  <1>3. /\ Nested(app, stack) /\ NoSignals(app, stack)
        /\ app \in App /\ ~IsEffect(m) /\ app.order[m] < app.order[n]
    BY <1>2 DEF CallsInv, Shape, LinksOK, StoreType
  <1>4. app.order[m] \in Nat /\ app.order[n] \in Nat
    BY <1>2, <1>3, AppAssumption
  <1>5. ~InProgress(stack, m)
    <2>1. SUFFICES ASSUME NEW i \in 1..Len(stack), stack[i].op \in {"visit", "settle"},
                          stack[i].of = m
                   PROVE  FALSE
      BY DEF InProgress, Called
    <2>2. IsMemo(m)
      <3>1. ~IsSignal(m)
        BY <1>3, <2>1 DEF NoSignals, Working, IsSignal
      <3>2. app.kind[m] \in {"signal", "memo", "effect"}
        BY <1>3, AppAssumption
      <3> QED
        BY <1>3, <3>1, <3>2 DEF IsMemo, IsSignal, IsEffect
    <2>3. MemoCall(app, stack[i]) /\ Pulls(app, stack[i])
      BY <2>1, <2>2 DEF MemoCall, Pulls, Working, IsMemo
    <2>4. CASE i = 1
      BY <1>2, <1>3, <1>4, <2>1, <2>4
    <2>5. CASE i # 1
      <3>1. 1 < i
        BY <1>2, <2>5
      <3>2. MayRest(app, stack[1], stack[i])
        BY <1>2, <1>3, <3>1 DEF Nested
      <3>3. app.order[n] < app.order[m] \/ n = m
        BY <1>2, <2>1, <2>3, <3>2 DEF MayRest
      <3> QED
        BY <1>3, <1>4, <3>3
    <2> QED
      BY <2>4, <2>5
  <1> QED
    BY <1>3, <1>4, <1>5

LEMMA TopSources ==
  ASSUME StoreType, StackType(stack, depth), CallsInv, SourcesUpToDate,
         CheckPassed \/ Settle \/ Return, IsMemo(Top.of), NEW m \in Node, DependsOn(Top.of, m)
  PROVE  state[m] = "Clean"
  <1> DEFINE n == Top.of
  <1>1. /\ stack # <<>>
        /\ \/ Top.op \in {"settle", "run"}
           \/ Top.op = "visit" /\ state[n] # "Dirty" /\ Top.todo = <<>>
    BY DEF CheckPassed, Settle, Return, At
  <1>2. /\ stack \in Seq(TypedFrame) /\ Top \in TypedFrame /\ n \in Node
        /\ Top = stack[1] /\ Len(stack) \in Nat /\ 1 \in 1..Len(stack)
        /\ Top = Head(stack) /\ Below = Tail(stack)
    BY <1>1, TopFacts, FrameFields, Popped DEF StackType, Top, Below
  <1>3. Shape(app, stack, observer) /\ app \in App
    BY DEF CallsInv, StoreType
  <1>5. ~InProgress(stack, m)
    BY <1>1, SourcesNotBelow DEF Working
  <1>6. \A op, k : Called(stack, op, k) <=> Called(Below, op, k) \/ (Top.op = op /\ Top.of = k)
    BY <1>1, <1>2, CalledPop
  <1>7. CASE Top.op \in {"settle", "run"}
    <2>1. Called(stack, "settle", n)
      <3>1. CASE Top.op = "settle"
        BY <1>6, <3>1
      <3>2. CASE Top.op = "run"
        BY <1>2, <1>3, <3>2 DEF Shape, Paired, Called
      <3> QED
        BY <1>7, <3>1, <3>2
    <2> QED
      BY <1>2, <1>5, <2>1 DEF SourcesUpToDate
  <1>8. CASE Top.op = "visit" /\ state[n] # "Dirty" /\ Top.todo = <<>>
    <2>1. Called(stack, "visit", n)
      BY <1>6, <1>8
    <2>2. ~ToVisit(stack, n, m)
      <3>1. MemoCall(app, Top)
        BY <1>8 DEF MemoCall, Working, IsMemo
      <3>2. ~Called(Below, "visit", n)
        BY <1>1, <1>2, <1>3, <3>1, CalledOnce DEF Working
      <3>3. ~ToVisit(Below, n, m)
        BY <3>2 DEF ToVisit, Called
      <3>4. ToVisit(stack, n, m) <=>
              ToVisit(Below, n, m) \/ (Top.op = "visit" /\ Top.of = n /\ Contains(Top.todo, m))
        BY <1>1, <1>2, ToVisitPop
      <3> QED
        BY <1>8, <3>3, <3>4, NothingListed
    <2> QED
      BY <1>2, <1>5, <1>8, <2>1, <2>2 DEF SourcesUpToDate
  <1> QED
    BY <1>1, <1>7, <1>8

\* A mark on its way never dirties a source that is Clean while a memo is
\* brought up to date.
LEMMA NotifyStates ==
  ASSUME StoreType, CallsInv, NoNewMarks, Notify
  PROVE  /\ \A k \in Node : /\ state[k] # "Clean" => state'[k] # "Clean"
                            /\ state[k] = "Dirty" => state'[k] = "Dirty"
         /\ \A k \in Node : state'[k] # state[k] => k = Head(agenda).node
         /\ Pulling(app, stack) => \A k \in Node :
              ~IsEffect(k) /\ state[k] = "Clean" => state'[k] = "Clean"
  <1> DEFINE n == Head(agenda).node
             m == Head(agenda).mark
  <1>1. /\ n \in Node /\ m \in {"Check", "Dirty"} /\ agenda # <<>>
        /\ Rank[state[n]] >= Rank[m] => UNCHANGED state
        /\ ~(Rank[state[n]] >= Rank[m]) => state' = [state EXCEPT ![n] = m]
        /\ \A k, mk : Asked(agenda, k, mk) <=> (k = n /\ mk = m) \/ Asked(Tail(agenda), k, mk)
    BY NotifyAsks
  <1> HIDE DEF n, m
  <1>2. state \in [Node -> NodeState] /\ app \in App
    BY DEF StoreType
  <1>3. Rank["Clean"] = 0 /\ Rank["Check"] = 1 /\ Rank["Dirty"] = 2
    BY DEF Rank
  <1>4. /\ \A k \in Node : /\ state[k] # "Clean" => state'[k] # "Clean"
                           /\ state[k] = "Dirty" => state'[k] = "Dirty"
        /\ \A k \in Node : state'[k] # state[k] => k = n
    <2>1. CASE Rank[state[n]] >= Rank[m]
      BY <1>1, <2>1
    <2>2. CASE ~(Rank[state[n]] >= Rank[m])
      <3>1. state[n] # "Dirty"
        BY <1>1, <1>3, <2>2
      <3>2. \A k \in Node : state'[k] = IF k = n THEN m ELSE state[k]
        BY <1>1, <1>2, <2>2
      <3> QED
        BY <1>1, <3>1, <3>2
    <2> QED
      BY <2>1, <2>2
  <1>5. Asked(agenda, n, m) /\ Marked(agenda, n)
    BY <1>1 DEF Marked
  <1>6. ~IsSignal(n)
    BY <1>1, <1>5 DEF CallsInv, SignalsClean
  <1>7. ASSUME Pulling(app, stack), NEW k \in Node, ~IsEffect(k), state[k] = "Clean"
        PROVE  state'[k] = "Clean"
    <2>1. CASE k # n
      BY <1>4, <1>7, <2>1
    <2>2. CASE k = n
      <3>1. IsMemo(n)
        <4>1. app.kind[n] \in {"signal", "memo", "effect"}
          BY <1>1, <1>2, AppAssumption
        <4> QED
          BY <1>6, <1>7, <2>2, <4>1 DEF IsMemo, IsSignal, IsEffect
      <3> QED
        BY <1>1, <1>5, <1>7, <2>2, <3>1 DEF NoNewMarks
    <2> QED
      BY <2>1, <2>2
  <1> QED
    BY <1>4, <1>7 DEF n

\* Which links a step may add: from the node whose closure reads.
LEMMA DependsStep ==
  ASSUME TypeInv, CallsInv, [Next]_vars, NEW j \in Node, NEW m \in Node, DependsOn(j, m)'
  PROVE  \/ DependsOn(j, m)
         \/ /\ GetStale \/ Get
            /\ j = observer /\ m = Arg
            /\ IsMemo(j) => state[j] = "Dirty" /\ Top.op = "run" /\ Top.of = j
  <1>0. StoreType /\ StackType(stack, depth) /\ LinksAgree /\ Shape(app, stack, observer)
        /\ CallMarks
    BY TypeInvParts DEF CallsInv
  <1>1. CASE LinksUntouched \/ UNCHANGED vars
    BY <1>1, LinksUntouchedKept DEF DependsOn
  <1>2. CASE Update
    <2>1. Unlinked(Top.of) /\ Top.of \in Node
      BY <1>0, <1>2, TopFacts, FrameFields DEF Update, At
    <2> QED
      BY <1>0, <2>1, UnlinkedLinks
  <1>3. CASE GetStale \/ Get
    <2>1. Linked(Arg) /\ Doing("get")
      BY <1>3 DEF GetStale, Get
    <2>2. Arg \in Node /\ InCode
      BY <1>0, <2>1, Reads
    <2>3. DependsOn(j, m) \/ (j = observer /\ m = Arg)
      BY <1>0, <2>1, <2>2, LinkedLinks
    <2>4. ASSUME j = observer, IsMemo(j)
          PROVE  state[j] = "Dirty" /\ Top.op = "run" /\ Top.of = j
      <3>1. Top.op = "run" /\ stack # <<>>
        BY <1>0, <2>2, <2>4, Watcher, CodeFacts
      <3>2. Top.of = j
        BY <1>0, <2>4, <3>1, Watcher
      <3>3. Called(stack, "run", j)
        <4>1. stack \in Seq(TypedFrame)
          BY <1>0 DEF StackType
        <4> QED
          BY <3>1, <3>2, <4>1, CalledPop DEF Top
      <3> QED
        BY <1>0, <2>4, <3>1, <3>2, <3>3 DEF CallMarks
    <2> QED
      BY <1>3, <2>3, <2>4
  <1>4. CASE DisposeNodes
    BY <1>0, <1>4, DisposedLinks
  <1> QED
    BY <1>1, <1>2, <1>3, <1>4, NextByLinks

\* New nodes have no links.
LEMMA FreshLinks ==
  ASSUME LinksAgree, NEW n \in Node, Fresh(n)
  PROVE  \A m \in Node : ~DependsOn(n, m) /\ ~DependsOn(m, n)
  BY DEF LinksAgree, Fresh, DependsOn

LEMMA StaleNotify ==
  ASSUME StoreType, CallsInv, MarksInv, Notify
  PROVE  StaleIsMarked'
  <1> DEFINE n == Head(agenda).node
             m == Head(agenda).mark
  <1>1. /\ n \in Node /\ m \in {"Check", "Dirty"}
        /\ \A k, mk : Asked(agenda, k, mk) <=> (k = n /\ mk = m) \/ Asked(Tail(agenda), k, mk)
        /\ Rank[state[n]] >= Rank[m] =>
             UNCHANGED state /\ \A k, mk : Asked(agenda', k, mk) <=> Asked(Tail(agenda), k, mk)
        /\ ~(Rank[state[n]] >= Rank[m]) =>
             /\ state' = [state EXCEPT ![n] = m]
             /\ \A k, mk : Asked(agenda', k, mk) <=>
                  (Contains(observers[n], k) /\ mk = "Check") \/ Asked(Tail(agenda), k, mk)
        /\ UNCHANGED <<app, links>>
    BY NotifyAsks
  <1> HIDE DEF n, m
  <1>2. state \in [Node -> NodeState] /\ LinksAgree /\ StaleIsMarked
    BY DEF StoreType, CallsInv, MarksInv
  <1>3. Rank["Clean"] = 0 /\ Rank["Check"] = 1 /\ Rank["Dirty"] = 2
    BY DEF Rank
  <1>4. SUFFICES ASSUME NEW j \in Node, NEW k \in Node, IsMemo(j), DependsOn(j, k),
                        state'[k] # "Clean"
                 PROVE  state'[j] # "Clean" \/ Marked(agenda', j)
    BY <1>1 DEF StaleIsMarked, IsMemo, DependsOn, links
  <1>5. CASE Rank[state[n]] >= Rank[m]
    <2>1. state[j] # "Clean" \/ Marked(agenda, j)
      BY <1>1, <1>2, <1>4, <1>5 DEF StaleIsMarked
    <2>2. CASE state[j] # "Clean"
      BY <1>1, <1>5, <2>2
    <2>3. CASE Marked(agenda, j)
      <3>1. PICK mk : Asked(agenda, j, mk)
        BY <2>3 DEF Marked
      <3>2. CASE j = n /\ mk = m
        <4>1. state[n] # "Clean"
          BY <1>1, <1>3, <1>5
        <4> QED
          BY <1>1, <1>5, <3>2, <4>1
      <3>3. CASE Asked(Tail(agenda), j, mk)
        BY <1>1, <1>5, <3>3 DEF Marked
      <3> QED
        BY <1>1, <3>1, <3>2, <3>3
    <2> QED
      BY <2>1, <2>2, <2>3
  <1>6. CASE ~(Rank[state[n]] >= Rank[m])
    <2>1. \A i \in Node : state'[i] = IF i = n THEN m ELSE state[i]
      BY <1>1, <1>2, <1>6
    <2>2. CASE k = n
      <3>1. Contains(observers[n], j)
        BY <1>2, <1>4, <2>2 DEF LinksAgree, DependsOn
      <3> QED
        BY <1>1, <1>6, <3>1 DEF Marked
    <2>3. CASE k # n
      <3>1. state[j] # "Clean" \/ Marked(agenda, j)
        BY <1>2, <1>4, <2>1, <2>3 DEF StaleIsMarked
      <3>2. CASE state[j] # "Clean" \/ j = n
        BY <1>1, <2>1, <3>2
      <3>3. CASE Marked(agenda, j) /\ j # n
        <4>1. PICK mk : Asked(agenda, j, mk)
          BY <3>3 DEF Marked
        <4>2. Asked(agenda', j, mk)
          BY <1>1, <1>6, <3>3, <4>1
        <4> QED
          BY <4>2 DEF Marked
      <3> QED
        BY <3>1, <3>2, <3>3
    <2> QED
      BY <2>2, <2>3
  <1> QED
    BY <1>5, <1>6

LEMMA StaleStep ==
  ASSUME TypeInv, CallsInv, MarksInv, [Next]_vars PROVE StaleIsMarked'
  <1>0. /\ StoreType /\ StackType(stack, depth) /\ LinksAgree /\ LinksOK
        /\ Shape(app, stack, observer) /\ StaleIsMarked /\ app' = app
        /\ state \in [Node -> NodeState]
    BY TypeInvParts, LinksOKStep DEF CallsInv, MarksInv, StoreType
  <1>1. CASE Notify
    BY <1>0, <1>1, StaleNotify
  <1>2. CASE Event \/ Rest \/ UNCHANGED vars
    <2>1. UNCHANGED <<app, state, sources, agenda>>
      BY <1>2 DEF Event, Dispatch, Rest, vars, graph, links
    <2> QED
      BY <1>0, <2>1 DEF StaleIsMarked, DependsOn, IsMemo
  <1>3. CASE Step /\ ~Notify
    <2>1. SUFFICES ASSUME NEW j \in Node, NEW m \in Node, IsMemo(j), DependsOn(j, m)',
                          state'[m] # "Clean"
                   PROVE  state'[j] # "Clean"
      BY <1>0 DEF StaleIsMarked, IsMemo
    <2>2. \A k : ~Marked(agenda, k)
      BY <1>0, <1>3, OthersAsk, EmptyAgenda DEF Marked
    <2>3. \/ DependsOn(j, m)
          \/ (GetStale \/ Get) /\ state[j] = "Dirty"
      BY <2>1, DependsStep
    <2>4. CASE (GetStale \/ Get) /\ state[j] = "Dirty"
      BY <2>4 DEF GetStale, Get
    <2>5. CASE DependsOn(j, m)
      <3>1. state[m] # "Clean" => state[j] # "Clean"
        BY <1>0, <2>1, <2>2, <2>5 DEF StaleIsMarked
      <3>2. CASE UNCHANGED state
        BY <2>1, <3>1, <3>2
      <3>3. CASE (CheckPassed \/ Settle) /\ Top.of \in Node /\ state' = [state EXCEPT ![Top.of] = "Clean"]
        <4>1. \A k \in Node : state'[k] = IF k = Top.of THEN "Clean" ELSE state[k]
          BY <1>0, <3>3
        <4>2. j = Top.of => state[m] = "Clean"
          BY <1>0, <2>1, <2>5, <3>3, TopSources DEF MarksInv
        <4> QED
          BY <2>1, <3>1, <4>1, <4>2
      <3>4. CASE Mount /\ Arg \in Node /\ IsEffect(Arg) /\ state' = [state EXCEPT ![Arg] = "Dirty"]
        <4>1. \A k \in Node : state'[k] = IF k = Arg THEN "Dirty" ELSE state[k]
          BY <1>0, <3>4
        <4>2. m # Arg
          BY <1>0, <2>5, <3>4 DEF LinksOK
        <4> QED
          BY <2>1, <3>1, <4>1, <4>2
      <3>5. CASE BuildBranch
        <4>1. \A k \in Node : state'[k] # state[k] => Fresh(k)
          BY <3>5 DEF BuildBranch
        <4>2. ~Fresh(j) /\ ~Fresh(m)
          BY <1>0, <2>5, FreshLinks
        <4> QED
          BY <2>1, <3>1, <4>1, <4>2
      <3>6. CASE DisposeNodes
        <4>1. \A k \in Node : k \notin Dying(Top.of) => state'[k] = state[k]
          BY <3>6, DisposeNodesParts
        <4>2. j \notin Dying(Top.of) /\ m \notin Dying(Top.of)
          BY <1>0, <2>1, <3>6, DisposedLinks
        <4> QED
          BY <2>1, <3>1, <4>1, <4>2
      <3> QED
        BY <1>0, <1>3, <3>2, <3>3, <3>4, <3>5, <3>6, StatesStep
    <2> QED
      BY <2>3, <2>4, <2>5
  <1> QED
    BY <1>1, <1>2, <1>3 DEF Next

LEMMA NoNewMarksStep ==
  ASSUME TypeInv, CallsInv, MarksInv, [Next]_vars PROVE NoNewMarks'
  <1>0. /\ StoreType /\ StackType(stack, depth) /\ LinksAgree /\ LinksOK /\ SignalsClean
        /\ Shape(app, stack, observer) /\ CallMarks /\ app' = app /\ app \in App
        /\ StaleIsMarked /\ NoNewMarks
    BY TypeInvParts, LinksOKStep DEF CallsInv, MarksInv, StoreType
  <1>1. SUFFICES ASSUME NEW k \in Node, IsMemo(k), Pulling(app, stack'), Marked(agenda', k)
                 PROVE  state'[k] # "Clean"
    BY <1>0 DEF NoNewMarks, IsMemo
  <1>2. CASE Notify
    <2> DEFINE n == Head(agenda).node
               m == Head(agenda).mark
    <2>1. /\ n \in Node
          /\ \A i, mk : Asked(agenda, i, mk) <=> (i = n /\ mk = m) \/ Asked(Tail(agenda), i, mk)
          /\ Rank[state[n]] >= Rank[m] =>
               \A i, mk : Asked(agenda', i, mk) <=> Asked(Tail(agenda), i, mk)
          /\ ~(Rank[state[n]] >= Rank[m]) =>
               \A i, mk : Asked(agenda', i, mk) <=>
                    (Contains(observers[n], i) /\ mk = "Check") \/ Asked(Tail(agenda), i, mk)
          /\ UNCHANGED stack
      BY <1>0, <1>2, NotifyAsks
    <2> HIDE DEF n, m
    <2>2. PICK mk : Asked(agenda', k, mk)
      BY <1>1 DEF Marked
    <2>3. Contains(observers[n], k) \/ Asked(Tail(agenda), k, mk)
      BY <2>1, <2>2
    <2>4. Pulling(app, stack)
      BY <1>1, <2>1
    <2>5. state[k] # "Clean"
      <3>1. CASE Asked(Tail(agenda), k, mk)
        <4>1. Marked(agenda, k)
          BY <2>1, <3>1 DEF Marked
        <4> QED
          BY <1>0, <1>1, <2>4, <4>1 DEF NoNewMarks
      <3>2. CASE Contains(observers[n], k)
        <4>1. DependsOn(k, n) /\ ~IsEffect(n)
          BY <1>0, <1>1, <2>1, <3>2 DEF LinksAgree, LinksOK, DependsOn
        <4>2. Marked(agenda, n) /\ ~IsSignal(n)
          BY <1>0, <2>1 DEF Marked, SignalsClean
        <4>3. IsMemo(n)
          <5>1. app.kind[n] \in {"signal", "memo", "effect"}
            BY <1>0, <2>1, AppAssumption
          <5> QED
            BY <4>1, <4>2, <5>1 DEF IsMemo, IsSignal, IsEffect
        <4>4. state[n] # "Clean"
          BY <1>0, <2>1, <2>4, <4>2, <4>3 DEF NoNewMarks
        <4>5. state[k] # "Clean" \/ Marked(agenda, k)
          BY <1>0, <1>1, <2>1, <4>1, <4>4 DEF StaleIsMarked
        <4> QED
          BY <1>0, <1>1, <2>4, <4>5 DEF NoNewMarks
      <3> QED
        BY <2>3, <3>1, <3>2
    <2> QED
      BY <1>0, <1>2, <2>5, NotifyStates
  <1>3. CASE Event \/ Rest \/ UNCHANGED vars
    <2>1. Event => agenda' = <<>>
      BY DEF Event, Dispatch
    <2>2. ~Event
      BY <1>1, <2>1, EmptyAgenda DEF Marked
    <2>3. UNCHANGED <<stack, agenda, state>>
      BY <1>3, <2>2 DEF Rest, vars, graph
    <2> QED
      BY <1>0, <1>1, <2>3 DEF NoNewMarks
  <1>4. CASE Step /\ ~Notify
    <2>1. agenda' # <<>> /\ \A i : ~Marked(agenda, i)
      BY <1>0, <1>1, <1>4, OthersAsk, EmptyAgenda DEF Marked
    <2>2. PICK mk : Asked(agenda', k, mk)
      BY <1>1 DEF Marked
    <2>3. CASE Return /\ IsMemo(Top.of) /\ Top.of \in Node /\ Contains(observers[Top.of], k)
      <3>1. DependsOn(k, Top.of)
        BY <1>0, <1>1, <2>3 DEF LinksAgree, DependsOn
      <3>2. Called(stack, "run", Top.of)
        <4>1. stack # <<>> /\ Top.op = "run" /\ stack \in Seq(TypedFrame)
          BY <1>0, <2>3 DEF Return, At, StackType
        <4> QED
          BY <4>1, CalledPop DEF Top
      <3>3. state[Top.of] = "Dirty"
        BY <1>0, <2>3, <3>2 DEF CallMarks
      <3>4. state[k] # "Clean"
        BY <1>0, <1>1, <2>1, <2>3, <3>1, <3>3 DEF StaleIsMarked
      <3> QED
        BY <2>3, <3>4 DEF Return
    <2>4. CASE Set
      <3>1. ~Pulls(app, Top) /\ stack # <<>>
        BY <1>0, <2>4, NotPulling DEF Set
      <3>2. ~Pulling(app, stack)
        BY <1>0, <3>1, CalmStack
      <3>3. SameWork(stack, stack')
        BY <1>0, <2>4, QuietWork
      <3>4. ~Pulling(app, stack')
        BY <3>2, <3>3 DEF Pulling, SameWork, Working
      <3> QED
        BY <1>1, <3>4
    <2> QED
      BY <1>0, <1>4, <2>1, <2>2, <2>3, <2>4, OthersAsk
  <1> QED
    BY <1>2, <1>3, <1>4 DEF Next

\* The node and the source keep their state, and so do the calls.
LEMMA SourcesSame ==
  ASSUME SourcesUpToDate, app' = app, NEW n \in Node, NEW m \in Node, IsMemo(n), DependsOn(n, m),
         state[m] = "Clean" => state'[m] = "Clean",
         state[n] = "Dirty" => state'[n] = "Dirty",
         SameWork(stack, stack')
  PROVE  /\ Called(stack', "visit", n) =>
              state'[m] = "Clean" \/ InProgress(stack', m) \/ state'[n] = "Dirty" \/ ToVisit(stack', n, m)
         /\ Called(stack', "settle", n) => state'[m] = "Clean" \/ InProgress(stack', m)
  <1>1. \A op \in {"visit", "settle"} : \A k : Called(stack', op, k) <=> Called(stack, op, k)
    BY DEF SameWork, Working
  <1>2. InProgress(stack', m) <=> InProgress(stack, m)
    BY <1>1 DEF InProgress
  <1> QED
    BY <1>1, <1>2 DEF SourcesUpToDate, SameWork

LEMMA SourcesVisits ==
  ASSUME StoreType, SourcesUpToDate, LinksOK,
         NEW k \in Node, NEW passed \in BOOLEAN, Visits(k, passed),
         NEW n \in Node, NEW m \in Node, IsMemo(n),
         DependsOn(n, m) \/ (state[m] # "Clean" /\ m = k /\ n # k), UNCHANGED <<app, state>>
  PROVE  /\ Called(stack', "visit", n) =>
              state'[m] = "Clean" \/ InProgress(stack', m) \/ state'[n] = "Dirty" \/ ToVisit(stack', n, m)
         /\ Called(stack', "settle", n) => state'[m] = "Clean" \/ InProgress(stack', m)
  <1>1. /\ \A op \in {"visit", "settle"} : \A j : Called(stack', op, j) <=>
             Called(stack, op, j) \/ (state[k] # "Clean" /\ op = "visit" /\ j = k)
        /\ ToVisit(stack, n, m) => ToVisit(stack', n, m) \/ m = k
        /\ state[k] = "Check" /\ Contains(sources[k], m) => ToVisit(stack', k, m)
    BY DEF Visits, Working
  <1>2. InProgress(stack, m) \/ (state[k] # "Clean" /\ m = k) => InProgress(stack', m)
    BY <1>1 DEF InProgress
  <1>3. state[k] \in {"Clean", "Check", "Dirty"}
    BY DEF StoreType, NodeState
  <1>4. CASE state[m] # "Clean" /\ m = k
    BY <1>2, <1>4
  <1>5. CASE DependsOn(n, m) /\ ~(state[m] # "Clean" /\ m = k)
    <2>1. ASSUME Called(stack', "settle", n) PROVE state'[m] = "Clean" \/ InProgress(stack', m)
      BY <1>1, <1>2, <1>5, <2>1 DEF SourcesUpToDate
    <2>2. ASSUME Called(stack', "visit", n)
          PROVE  state'[m] = "Clean" \/ InProgress(stack', m) \/ state'[n] = "Dirty" \/ ToVisit(stack', n, m)
      <3>1. CASE Called(stack, "visit", n)
        <4>1. state[m] = "Clean" \/ InProgress(stack, m) \/ state[n] = "Dirty" \/ ToVisit(stack, n, m)
          BY <1>5, <3>1 DEF SourcesUpToDate
        <4> QED
          BY <1>1, <1>2, <1>5, <4>1
      <3>2. CASE state[k] # "Clean" /\ n = k
        BY <1>1, <1>3, <1>5, <3>2 DEF DependsOn
      <3> QED
        BY <1>1, <2>2, <3>1, <3>2
    <2> QED
      BY <2>1, <2>2
  <1> QED
    BY <1>4, <1>5

LEMMA SourcesStep ==
  ASSUME TypeInv, CallsInv, MarksInv, [Next]_vars PROVE SourcesUpToDate'
  <1>0. /\ StoreType /\ StackType(stack, depth) /\ LinksAgree /\ LinksOK
        /\ Shape(app, stack, observer) /\ app' = app /\ app \in App
        /\ stack \in Seq(TypedFrame) /\ Top = Head(stack) /\ Below = Tail(stack)
        /\ SourcesUpToDate /\ state \in [Node -> NodeState]
    BY TypeInvParts, LinksOKStep DEF CallsInv, MarksInv, StoreType, StackType, Top, Below
  <1>1. SUFFICES ASSUME NEW n \in Node, NEW m \in Node, IsMemo(n), DependsOn(n, m)'
        PROVE  /\ Called(stack', "visit", n) =>
                    state'[m] = "Clean" \/ InProgress(stack', m) \/ state'[n] = "Dirty" \/ ToVisit(stack', n, m)
               /\ Called(stack', "settle", n) => state'[m] = "Clean" \/ InProgress(stack', m)
    BY <1>0 DEF SourcesUpToDate, IsMemo
  <1> DEFINE Goal == /\ Called(stack', "visit", n) =>
                          state'[m] = "Clean" \/ InProgress(stack', m) \/ state'[n] = "Dirty" \/ ToVisit(stack', n, m)
                     /\ Called(stack', "settle", n) => state'[m] = "Clean" \/ InProgress(stack', m)
  <1>g. SUFFICES Goal
    OBVIOUS
  <1> HIDE DEF Goal
  <1>2. ASSUME SameWork(stack, stack'), DependsOn(n, m),
               state[m] = "Clean" => state'[m] = "Clean",
               state[n] = "Dirty" => state'[n] = "Dirty"
        PROVE  Goal
    BY <1>0, <1>1, <1>2, SourcesSame DEF Goal
  <1>3. ASSUME SameWork(stack, stack'), stack # <<>>, ~Pulls(app, Top) PROVE Goal
    <2>1. ~Called(stack, "visit", n) /\ ~Called(stack, "settle", n)
      BY <1>0, <1>1, <1>3, CalmCalls DEF Working, IsMemo
    <2> QED
      BY <1>3, <2>1 DEF SameWork, Working, Goal
  <1>4. GetStale \/ Get \/ DependsOn(n, m)
    BY <1>1, DependsStep
  <1>5. CASE Notify
    <2>1. ASSUME Called(stack, "visit", n) \/ Called(stack, "settle", n) PROVE Pulling(app, stack)
      BY <1>1, <2>1 DEF Pulling, Working, IsMemo
    <2>2. CASE Pulling(app, stack)
      <3>1. ~IsEffect(m) /\ DependsOn(n, m)
        BY <1>0, <1>1, <1>4, <1>5 DEF LinksOK, GetStale, Get, Notify, Doing, InCode, At
      <3>2. /\ state[m] = "Clean" => state'[m] = "Clean"
            /\ state[n] = "Dirty" => state'[n] = "Dirty"
        BY <1>0, <1>1, <1>5, <2>2, <3>1, NotifyStates DEF MarksInv
      <3> QED
        BY <1>0, <1>2, <1>5, <3>1, <3>2, QuietWork
    <2>3. CASE ~Pulling(app, stack)
      <3>1. stack' = stack
        BY <1>5 DEF Notify
      <3> QED
        BY <2>1, <2>3, <3>1 DEF Goal
    <2> QED
      BY <2>2, <2>3
  <1>6. CASE Peek \/ BuildMounted \/ Jump
    <2>1. UNCHANGED state /\ ~GetStale /\ ~Get
      BY <1>6 DEF Peek, BuildMounted, Jump, OnlyTheStack, graph, GetStale, Get, Doing
    <2> QED
      BY <1>0, <1>2, <1>4, <1>6, <2>1, MovedWork
  <1>7. CASE Get
    <2>1. UNCHANGED state /\ SameWork(stack, stack') /\ state[Arg] = "Clean"
      BY <1>0, <1>7, MovedWork DEF Get
    <2>2. CASE DependsOn(n, m)
      BY <1>2, <2>1, <2>2
    <2>3. CASE m = Arg
      BY <2>1, <2>3 DEF Goal
    <2> QED
      BY <1>1, <2>2, <2>3, DependsStep
  <1>8. CASE GetStale
    <2>1. UNCHANGED <<app, state>> /\ state[Arg] # "Clean" /\ Doing("get")
      BY <1>8 DEF GetStale
    <2>2. Arg \in Node
      BY <1>0, <2>1, Reads
    <2>3. Visits(Arg, FALSE)
      BY <1>0, <1>8, <2>2, GetStaleWork
    <2>4. DependsOn(n, m) \/ (m = Arg /\ n # Arg)
      <3>1. CASE n = observer /\ m = Arg
        <4>1. app.order[Arg] < app.order[n]
          BY <1>0, <1>1, <2>1, <3>1, Reads
        <4>2. app.order[n] \in Nat
          BY <1>0, AppAssumption
        <4> QED
          BY <3>1, <4>1, <4>2
      <3> QED
        BY <1>1, <3>1, DependsStep
    <2> QED
      BY <1>0, <1>1, <2>1, <2>2, <2>3, <2>4, SourcesVisits DEF Goal
  <1>9. CASE CheckSource
    <2>1. Head(Top.todo) \in Node /\ Visits(Head(Top.todo), TRUE)
      BY <1>0, <1>9, CheckSourceWork
    <2>2. UNCHANGED <<app, state>> /\ DependsOn(n, m)
      BY <1>4, <1>9 DEF CheckSource, OnlyTheStack, graph, GetStale, Get, Doing, InCode, At
    <2> QED
      BY <1>0, <1>1, <2>1, <2>2, SourcesVisits DEF Goal
  <1>10. CASE FlushRun
    <2>1. UNCHANGED <<app, state>> /\ DependsOn(n, m)
      BY <1>4, <1>10 DEF FlushRun, OnlyTheStack, graph, GetStale, Get, Doing, InCode, At
    <2>2. CASE SameWork(stack, stack')
      BY <1>2, <2>1, <2>2
    <2>3. CASE \E k \in Node : k \in alive /\ Visits(k, FALSE)
      BY <1>0, <1>1, <2>1, <2>3, SourcesVisits DEF Goal
    <2> QED
      BY <1>0, <1>10, <2>2, <2>3, FlushRunWork
  <1>11. CASE CheckPassed \/ Settle
    <2>1. /\ stack # <<>> /\ Top.of \in Node /\ Top.op \in Working
          /\ state' = [state EXCEPT ![Top.of] = "Clean"] /\ DependsOn(n, m)
      BY <1>0, <1>4, <1>11, TopFacts, FrameFields
         DEF CheckPassed, Settle, At, Working, GetStale, Get, Doing, InCode
    <2>2. \A k \in Node : state'[k] = IF k = Top.of THEN "Clean" ELSE state[k]
      BY <1>0, <2>1
    <2>3. /\ \A op, j : Called(stack, op, j) <=> Called(stack', op, j) \/ (Top.op = op /\ Top.of = j)
          /\ ToVisit(stack', n, m) <=> ToVisit(stack, n, m)
      BY <1>0, <1>11, PopWork
    <2>4. CASE m = Top.of
      BY <1>1, <2>2, <2>4 DEF Goal
    <2>5. CASE m # Top.of /\ n = Top.of
      <3>1. MemoCall(app, Top)
        BY <1>1, <2>1, <2>5 DEF MemoCall, IsMemo
      <3>2. \A op \in Working : ~Called(Below, op, n) \/ (Top.op = "run" /\ op = "settle")
        BY <1>0, <2>1, <2>5, <3>1, CalledOnce
      <3>3. stack' = Below /\ Top.op # "run"
        BY <1>11 DEF CheckPassed, Settle, At
      <3> QED
        BY <3>2, <3>3 DEF Goal, Working
    <2>6. CASE m # Top.of /\ n # Top.of
      <3>1. state'[m] = state[m] /\ state'[n] = state[n]
        BY <2>2, <2>6
      <3>2. InProgress(stack', m) <=> InProgress(stack, m)
        BY <2>3, <2>6 DEF InProgress
      <3>3. \A op : Called(stack', op, n) <=> Called(stack, op, n)
        BY <2>3, <2>6
      <3> QED
        BY <1>0, <1>1, <2>1, <2>3, <3>1, <3>2, <3>3 DEF Goal, SourcesUpToDate
    <2> QED
      BY <2>4, <2>5, <2>6
  <1>12. CASE Return
    <2>1. UNCHANGED state /\ DependsOn(n, m) /\ Top.op = "run"
      <3>1. UNCHANGED <<state, sources>> /\ Top.op = "run"
        BY <1>12 DEF Return, At, links
      <3> QED
        BY <1>1, <3>1 DEF DependsOn
    <2>2. /\ \A op, j : Called(stack, op, j) <=> Called(stack', op, j) \/ (Top.op = op /\ Top.of = j)
          /\ ToVisit(stack', n, m) <=> ToVisit(stack, n, m)
      BY <1>0, <1>12, PopWork
    <2>3. \A op \in {"visit", "settle"} : \A j : Called(stack', op, j) <=> Called(stack, op, j)
      BY <2>1, <2>2
    <2>4. InProgress(stack', m) <=> InProgress(stack, m)
      BY <2>3 DEF InProgress
    <2> QED
      BY <1>0, <1>1, <2>1, <2>2, <2>3, <2>4 DEF Goal, SourcesUpToDate
  <1>13. CASE Update
    <2>1. /\ stack # <<>> /\ Top.of \in Node /\ Top.op = "visit" /\ Unlinked(Top.of)
          /\ UNCHANGED state
      BY <1>0, <1>13, TopFacts, FrameFields DEF Update, At
    <2>2. n # Top.of /\ DependsOn(n, m)
      BY <1>0, <1>1, <2>1, UnlinkedLinks
    <2>3. /\ \A op, j : Called(stack, op, j) <=> Called(Below, op, j) \/ (op = "visit" /\ Top.of = j)
          /\ \A op, j : Called(stack', op, j) <=>
               \/ Called(Below, op, j)
               \/ op = "settle" /\ j = Top.of
               \/ op = "run" /\ j = Top.of /\ Top.of \in ready
          /\ ToVisit(stack, n, m) => ToVisit(stack', n, m)
      BY <1>0, <1>13, <2>2, UpdateWork
    <2>4. InProgress(stack, m) => InProgress(stack', m)
      BY <2>3 DEF InProgress
    <2>5. /\ Called(stack', "visit", n) => Called(stack, "visit", n)
          /\ Called(stack', "settle", n) => Called(stack, "settle", n)
      BY <2>2, <2>3
    <2> QED
      BY <1>0, <1>1, <2>1, <2>2, <2>3, <2>4, <2>5 DEF Goal, SourcesUpToDate
  <1>14. CASE Mount
    <2>1. Doing("mount") /\ ~GetStale /\ ~Get
      BY <1>14 DEF Mount, GetStale, Get, Doing
    <2>2. ~Pulls(app, Top) /\ stack # <<>>
      BY <1>0, <2>1, NotPulling
    <2>3. ~Called(stack, "visit", n) /\ ~Called(stack, "settle", n)
      BY <1>0, <1>1, <2>2, CalmCalls DEF Working, IsMemo
    <2>4. /\ IsEffect(Arg)
          /\ \A op \in Working : \A j : Called(stack', op, j) <=>
               Called(stack, op, j) \/ (op = "visit" /\ j = Arg)
      BY <1>0, <1>14, MountWork
    <2>5. n # Arg
      BY <1>1, <2>4 DEF IsMemo, IsEffect
    <2> QED
      BY <2>3, <2>4, <2>5 DEF Goal, Working
  <1>15. CASE Set \/ BuildBranch
    <2>1. stack # <<>> /\ ~Pulls(app, Top)
      BY <1>0, <1>15, NotPulling DEF Set, BuildBranch
    <2> QED
      BY <1>0, <1>3, <1>15, <2>1, QuietWork
  <1>16. CASE HandlerReturns \/ FlushTake \/ FlushDone
    <2>1. stack # <<>> /\ ~Pulls(app, Top)
      BY <1>16 DEF HandlerReturns, FlushTake, FlushDone, At, Pulls, MemoCall, Working
    <2> QED
      BY <1>0, <1>3, <1>16, <2>1, QuietWork
  <1>17. CASE Dispose \/ DisposeChild \/ TakeCleanups \/ RunCleanup \/ DisposeNodes
    <2>1. stack # <<>> /\ ~Pulls(app, Top)
      <3>1. Dispose => stack # <<>> /\ ~Pulls(app, Top)
        BY <1>0, NotPulling DEF Dispose
      <3> QED
        BY <1>17, <3>1 DEF DisposeChild, TakeCleanups, RunCleanup, DisposeNodes, At, Pulls,
             MemoCall, Working
    <2> QED
      BY <1>0, <1>3, <1>17, <2>1, DisposeWork
  <1>18. CASE Event
    <2>1. UNCHANGED state /\ DependsOn(n, m)
      BY <1>1, <1>18 DEF Event, Dispatch, graph, links, DependsOn
    <2> QED
      BY <1>0, <1>2, <1>18, <2>1, QuietWork
  <1>19. CASE Rest \/ UNCHANGED vars
    <2>1. UNCHANGED <<state, stack>> /\ DependsOn(n, m)
      BY <1>1, <1>19 DEF Rest, vars, graph, links, DependsOn
    <2> QED
      BY <1>0, <1>2, <2>1 DEF SameWork
  <1> QED
    BY <1>5, <1>6, <1>7, <1>8, <1>9, <1>10, <1>11, <1>12, <1>13, <1>14, <1>15, <1>16, <1>17,
       <1>18, <1>19 DEF Next, Step

LEMMA MarksInit == Init => MarksInv
  <1> SUFFICES ASSUME Init PROVE MarksInv
    OBVIOUS
  <1>1. agenda = <<>> /\ sources = [n \in Node |-> <<>>]
    BY DEF Init
  <1>2. \A n, m \in Node : ~DependsOn(n, m)
    BY <1>1, NothingListed DEF DependsOn
  <1> QED
    BY <1>1, <1>2, EmptyAgenda DEF MarksInv, StaleIsMarked, NoNewMarks, SourcesUpToDate, Marked

\* A memo with a source that is not Clean is marked, or its mark is on the way;
\* while a memo is brought up to date no memo that is Clean is marked; and a
\* memo that is being checked or has run depends on nothing out of date that
\* it has passed.
THEOREM ReactiveMarks == Spec => []MarksInv
  <1>1. TypeInv /\ CallsInv /\ MarksInv /\ [Next]_vars => MarksInv'
    BY StaleStep, NoNewMarksStep, SourcesStep DEF MarksInv
  <1> QED
    BY <1>1, TypeInvHolds, ReactiveCalls, MarksInit, PTL DEF Spec

-----------------------------------------------------------------------------
(* The reference.  Result is defined by recursion over the order in which   *)
(* the nodes were created and, within a node, over its code; that there is  *)
(* such a function is a fact about applications.                            *)

LEMMA PointFacts ==
  /\ \A n \in Node, pc \in Nat \ {0}, acc \in Value :
       /\ Point(n, pc, acc) \in Points
       /\ Point(n, pc, acc).node = n /\ Point(n, pc, acc).pc = pc /\ Point(n, pc, acc).acc = acc
  /\ \A p \in Points : /\ p = Point(p.node, p.pc, p.acc)
                       /\ p.node \in Node /\ p.pc \in Nat \ {0} /\ p.acc \in Value
  BY DEF Points, Point

LEMMA AddAny == \A v \in Value, w \in Value \cup {NoValue} : Add(v, w) \in Value
  <1>1. \A v \in Value, w \in Value \cup {NoValue} : v \in Int /\ w \in Int /\ v + w \in Int
    BY BoundsAssumption DEF Value, NoValue
  <1>2. \A x \in Int : x % (MaxValue + 1) \in 0..MaxValue
    BY BoundsAssumption
  <1> QED
    BY <1>1, <1>2 DEF Add, Value

\* One step of the reference, from the point p, when a read yields w: the
\* point it goes on to, unless the closure ends there.
Ends(a, p) == p.pc > Len(a.code[p.node]) \/ a.code[p.node][p.pc].do = "return"

Gets(a, p, m) ==
  /\ ~Ends(a, p)
  /\ a.code[p.node][p.pc].do = "get" /\ m = a.code[p.node][p.pc].of

Onto(a, p, w) ==
  LET i == a.code[p.node][p.pc]
  IN CASE i.do = "get" -> Point(p.node, p.pc + 1, Add(p.acc, w))
       [] i.do = "ifzero" -> Point(p.node, p.pc + 1 + (IF p.acc = 0 THEN i.skip ELSE 0), p.acc)
       [] i.do = "clear" -> Point(p.node, p.pc + 1, 0)
       [] OTHER -> Point(p.node, p.pc + 1, p.acc)

\* What p leads to, by the results in R.
Leads(a, val, R, p, x) ==
  IF Ends(a, p) THEN x = p.acc
  ELSE \E w \in Value \cup {NoValue} :
         /\ \A m : Gets(a, p, m) =>
              IF a.kind[m] = "signal" THEN w = val[m] ELSE <<Point(m, 1, 0), w>> \in R
         /\ <<Onto(a, p, w), x>> \in R

LEMMA OntoFacts ==
  ASSUME NEW a \in App, NEW p \in Points, ~Ends(a, p), NEW w \in Value \cup {NoValue}
  PROVE  /\ p.pc \in DOMAIN a.code[p.node] /\ a.code[p.node] \in Seq(Instr)
         /\ Onto(a, p, w) \in Points /\ Onto(a, p, w).node = p.node /\ Onto(a, p, w).pc > p.pc
         /\ \A m : Gets(a, p, m) => m \in Node /\ a.order[m] < a.order[p.node]
  <1> DEFINE i == a.code[p.node][p.pc]
  <1>1. /\ p.node \in Node /\ p.pc \in Nat \ {0} /\ p.acc \in Value
        /\ a.code[p.node] \in Seq(Instr)
    BY PointFacts, AppAssumption
  <1>2. p.pc \in DOMAIN a.code[p.node]
    BY <1>1 DEF Ends
  <1>3. i \in Instr /\ WellTyped(a, i) /\ CodeOfNode(a, p.node, i) /\ i.skip \in Nat
    <2>1. i \in Instr /\ WellTyped(a, i) /\ CodeOfNode(a, p.node, i)
      BY <1>1, <1>2, AppAssumption
    <2> QED
      BY <2>1 DEF Instr
  <1>4. \A m : Gets(a, p, m) => m \in Node /\ a.order[m] < a.order[p.node]
    BY <1>3 DEF Gets, WellTyped, CodeOfNode
  <1>5. 0 \in Value /\ Add(p.acc, w) \in Value
    BY <1>1, AddAny, ZeroIsValue
  <1> DEFINE q1 == Point(p.node, p.pc + 1, Add(p.acc, w))
             q2 == Point(p.node, p.pc + 1 + (IF p.acc = 0 THEN i.skip ELSE 0), p.acc)
             q3 == Point(p.node, p.pc + 1, 0)
             q4 == Point(p.node, p.pc + 1, p.acc)
  <1>6. \A k \in Nat, v \in Value :
          /\ Point(p.node, p.pc + 1 + k, v) \in Points
          /\ Point(p.node, p.pc + 1 + k, v).node = p.node
          /\ Point(p.node, p.pc + 1 + k, v).pc > p.pc
    <2> SUFFICES ASSUME NEW k \in Nat, NEW v \in Value
                 PROVE  /\ Point(p.node, p.pc + 1 + k, v) \in Points
                        /\ Point(p.node, p.pc + 1 + k, v).node = p.node
                        /\ Point(p.node, p.pc + 1 + k, v).pc > p.pc
      OBVIOUS
    <2>1. p.pc + 1 + k \in Nat \ {0} /\ p.pc + 1 + k > p.pc
      BY <1>1
    <2> QED
      BY <1>1, <2>1, PointFacts
  <1>7. p.pc + 1 = p.pc + 1 + 0
    BY <1>1
  <1>8. /\ \A q \in {q1, q3, q4} : q \in Points /\ q.node = p.node /\ q.pc > p.pc
        /\ q2 \in Points /\ q2.node = p.node /\ q2.pc > p.pc
    <2>1. \A v \in Value : /\ Point(p.node, p.pc + 1, v) \in Points
                           /\ Point(p.node, p.pc + 1, v).node = p.node
                           /\ Point(p.node, p.pc + 1, v).pc > p.pc
      BY <1>6, <1>7, 0 \in Nat
    <2>2. (IF p.acc = 0 THEN i.skip ELSE 0) \in Nat
      BY <1>3
    <2> QED
      BY <1>1, <1>5, <1>6, <2>1, <2>2
  <1>9. Onto(a, p, w) \in {q1, q2, q3, q4}
    BY DEF Onto
  <1> QED
    BY <1>1, <1>2, <1>4, <1>8, <1>9

\* The least relation that holds what leads to its members.
Closed(a, val, R) ==
  \A p \in Points : \A x \in Value : Leads(a, val, R, p, x) => <<p, x>> \in R

Found(a, val) ==
  {e \in Points \X Value :
     \A R \in SUBSET (Points \X Value) : Closed(a, val, R) => e \in R}

LEMMA FoundLeads ==
  ASSUME NEW a \in App, NEW val, NEW p \in Points, NEW x \in Value
  PROVE  <<p, x>> \in Found(a, val) <=> Leads(a, val, Found(a, val), p, x)
  <1> DEFINE G == Found(a, val)
             U == Points \X Value
  <1>1. \A R, S : R \subseteq S =>
          \A q \in Points : \A y \in Value : Leads(a, val, R, q, y) => Leads(a, val, S, q, y)
    <2> SUFFICES ASSUME NEW R, NEW S, R \subseteq S, NEW q \in Points, NEW y \in Value,
                        Leads(a, val, R, q, y)
                 PROVE  Leads(a, val, S, q, y)
      OBVIOUS
    <2>1. CASE Ends(a, q)
      BY <2>1 DEF Leads
    <2>2. CASE ~Ends(a, q)
      <3>1. PICK w \in Value \cup {NoValue} :
              /\ \A m : Gets(a, q, m) =>
                   IF a.kind[m] = "signal" THEN w = val[m] ELSE <<Point(m, 1, 0), w>> \in R
              /\ <<Onto(a, q, w), y>> \in R
        BY <2>2 DEF Leads
      <3>2. /\ \A m : Gets(a, q, m) =>
                 IF a.kind[m] = "signal" THEN w = val[m] ELSE <<Point(m, 1, 0), w>> \in S
            /\ <<Onto(a, q, w), y>> \in S
        BY <3>1
      <3> QED
        BY <2>2, <3>2 DEF Leads
    <2> QED
      BY <2>1, <2>2
  <1>2. G \subseteq U /\ \A R \in SUBSET U : Closed(a, val, R) => G \subseteq R
    BY DEF Found
  <1>3. Closed(a, val, G)
    <2> SUFFICES ASSUME NEW q \in Points, NEW y \in Value, Leads(a, val, G, q, y)
                 PROVE  <<q, y>> \in G
      BY DEF Closed
    <2>1. <<q, y>> \in U
      OBVIOUS
    <2>2. \A R \in SUBSET U : Closed(a, val, R) => <<q, y>> \in R
      BY <1>1, <1>2 DEF Closed
    <2> QED
      BY <2>1, <2>2 DEF Found
  <1>4. ASSUME <<p, x>> \in G, ~Leads(a, val, G, p, x) PROVE FALSE
    <2> DEFINE R == G \ {<<p, x>>}
    <2>1. R \in SUBSET U /\ R \subseteq G
      BY <1>2
    <2>2. Closed(a, val, R)
      <3> SUFFICES ASSUME NEW q \in Points, NEW y \in Value, Leads(a, val, R, q, y)
                   PROVE  <<q, y>> \in R
        BY DEF Closed
      <3>1. Leads(a, val, G, q, y)
        BY <1>1, <2>1
      <3>2. <<q, y>> \in G
        BY <1>3, <3>1 DEF Closed
      <3>3. <<q, y>> # <<p, x>>
        BY <1>4, <3>1
      <3> QED
        BY <3>2, <3>3
    <2> QED
      BY <1>2, <1>4, <2>1, <2>2
  <1> QED
    BY <1>3, <1>4 DEF Closed

\* R holds one result at p.
Determines(R, p) == \E x \in Value : \A y \in Value : <<p, y>> \in R <=> y = x

LEMMA FoundStep ==
  ASSUME NEW a \in App, NEW val \in [Node -> Value \cup {NoValue}], NEW p \in Points,
         \A m \in Node : Gets(a, p, m) => Determines(Found(a, val), Point(m, 1, 0)),
         \A w \in Value \cup {NoValue} :
           ~Ends(a, p) => Determines(Found(a, val), Onto(a, p, w))
  PROVE  Determines(Found(a, val), p)
  <1> DEFINE G == Found(a, val)
  <1>0. \A y \in Value : <<p, y>> \in G <=> Leads(a, val, G, p, y)
    BY FoundLeads
  <1>1. \A q, y : <<q, y>> \in G => y \in Value
    BY DEF Found
  <1> HIDE DEF G
  <1>2. CASE Ends(a, p)
    <2>1. p.acc \in Value
      BY PointFacts
    <2> QED
      BY <1>0, <1>2, <2>1 DEF Leads, Determines, G
  <1>3. CASE ~Ends(a, p) /\ \E m : Gets(a, p, m)
    <2>1. PICK m : Gets(a, p, m)
      BY <1>3
    <2>2. m \in Node /\ \A k : Gets(a, p, k) => k = m
      BY <1>3, <2>1, OntoFacts DEF Gets, NoValue
    <2>3. \E w \in Value \cup {NoValue} : \A u \in Value \cup {NoValue} :
            (IF a.kind[m] = "signal" THEN u = val[m] ELSE <<Point(m, 1, 0), u>> \in G) <=> u = w
      <3>1. CASE a.kind[m] = "signal"
        BY <2>2, <3>1
      <3>2. CASE a.kind[m] # "signal"
        <4>1. PICK x \in Value : \A y \in Value : <<Point(m, 1, 0), y>> \in G <=> y = x
          BY <2>1, <2>2 DEF Determines, G
        <4>2. \A u \in Value \cup {NoValue} : <<Point(m, 1, 0), u>> \in G <=> u = x
          BY <1>1, <4>1
        <4> QED
          BY <3>2, <4>2
      <3> QED
        BY <3>1, <3>2
    <2>4. PICK w \in Value \cup {NoValue} : \A u \in Value \cup {NoValue} :
            (IF a.kind[m] = "signal" THEN u = val[m] ELSE <<Point(m, 1, 0), u>> \in G) <=> u = w
      BY <2>3
    <2>5. \A y : Leads(a, val, G, p, y) <=> <<Onto(a, p, w), y>> \in G
      BY <1>3, <2>1, <2>2, <2>4 DEF Leads
    <2> QED
      BY <1>0, <1>3, <2>5 DEF Determines, G
  <1>4. CASE ~Ends(a, p) /\ ~\E m : Gets(a, p, m)
    <2>1. \A w \in Value \cup {NoValue} : Onto(a, p, w) = Onto(a, p, NoValue)
      BY <1>4 DEF Gets, Onto
    <2>2. \A y : Leads(a, val, G, p, y) <=> <<Onto(a, p, NoValue), y>> \in G
      BY <1>4, <2>1 DEF Leads
    <2>3. Determines(G, Onto(a, p, NoValue))
      BY <1>4 DEF G
    <2> QED
      BY <1>0, <2>2, <2>3 DEF Determines, G
  <1> QED
    BY <1>2, <1>3, <1>4

LEMMA AllDetermined ==
  ASSUME NEW a \in App, NEW val \in [Node -> Value \cup {NoValue}]
  PROVE  \A p \in Points : Determines(Found(a, val), p)
  <1> DEFINE G == Found(a, val)
             Done(n) == \A pc \in Nat \ {0} : \A acc \in Value : Determines(G, Point(n, pc, acc))
             S == {k \in Nat : \A n \in Node : a.order[n] < k => Done(n)}
  <1> HIDE DEF G
  <1>1. a.order \in [Node -> Nat] /\ a.code \in [Node \cup Handler -> Seq(Instr)]
    BY AppAssumption
  <1>2. 0 \in S
    BY <1>1
  <1>3. ASSUME NEW k \in Nat, k \in S PROVE k + 1 \in S
    <2>1. SUFFICES ASSUME NEW n \in Node, a.order[n] = k PROVE Done(n)
      BY <1>1, <1>3
    <2> DEFINE T == {j \in Nat : \A pc \in Nat \ {0} : \A acc \in Value :
                       Len(a.code[n]) < pc + j => Determines(G, Point(n, pc, acc))}
    <2>2. Len(a.code[n]) \in Nat
      BY <1>1
    <2>3. ASSUME NEW j \in Nat, NEW pc \in Nat \ {0}, NEW acc \in Value,
                 Len(a.code[n]) < pc + j, j = 0 \/ (j - 1 \in Nat /\ j - 1 \in T)
          PROVE  Determines(G, Point(n, pc, acc))
      <3> DEFINE p == Point(n, pc, acc)
      <3>1. p \in Points /\ p.node = n /\ p.pc = pc
        BY PointFacts
      <3>2. \A m \in Node : Gets(a, p, m) => Determines(G, Point(m, 1, 0))
        <4> SUFFICES ASSUME NEW m \in Node, Gets(a, p, m) PROVE Determines(G, Point(m, 1, 0))
          OBVIOUS
        <4>1. a.order[m] < k
          BY <2>1, <3>1, OntoFacts DEF Gets, NoValue
        <4>2. Done(m)
          BY <1>3, <4>1
        <4> QED
          BY <4>2, ZeroIsValue
      <3>3. ASSUME NEW w \in Value \cup {NoValue}, ~Ends(a, p) PROVE Determines(G, Onto(a, p, w))
        <4> DEFINE q == Onto(a, p, w)
        <4>1. q \in Points /\ q.node = n /\ q.pc > pc
          BY <3>1, <3>3, OntoFacts
        <4>2. q = Point(n, q.pc, q.acc) /\ q.pc \in Nat \ {0} /\ q.acc \in Value
          BY <4>1, PointFacts
        <4> HIDE DEF q
        <4>3. pc \in DOMAIN a.code[n]
          BY <3>1, <3>3, OntoFacts
        <4>4. j # 0
          BY <2>2, <2>3, <4>3, <1>1
        <4>5. Len(a.code[n]) < q.pc + (j - 1)
          BY <2>2, <2>3, <4>1, <4>2, <4>4
        <4> QED
          BY <2>3, <4>2, <4>4, <4>5 DEF q
      <3> QED
        BY <3>1, <3>2, <3>3, FoundStep DEF G
    <2>4. 0 \in T
      BY <2>3
    <2>5. ASSUME NEW j \in Nat, j \in T PROVE j + 1 \in T
      <3>1. (j + 1) - 1 = j /\ j + 1 \in Nat
        OBVIOUS
      <3> QED
        BY <2>3, <2>5, <3>1
    <2> HIDE DEF T
    <2>6. Nat \subseteq T
      BY <2>4, <2>5, NatSetInduction
    <2>7. \A pc \in Nat \ {0} : Len(a.code[n]) < pc + Len(a.code[n])
      BY <2>2
    <2>8. Len(a.code[n]) \in T
      BY <2>2, <2>6
    <2> QED
      BY <2>7, <2>8 DEF T
  <1> HIDE DEF S
  <1>4. Nat \subseteq S
    BY <1>2, <1>3, NatSetInduction
  <1>5. \A n \in Node : Done(n)
    <2> SUFFICES ASSUME NEW n \in Node PROVE Done(n)
      OBVIOUS
    <2>1. a.order[n] + 1 \in S /\ a.order[n] < a.order[n] + 1
      BY <1>1, <1>4
    <2> QED
      BY <2>1 DEF S
  <1> QED
    BY <1>5, PointFacts DEF G

\* What Result says of the point p, by the results in f.
ResultAt(f, p) ==
  LET code == app.code[p.node]
      i == code[p.pc]
      Later(k, acc) == f[Point(p.node, p.pc + 1 + k, acc)]
      Read(m) == IF IsSignal(m) THEN value[m] ELSE f[Point(m, 1, 0)]
  IN IF p.pc > Len(code) THEN p.acc
     ELSE CASE i.do = "get" -> Later(0, Add(p.acc, Read(i.of)))
          [] i.do = "ifzero" -> Later(IF p.acc = 0 THEN i.skip ELSE 0, p.acc)
          [] i.do = "return" -> p.acc
          [] i.do = "clear" -> Later(0, 0)
          [] OTHER -> Later(0, p.acc)

LEMMA ResultEquation ==
  ASSUME StoreType
  PROVE  \A p \in Points : Result[p] = ResultAt(Result, p)
  <1> DEFINE G == Found(app, value)
             Only(p) == CHOOSE x \in Value : <<p, x>> \in G
             F == [p \in Points |-> Only(p)]
  <1>0. F = [p \in Points |-> F[p]]
    <2> HIDE DEF Only
    <2> QED
      OBVIOUS
  <1>1. app \in App /\ value \in [Node -> Value \cup {NoValue}]
    BY DEF StoreType
  <1>2. \A p \in Points : F[p] \in Value /\ \A x \in Value : <<p, x>> \in G <=> x = F[p]
    <2> SUFFICES ASSUME NEW p \in Points
                 PROVE  F[p] \in Value /\ \A x \in Value : <<p, x>> \in G <=> x = F[p]
      OBVIOUS
    <2>1. Determines(G, p)
      BY <1>1, AllDetermined
    <2> QED
      BY <2>1 DEF Determines
  <1>3. \A p \in Points : Leads(app, value, G, p, F[p])
    BY <1>1, <1>2, FoundLeads
  <1>4. \A q, y : <<q, y>> \in G => y \in Value
    BY DEF Found
  <1> HIDE DEF G, F
  <1>5. ASSUME NEW p \in Points PROVE F[p] = ResultAt(F, p)
    <2> DEFINE i == app.code[p.node][p.pc]
    <2>0. p.pc \in Nat \ {0} /\ p.node \in Node /\ p.acc \in Value
      BY PointFacts
    <2>1. CASE Ends(app, p)
      <3>1. F[p] = p.acc
        BY <1>3, <2>1 DEF Leads
      <3> QED
        BY <2>1, <3>1 DEF Ends, ResultAt
    <2>2. CASE ~Ends(app, p)
      <3>1. PICK w \in Value \cup {NoValue} :
              /\ \A m : Gets(app, p, m) =>
                   IF app.kind[m] = "signal" THEN w = value[m] ELSE <<Point(m, 1, 0), w>> \in G
              /\ <<Onto(app, p, w), F[p]>> \in G
        BY <1>3, <2>2 DEF Leads
      <3>2. /\ Onto(app, p, w) \in Points /\ p.pc \in DOMAIN app.code[p.node]
            /\ app.code[p.node] \in Seq(Instr)
            /\ \A m : Gets(app, p, m) => m \in Node
        BY <1>1, <2>2, OntoFacts
      <3>3. F[p] = F[Onto(app, p, w)]
        BY <1>2, <3>1, <3>2
      <3>4. ~(p.pc > Len(app.code[p.node])) /\ i.do # "return"
        BY <2>2 DEF Ends
      <3>5. CASE i.do = "get"
        <4> DEFINE m == i.of
        <4>1. Gets(app, p, m)
          BY <2>2, <3>5 DEF Gets
        <4>2. w = IF IsSignal(m) THEN value[m] ELSE F[Point(m, 1, 0)]
          <5>1. CASE app.kind[m] = "signal"
            BY <3>1, <4>1, <5>1 DEF IsSignal
          <5>2. CASE app.kind[m] # "signal"
            <6>1. <<Point(m, 1, 0), w>> \in G /\ m \in Node
              BY <3>1, <3>2, <4>1, <5>2
            <6>2. Point(m, 1, 0) \in Points /\ w \in Value
              BY <1>4, <6>1, PointFacts, ZeroIsValue
            <6> QED
              BY <1>2, <5>2, <6>1, <6>2 DEF IsSignal
          <5> QED
            BY <5>1, <5>2
        <4>3. Onto(app, p, w) = Point(p.node, p.pc + 1 + 0, Add(p.acc, w))
          BY <2>0, <3>5 DEF Onto
        <4> QED
          BY <3>3, <3>4, <3>5, <4>2, <4>3 DEF ResultAt
      <3>6. CASE i.do = "ifzero"
        <4>1. Onto(app, p, w) = Point(p.node, p.pc + 1 + (IF p.acc = 0 THEN i.skip ELSE 0), p.acc)
          BY <3>6 DEF Onto
        <4> QED
          BY <3>3, <3>4, <3>6, <4>1 DEF ResultAt
      <3>7. CASE i.do = "clear"
        <4>1. Onto(app, p, w) = Point(p.node, p.pc + 1 + 0, 0)
          BY <2>0, <3>7 DEF Onto
        <4> QED
          BY <3>3, <3>4, <3>7, <4>1 DEF ResultAt
      <3>8. CASE i.do \notin {"get", "ifzero", "clear"}
        <4>1. Onto(app, p, w) = Point(p.node, p.pc + 1 + 0, p.acc)
          BY <2>0, <3>8 DEF Onto
        <4> QED
          BY <3>3, <3>4, <3>8, <4>1 DEF ResultAt
      <3> QED
        BY <3>5, <3>6, <3>7, <3>8
    <2> QED
      BY <2>1, <2>2
  <1>6. F = [p \in Points |-> ResultAt(F, p)]
    BY <1>0, <1>5
  <1>7. \E f : f = [p \in Points |-> ResultAt(f, p)]
    BY <1>6
  <1>8. Result = CHOOSE f : f = [p \in Points |-> ResultAt(f, p)]
    BY DEF Result, ResultAt
  <1>9. Result = [p \in Points |-> ResultAt(Result, p)]
    BY <1>7, <1>8
  <1> QED
    BY <1>9

-----------------------------------------------------------------------------
(* Values.  A memo holds what its code yields whenever the sources it is    *)
(* linked to hold what they hold now: code that reads them in the same      *)
(* order takes the same branches.  While it runs, the code has come to      *)
(* where it would come with the sources it has read so far.                 *)

\* f follows the code of n, where m reads as v[m]; for a node that does not
\* peek that determines f.
Solves(a, n, v, f) ==
  \A pc \in Nat \ {0} : \A acc \in Value :
    /\ pc > Len(a.code[n]) => f[Point(n, pc, acc)] = acc
    /\ pc \in DOMAIN a.code[n] =>
         /\ a.code[n][pc].do = "get" =>
              f[Point(n, pc, acc)] = f[Point(n, pc + 1, Add(acc, v[a.code[n][pc].of]))]
         /\ a.code[n][pc].do = "ifzero" =>
              f[Point(n, pc, acc)] =
                f[Point(n, pc + 1 + (IF acc = 0 THEN a.code[n][pc].skip ELSE 0), acc)]
         /\ a.code[n][pc].do = "return" => f[Point(n, pc, acc)] = acc
         /\ a.code[n][pc].do = "clear" => f[Point(n, pc, acc)] = f[Point(n, pc + 1, 0)]
         /\ a.code[n][pc].do \in {"set", "mount", "build", "dispose"} =>
              f[Point(n, pc, acc)] = f[Point(n, pc + 1, acc)]

Agree(srcs, v, val) == \A m \in srcs : v[m] = val[m]

Yields(a, n, srcs, val, x) ==
  \A v : \A f : Solves(a, n, v, f) /\ Agree(srcs, v, val) => f[Point(n, 1, 0)] = x

ComesTo(a, n, pc, acc, srcs, val) ==
  \A v : \A f : Solves(a, n, v, f) /\ Agree(srcs, v, val) =>
    f[Point(n, 1, 0)] = f[Point(n, pc, acc)]

LEMMA ComesToStart == \A a, n, srcs, val : ComesTo(a, n, 1, 0, srcs, val)
  BY DEF ComesTo

LEMMA ComesToKept ==
  ASSUME NEW a, NEW n, NEW pc, NEW acc, NEW srcs, NEW val, NEW more, NEW new,
         srcs \subseteq more, \A m \in srcs : new[m] = val[m],
         ComesTo(a, n, pc, acc, srcs, val)
  PROVE  ComesTo(a, n, pc, acc, more, new)
  <1>1. \A v : Agree(more, v, new) => Agree(srcs, v, val)
    BY DEF Agree
  <1> QED
    BY <1>1 DEF ComesTo

LEMMA YieldsKept ==
  ASSUME NEW a, NEW n, NEW x, NEW srcs, NEW val, NEW more, NEW new,
         srcs \subseteq more, \A m \in srcs : new[m] = val[m],
         Yields(a, n, srcs, val, x)
  PROVE  Yields(a, n, more, new, x)
  <1>1. \A v : Agree(more, v, new) => Agree(srcs, v, val)
    BY DEF Agree
  <1> QED
    BY <1>1 DEF Yields

LEMMA ComesToGet ==
  ASSUME NEW a, NEW n, NEW pc \in Nat \ {0}, NEW acc \in Value, NEW srcs, NEW val,
         ComesTo(a, n, pc, acc, srcs, val),
         pc \in DOMAIN a.code[n], a.code[n][pc].do = "get", a.code[n][pc].of \in srcs
  PROVE  ComesTo(a, n, pc + 1, Add(acc, val[a.code[n][pc].of]), srcs, val)
  <1> SUFFICES ASSUME NEW v, NEW f, Solves(a, n, v, f), Agree(srcs, v, val)
               PROVE  f[Point(n, 1, 0)] = f[Point(n, pc + 1, Add(acc, val[a.code[n][pc].of]))]
    BY DEF ComesTo
  <1>1. v[a.code[n][pc].of] = val[a.code[n][pc].of]
    BY DEF Agree
  <1>2. f[Point(n, 1, 0)] = f[Point(n, pc, acc)]
    BY DEF ComesTo
  <1>3. f[Point(n, pc, acc)] = f[Point(n, pc + 1, Add(acc, v[a.code[n][pc].of]))]
    BY DEF Solves
  <1> QED
    BY <1>1, <1>2, <1>3

LEMMA ComesToJump ==
  ASSUME NEW a, NEW n, NEW pc \in Nat \ {0}, NEW acc \in Value, NEW srcs, NEW val,
         ComesTo(a, n, pc, acc, srcs, val), pc \in DOMAIN a.code[n],
         Len(a.code[n]) \in Nat
  PROVE  /\ a.code[n][pc].do = "ifzero" =>
              ComesTo(a, n, pc + 1 + (IF acc = 0 THEN a.code[n][pc].skip ELSE 0), acc, srcs, val)
         /\ a.code[n][pc].do = "return" => ComesTo(a, n, pc + 1 + Len(a.code[n]), acc, srcs, val)
         /\ a.code[n][pc].do = "clear" => ComesTo(a, n, pc + 1, 0, srcs, val)
  <1> DEFINE i == a.code[n][pc]
             j == pc + 1 + (IF acc = 0 THEN i.skip ELSE 0)
             k == pc + 1 + Len(a.code[n])
  <1>1. ASSUME i.do = "ifzero", NEW v, NEW f, Solves(a, n, v, f)
        PROVE  f[Point(n, pc, acc)] = f[Point(n, j, acc)]
    BY <1>1 DEF Solves
  <1>2. ASSUME i.do = "return", NEW v, NEW f, Solves(a, n, v, f)
        PROVE  f[Point(n, pc, acc)] = f[Point(n, k, acc)]
    <2>0. \A l \in Nat : pc + 1 + l \in Nat \ {0} /\ pc + 1 + l > l
      OBVIOUS
    <2>1. k \in Nat \ {0} /\ k > Len(a.code[n])
      BY <2>0
    <2>2. f[Point(n, k, acc)] = acc
      BY <1>2, <2>1 DEF Solves
    <2> QED
      BY <1>2, <2>2 DEF Solves
  <1>3. ASSUME i.do = "clear", NEW v, NEW f, Solves(a, n, v, f)
        PROVE  f[Point(n, pc, acc)] = f[Point(n, pc + 1, 0)]
    BY <1>3 DEF Solves
  <1> HIDE DEF i, j, k
  <1>4. /\ i.do = "ifzero" => ComesTo(a, n, j, acc, srcs, val)
        /\ i.do = "return" => ComesTo(a, n, k, acc, srcs, val)
        /\ i.do = "clear" => ComesTo(a, n, pc + 1, 0, srcs, val)
    BY <1>1, <1>2, <1>3 DEF ComesTo
  <1> QED
    BY <1>4 DEF i, j, k

LEMMA ComesToEnd ==
  ASSUME NEW a, NEW n, NEW pc \in Nat \ {0}, NEW acc \in Value, NEW srcs, NEW val,
         ComesTo(a, n, pc, acc, srcs, val), pc > Len(a.code[n])
  PROVE  Yields(a, n, srcs, val, acc)
  <1>1. \A v, f : Solves(a, n, v, f) => f[Point(n, pc, acc)] = acc
    BY DEF Solves
  <1> QED
    BY <1>1 DEF ComesTo, Yields

\* The reference follows the code of every node.
LEMMA ResultSolves ==
  ASSUME StoreType, NEW n \in Node, NEW v,
         \A m \in Node : v[m] = IF IsSignal(m) THEN value[m] ELSE Result[Point(m, 1, 0)]
  PROVE  Solves(app, n, v, Result)
  <1> SUFFICES ASSUME NEW pc \in Nat \ {0}, NEW acc \in Value
               PROVE  /\ pc > Len(app.code[n]) => Result[Point(n, pc, acc)] = acc
                      /\ pc \in DOMAIN app.code[n] =>
                           LET i == app.code[n][pc]
                           IN /\ i.do = "get" =>
                                   Result[Point(n, pc, acc)] = Result[Point(n, pc + 1, Add(acc, v[i.of]))]
                              /\ i.do = "ifzero" =>
                                   Result[Point(n, pc, acc)] =
                                     Result[Point(n, pc + 1 + (IF acc = 0 THEN i.skip ELSE 0), acc)]
                              /\ i.do = "return" => Result[Point(n, pc, acc)] = acc
                              /\ i.do = "clear" => Result[Point(n, pc, acc)] = Result[Point(n, pc + 1, 0)]
                              /\ i.do \in {"set", "mount", "build", "dispose"} =>
                                   Result[Point(n, pc, acc)] = Result[Point(n, pc + 1, acc)]
    BY DEF Solves
  <1> DEFINE p == Point(n, pc, acc)
             i == app.code[n][pc]
  <1>1. p \in Points /\ p.node = n /\ p.pc = pc /\ p.acc = acc
    BY PointFacts
  <1>2. Result[p] = ResultAt(Result, p)
    BY <1>1, ResultEquation
  <1> HIDE DEF p
  <1>3. app \in App /\ app.code[n] \in Seq(Instr)
    BY AppAssumption DEF StoreType
  <1>4. pc > Len(app.code[n]) => Result[p] = acc
    BY <1>1, <1>2 DEF ResultAt
  <1>5. ASSUME pc \in DOMAIN app.code[n]
        PROVE  /\ i.do = "get" => Result[p] = Result[Point(n, pc + 1, Add(acc, v[i.of]))]
               /\ i.do = "ifzero" =>
                    Result[p] = Result[Point(n, pc + 1 + (IF acc = 0 THEN i.skip ELSE 0), acc)]
               /\ i.do = "return" => Result[p] = acc
               /\ i.do = "clear" => Result[p] = Result[Point(n, pc + 1, 0)]
               /\ i.do \in {"set", "mount", "build", "dispose"} =>
                    Result[p] = Result[Point(n, pc + 1, acc)]
    <2>1. ~(pc > Len(app.code[n])) /\ pc + 1 + 0 = pc + 1
      BY <1>3, <1>5
    <2>2. i.do = "get" => i.of \in Node
      BY <1>3, <1>5, AppAssumption DEF WellTyped
    <2>3. i.do = "get" => Result[p] = Result[Point(n, pc + 1, Add(acc, v[i.of]))]
      BY <1>1, <1>2, <2>1, <2>2 DEF ResultAt
    <2>4. i.do = "ifzero" => Result[p] = Result[Point(n, pc + 1 + (IF acc = 0 THEN i.skip ELSE 0), acc)]
      BY <1>1, <1>2, <2>1 DEF ResultAt
    <2>5. i.do = "return" => Result[p] = acc
      BY <1>1, <1>2, <2>1 DEF ResultAt
    <2>6. i.do = "clear" => Result[p] = Result[Point(n, pc + 1, 0)]
      BY <1>1, <1>2, <2>1 DEF ResultAt
    <2>7. i.do \in {"set", "mount", "build", "dispose"} => Result[p] = Result[Point(n, pc + 1, acc)]
      BY <1>1, <1>2, <2>1 DEF ResultAt
    <2> QED
      BY <2>3, <2>4, <2>5, <2>6, <2>7
  <1> QED
    BY <1>4, <1>5 DEF p

MemoRun(a, g) == g.op = "run" /\ a.kind[g.of] = "memo"

LEMMA HoldsPush ==
  ASSUME NEW s \in Seq(TypedFrame), NEW f \in TypedFrame, NEW g
  PROVE  Contains(<<f>> \o s, g) <=> g = f \/ Contains(s, g)
  <1> DEFINE t == <<f>> \o s
  <1>1. /\ t \in Seq(TypedFrame) /\ Len(t) = Len(s) + 1 /\ t[1] = f /\ Len(s) \in Nat
        /\ \A i \in 1..Len(s) : t[i + 1] = s[i]
        /\ \A i \in 2..(Len(s) + 1) : t[i] = s[i - 1]
    BY Pushed
  <1> HIDE DEF t
  <1>2. ASSUME Contains(s, g) PROVE Contains(t, g)
    <2>1. PICK i \in 1..Len(s) : s[i] = g
      BY <1>2 DEF Contains
    <2>2. i + 1 \in 1..Len(t)
      BY <1>1
    <2> QED
      BY <1>1, <2>1, <2>2 DEF Contains
  <1>3. ASSUME Contains(t, g), g # f PROVE Contains(s, g)
    <2>1. PICK i \in 1..Len(t) : t[i] = g
      BY <1>3 DEF Contains
    <2>2. i \in 2..(Len(s) + 1) /\ i - 1 \in 1..Len(s)
      BY <1>1, <1>3, <2>1
    <2> QED
      BY <1>1, <2>1, <2>2 DEF Contains
  <1>4. Contains(t, f)
    <2>1. 1 \in 1..Len(t)
      BY <1>1
    <2> QED
      BY <1>1, <2>1 DEF Contains
  <1> QED
    BY <1>2, <1>3, <1>4 DEF t

LEMMA HoldsPop ==
  ASSUME NEW s \in Seq(TypedFrame), s # <<>>, NEW g
  PROVE  Contains(s, g) <=> g = Head(s) \/ Contains(Tail(s), g)
  <1>1. Head(s) \in TypedFrame /\ Tail(s) \in Seq(TypedFrame) /\ s = <<Head(s)>> \o Tail(s)
    BY Popped
  <1> QED
    BY <1>1, HoldsPush

LEMMA HoldsCalled ==
  ASSUME NEW s \in Seq(TypedFrame), NEW g, Contains(s, g)
  PROVE  Called(s, g.op, g.of) /\ g \in TypedFrame
  BY DEF Contains, Called

\* Nothing that is not brought up to date on top starts a memo's closure.
LEMMA CalmRuns ==
  ASSUME TypeInv, CallsInv, [Next]_vars, NEW n \in Node, IsMemo(n), stack # <<>>, ~Pulls(app, Top),
         Called(stack', "run", n)
  PROVE  FALSE
  <1>0. StoreType /\ StackType(stack, depth) /\ Shape(app, stack, observer)
    BY TypeInvParts DEF CallsInv
  <1>1. ~Called(stack, "run", n)
    BY <1>0, CalmCalls DEF StackType, Working, IsMemo, Top
  <1>2. ASSUME SameWork(stack, stack') PROVE FALSE
    BY <1>1, <1>2 DEF SameWork, Working
  <1>3. ASSUME NEW k, NEW p, Visits(k, p) PROVE FALSE
    BY <1>1, <1>3 DEF Visits, Working
  <1>4. CASE Notify \/ Set \/ BuildBranch \/ HandlerReturns \/ FlushTake \/ FlushDone \/ Event
    BY <1>0, <1>2, <1>4, QuietWork
  <1>5. CASE Get \/ Peek \/ BuildMounted \/ Jump
    BY <1>0, <1>2, <1>5, MovedWork
  <1>6. CASE Dispose \/ DisposeChild \/ TakeCleanups \/ RunCleanup \/ DisposeNodes
    BY <1>0, <1>2, <1>6, DisposeWork
  <1>7. CASE GetStale
    <2>1. Arg \in Node
      BY <1>0, <1>7, Reads DEF GetStale
    <2> QED
      BY <1>0, <1>3, <1>7, <2>1, GetStaleWork
  <1>8. CASE FlushRun
    BY <1>0, <1>2, <1>3, <1>8, FlushRunWork
  <1>9. CASE CheckSource \/ CheckPassed \/ Update
    BY <1>9 DEF CheckSource, CheckPassed, Update, At, Pulls
  <1>10. CASE Return \/ Settle
    <2>1. \A op, j : Called(stack, op, j) <=> Called(stack', op, j) \/ (Top.op = op /\ Top.of = j)
      BY <1>0, <1>10, PopWork
    <2> QED
      BY <1>1, <2>1
  <1>11. CASE Mount
    <2>1. \A op \in Working : \A j : Called(stack', op, j) <=>
            Called(stack, op, j) \/ (op = "visit" /\ j = Arg)
      BY <1>0, <1>11, MountWork
    <2> QED
      BY <1>1, <2>1 DEF Working
  <1>12. CASE Rest \/ UNCHANGED vars
    BY <1>1, <1>12 DEF Rest, vars
  <1> QED
    BY <1>4, <1>5, <1>6, <1>7, <1>8, <1>9, <1>10, <1>11, <1>12 DEF Next, Step

LEMMA RunsStep ==
  ASSUME TypeInv, CallsInv, [Next]_vars, NEW g, Contains(stack', g), MemoRun(app, g)
  PROVE  \/ Contains(stack, g)
         \/ Update /\ g.pc = 1 /\ g.acc = 0
         \/ /\ stack # <<>> /\ Top.op = "run" /\ g.of = Top.of /\ InCode
            /\ \/ Get /\ value[Arg] \in Value /\ g.pc = Top.pc + 1 + 0 /\ g.acc = Add(Top.acc, value[Arg])
               \/ /\ Jump /\ Doing("ifzero") /\ g.acc = Top.acc
                  /\ g.pc = Top.pc + 1 + (IF Top.acc = 0 THEN Code[Top.pc].skip ELSE 0)
               \/ Jump /\ Doing("return") /\ g.acc = Top.acc /\ g.pc = Top.pc + 1 + Len(Code)
               \/ Jump /\ Doing("clear") /\ g.acc = 0 /\ g.pc = Top.pc + 1 + 0
  <1>0. /\ StoreType /\ StackType(stack, depth) /\ stack \in Seq(TypedFrame)
        /\ stack' \in Seq(TypedFrame)
        /\ Top = Head(stack) /\ Below = Tail(stack) /\ app' = app
    <2>1. TypeInv'
      BY TypeStep
    <2> QED
      BY <2>1, TypeInvParts, LinksOKStep DEF StackType, Top, Below, TypeInv
  <1>1. /\ g \in TypedFrame /\ g.op = "run" /\ g.of \in Node /\ IsMemo(g.of)
        /\ Called(stack', "run", g.of)
    BY <1>0, HoldsCalled, FrameFields DEF MemoRun, IsMemo
  <1>2. CASE stack = <<>>
    <2>1. CASE Event
      <3>1. PICK h \in app.onEvent, v \in Value, op \in Calls :
              stack' = <<[NewFrame(op, h, <<>>) EXCEPT !.acc = v]>>
        BY <2>1 DEF Event, Dispatch
      <3>2. Len(stack') = 1 /\ stack'[1].op = op
        BY <3>1 DEF NewFrame
      <3> QED
        BY <1>1, <3>2, CallsAssumption DEF Contains
    <2>2. CASE Notify \/ Rest \/ UNCHANGED vars
      BY <2>2 DEF Notify, Rest, vars
    <2>3. CASE Dispose
      BY <1>2, <2>3 DEF Dispose, Doing, InCode, At
    <2> QED
      BY <1>2, <2>1, <2>2, <2>3
         DEF Next, Step, CheckSource, CheckPassed, Update, Return, Settle,
             FlushTake, FlushRun, FlushDone, GetStale, Get, Peek, Set, Mount, BuildBranch,
             BuildMounted, Jump, HandlerReturns, DisposeChild, TakeCleanups, RunCleanup,
             DisposeNodes, Doing, InCode, At
  <1>3. CASE stack # <<>> /\ ~Pulls(app, Top)
    BY <1>1, <1>3, CalmRuns
  <1>4. CASE stack # <<>> /\ Pulls(app, Top)
    <2>1. /\ Below \in Seq(TypedFrame) /\ Top \in TypedFrame
          /\ \A h : Contains(stack, h) <=> h = Top \/ Contains(Below, h)
      BY <1>0, <1>4, HoldsPop, TopFacts
    <2>2. ASSUME NEW s \in Seq(TypedFrame), NEW m \in Node, stack' = Visit(m, s)
          PROVE  Contains(s, g)
      <3>1. NewFrame("visit", m, sources[m]) \in TypedFrame /\ NewFrame("visit", m, <<>>) \in TypedFrame
        BY <1>0, NewFrames DEF StoreType
      <3>2. NewFrame("visit", m, sources[m]).op = "visit" /\ NewFrame("visit", m, <<>>).op = "visit"
        BY DEF NewFrame
      <3>3. state[m] \in {"Clean", "Check", "Dirty"}
        BY <1>0 DEF StoreType, NodeState
      <3>4. \A h \in TypedFrame : h.op = "visit" =>
              (Contains(<<h>> \o s, g) => Contains(s, g))
        BY <1>1, HoldsPush
      <3> QED
        BY <2>2, <3>1, <3>2, <3>3, <3>4 DEF Visit
    <2>3. CASE Notify \/ Rest \/ UNCHANGED vars
      BY <2>3 DEF Notify, Rest, vars
    <2>4. CASE CheckSource
      <3> DEFINE f == [Top EXCEPT !.todo = Tail(@)]
      <3>1. Top.op = "visit" /\ Top.todo # <<>> /\ Top.todo \in Seq(Node)
        BY <2>1, <2>4, FrameFields DEF CheckSource, At
      <3>2. Head(Top.todo) \in Node /\ Tail(Top.todo) \in Seq(Node)
        BY <3>1, Popped
      <3>3. f \in TypedFrame /\ f.op = "visit"
        BY <2>1, <3>1, <3>2, TodoChanged
      <3>4. stack' = Visit(Head(Top.todo), <<f>> \o Below)
        BY <2>4 DEF CheckSource
      <3> HIDE DEF f
      <3>5. <<f>> \o Below \in Seq(TypedFrame)
        BY <2>1, <3>3, Pushed
      <3>6. Contains(<<f>> \o Below, g)
        BY <2>2, <3>2, <3>4, <3>5
      <3> QED
        BY <1>1, <2>1, <3>3, <3>6, HoldsPush
    <2>5. CASE CheckPassed \/ Settle \/ Return
      BY <2>1, <2>5 DEF CheckPassed, Settle, Return
    <2>6. CASE Update
      <3> DEFINE e == NewFrame("settle", Top.of, <<>>)
                 r == [NewFrame("run", Top.of, <<>>) EXCEPT !.prev = observer]
      <3>1. Top.of \in Node /\ observer \in Node \cup {None}
        BY <1>0, <2>1, <2>6, FrameFields DEF Update, At, StoreType
      <3>2. /\ e \in TypedFrame /\ e.op = "settle"
            /\ r \in TypedFrame /\ r.pc = 1 /\ r.acc = 0
        BY <3>1, NewFrames DEF NewFrame
      <3>3. stack' = <<e>> \o Below \/ stack' = <<r>> \o (<<e>> \o Below)
        BY <2>6 DEF Update
      <3> HIDE DEF e, r
      <3>4. <<e>> \o Below \in Seq(TypedFrame)
        BY <2>1, <3>2, Pushed
      <3>5. g = r \/ g = e \/ Contains(Below, g)
        <4>1. Contains(<<e>> \o Below, g) => g = e \/ Contains(Below, g)
          BY <2>1, <3>2, HoldsPush
        <4>2. Contains(<<r>> \o (<<e>> \o Below), g) => g = r \/ Contains(<<e>> \o Below, g)
          BY <3>2, <3>4, HoldsPush
        <4> QED
          BY <3>3, <4>1, <4>2
      <3> QED
        BY <1>1, <2>1, <2>6, <3>2, <3>5
    <2>7. CASE GetStale
      <3>1. Arg \in Node /\ stack' = Visit(Arg, stack)
        BY <1>0, <2>7, Reads DEF GetStale, CallsInv
      <3> QED
        BY <1>0, <2>2, <3>1
    <2>8. CASE Get \/ Jump
      <3>1. InCode /\ Top.acc \in Value /\ Top.pc \in Nat
        BY <1>0, <2>1, <2>8, FrameFields DEF Get, Jump, Doing
      <3>2. ASSUME NEW k \in Nat, NEW v \in Value, Moved(k, v)
            PROVE  Contains(stack, g) \/ (g.op = Top.op /\ g.of = Top.of /\ g.pc = Top.pc + 1 + k /\ g.acc = v)
        <4> DEFINE f == [Skipping(k) EXCEPT !.acc = v]
        <4>1. /\ f \in TypedFrame /\ f.op = Top.op /\ f.of = Top.of
              /\ f.pc = Top.pc + 1 + k /\ f.acc = v
          BY <1>0, <3>1, MovedFrame
        <4>2. stack' = <<f>> \o Below
          BY <3>2 DEF Moved
        <4> HIDE DEF f
        <4> QED
          BY <2>1, <4>1, <4>2, HoldsPush
      <3>3. /\ Get => \/ stack' = stack
                      \/ value[Arg] \in Value /\ Moved(0, Add(Top.acc, value[Arg]))
            /\ Jump => \/ Doing("ifzero") /\ Moved(IF Top.acc = 0 THEN Code[Top.pc].skip ELSE 0, Top.acc)
                       \/ Doing("return") /\ Moved(Len(Code), Top.acc)
                       \/ Doing("clear") /\ Moved(0, 0)
        BY <1>0, Moves
      <3>4. /\ 0 \in Nat /\ 0 \in Value
            /\ Len(Code) \in Nat
            /\ \A v \in Value : Add(Top.acc, v) \in Value
            /\ Doing("ifzero") => (IF Top.acc = 0 THEN Code[Top.pc].skip ELSE 0) \in Nat
        <4>1. Code \in Seq(Instr)
          BY <1>0, <3>1, CodeFacts
        <4>2. Doing("ifzero") => Code[Top.pc] \in Instr
          BY <1>0, DoingFacts
        <4>3. \A i \in Instr : i.skip \in Nat
          BY DEF Instr
        <4>4. \A v \in Value : Add(Top.acc, v) \in Value
          BY <3>1, AddType
        <4>5. Len(Code) \in Nat
          BY <4>1
        <4> QED
          BY <4>2, <4>3, <4>4, <4>5, ZeroIsValue
      <3>5. CASE Get
        BY <1>1, <1>4, <3>1, <3>2, <3>3, <3>4, <3>5
      <3>6. CASE Jump
        BY <1>1, <1>4, <3>1, <3>2, <3>3, <3>4, <3>6
      <3> QED
        BY <2>8, <3>5, <3>6
    <2>9. CASE FlushTake \/ FlushRun \/ FlushDone \/ HandlerReturns \/ DisposeChild
               \/ TakeCleanups \/ RunCleanup \/ DisposeNodes
      BY <1>4, <2>9 DEF FlushTake, FlushRun, FlushDone, HandlerReturns, DisposeChild,
         TakeCleanups, RunCleanup, DisposeNodes, At, Pulls, MemoCall, Working
    <2>10. CASE Peek \/ Set \/ Mount \/ BuildBranch \/ BuildMounted \/ Dispose
      BY <1>0, <1>4, <2>10, NotPulling DEF Peek, Set, Mount, BuildBranch, BuildMounted, Dispose
    <2>11. CASE Event
      BY <1>4, <2>11 DEF Event, Dispatch
    <2> QED
      BY <2>3, <2>4, <2>5, <2>6, <2>7, <2>8, <2>9, <2>10, <2>11 DEF Next, Step
  <1> QED
    BY <1>2, <1>3, <1>4

CleanSources(n) == {m \in Node : DependsOn(n, m) /\ state[m] = "Clean"}

\* What a running memo has read stays as it read it.
LEMMA KeptSources ==
  ASSUME TypeInv, CallsInv, MarksInv, [Next]_vars, NEW n \in Node, IsMemo(n),
         Called(stack, "run", n)
  PROVE  \A m \in CleanSources(n) : m \in CleanSources(n)' /\ value'[m] = value[m]
  <1>0. /\ StoreType /\ StackType(stack, depth) /\ stack \in Seq(TypedFrame)
        /\ Shape(app, stack, observer) /\ LinksAgree /\ CallMarks /\ LinksOK
        /\ Top = Head(stack) /\ Below = Tail(stack) /\ app' = app /\ app \in App
        /\ state \in [Node -> NodeState] /\ value \in [Node -> Value \cup {NoValue}]
    BY TypeInvParts, LinksOKStep DEF StackType, Top, Below, CallsInv, StoreType
  <1>1. stack # <<>> /\ Pulls(app, Top)
    <2>1. stack # <<>>
      BY DEF Called
    <2> QED
      BY <1>0, <2>1, CalmCalls DEF Working, IsMemo
  <1>2. SUFFICES ASSUME NEW m \in Node, DependsOn(n, m), state[m] = "Clean"
        PROVE  DependsOn(n, m)' /\ state'[m] = "Clean" /\ value'[m] = value[m]
    BY DEF CleanSources
  <1>3. CASE Notify
    <2>1. Pulling(app, stack)
      BY DEF Pulling, Working, IsMemo
    <2>2. ~IsEffect(m)
      BY <1>0, <1>2 DEF LinksOK
    <2>3. state'[m] = "Clean"
      BY <1>0, <1>2, <1>3, <2>1, <2>2, NotifyStates DEF MarksInv
    <2> QED
      BY <1>2, <1>3, <2>3 DEF Notify, links, DependsOn
  <1>4. CASE CheckSource \/ Jump \/ Rest \/ UNCHANGED vars
    <2>1. UNCHANGED <<state, value, sources>>
      BY <1>4 DEF CheckSource, Jump, OnlyTheStack, Rest, vars, graph, links
    <2> QED
      BY <1>2, <2>1 DEF DependsOn
  <1>5. CASE GetStale \/ Get
    <2>1. Linked(Arg) /\ Doing("get") /\ UNCHANGED <<state, value>>
      BY <1>5 DEF GetStale, Get
    <2>2. DependsOn(n, m)'
      BY <1>0, <1>2, <2>1, LinkedLinks, Reads
    <2> QED
      BY <1>2, <2>1, <2>2
  <1>6. CASE CheckPassed \/ Settle
    <2>1. UNCHANGED <<value, sources>> /\ state' = [state EXCEPT ![Top.of] = "Clean"]
      BY <1>6 DEF CheckPassed, Settle, links
    <2>2. state'[m] = "Clean"
      BY <1>0, <1>2, <2>1
    <2> QED
      BY <1>2, <2>1, <2>2 DEF DependsOn
  <1>7. CASE Return
    <2>1. UNCHANGED <<state, sources>> /\ Top.op = "run"
          /\ (value' # value => IsMemo(Top.of) /\ value' = [value EXCEPT ![Top.of] = Top.acc])
      BY <1>7 DEF Return, links, At
    <2>2. Top.of \in Node /\ Called(stack, "run", Top.of)
      BY <1>0, <1>1, <2>1, TopFacts, FrameFields, CalledPop
    <2>3. value' # value => state[Top.of] = "Dirty"
      BY <1>0, <2>1, <2>2 DEF CallMarks
    <2>4. value'[m] = value[m]
      BY <1>0, <1>2, <2>1, <2>3
    <2> QED
      BY <1>2, <2>1, <2>4 DEF DependsOn
  <1>8. CASE Update
    <2>1. Unlinked(Top.of) /\ Top.op = "visit" /\ UNCHANGED <<state, value>>
      BY <1>8 DEF Update, At
    <2>2. Top.of \in Node /\ Top \in TypedFrame
      BY <1>0, <1>1, <2>1, TopFacts, FrameFields
    <2>3. ASSUME Top.of = n PROVE FALSE
      <3>1. MemoCall(app, Head(stack))
        BY <1>0, <2>1, <2>3 DEF MemoCall, Working, IsMemo
      <3>2. Called(Tail(stack), "run", Head(stack).of)
        BY <1>0, <1>1, <2>1, <2>3, CalledPop
      <3> QED
        BY <1>0, <1>1, <2>1, <3>1, <3>2, CalledOnce DEF Working
    <2>4. DependsOn(n, m)'
      BY <1>0, <1>2, <2>1, <2>2, <2>3, UnlinkedLinks
    <2> QED
      BY <1>2, <2>1, <2>4
  <1>9. CASE FlushTake \/ FlushRun \/ FlushDone \/ HandlerReturns \/ DisposeChild
             \/ TakeCleanups \/ RunCleanup \/ DisposeNodes
    BY <1>1, <1>9 DEF FlushTake, FlushRun, FlushDone, HandlerReturns, DisposeChild,
       TakeCleanups, RunCleanup, DisposeNodes, At, Pulls, MemoCall, Working
  <1>10. CASE Peek \/ Set \/ Mount \/ BuildBranch \/ BuildMounted \/ Dispose
    BY <1>0, <1>1, <1>10, NotPulling DEF Peek, Set, Mount, BuildBranch, BuildMounted, Dispose
  <1>11. CASE Event
    BY <1>1, <1>11 DEF Event, Dispatch
  <1> QED
    BY <1>3, <1>4, <1>5, <1>6, <1>7, <1>8, <1>9, <1>10, <1>11 DEF Next, Step

\* The closure of a memo has come to where it is with the sources it has read.
RunsFromSources ==
  \A g \in TypedFrame : Contains(stack, g) /\ MemoRun(app, g) =>
    ComesTo(app, g.of, g.pc, g.acc, CleanSources(g.of), value)

LEMMA RunsFromSourcesStep ==
  ASSUME TypeInv, CallsInv, MarksInv, RunsFromSources, [Next]_vars
  PROVE  RunsFromSources'
  <1>0. /\ StoreType /\ StackType(stack, depth) /\ stack \in Seq(TypedFrame)
        /\ Shape(app, stack, observer) /\ LinksAgree /\ app' = app /\ app \in App
        /\ Top = Head(stack) /\ sources \in [Node -> Seq(Node)]
        /\ observer \in Node \cup {None}
    BY TypeInvParts, LinksOKStep DEF StackType, Top, CallsInv, StoreType
  <1>1. SUFFICES ASSUME NEW g \in TypedFrame, Contains(stack', g), MemoRun(app, g)
        PROVE  ComesTo(app, g.of, g.pc, g.acc, CleanSources(g.of)', value')
    BY <1>0 DEF RunsFromSources
  <1> DEFINE n == g.of
  <1>2. n \in Node /\ IsMemo(n) /\ g.op = "run"
    BY <1>1, FrameFields DEF MemoRun, IsMemo
  <1> DEFINE G == ComesTo(app, n, g.pc, g.acc, CleanSources(n)', value')
  <1>3. SUFFICES G
    OBVIOUS
  <1> HIDE DEF G
  <1>4. ASSUME NEW pc, NEW acc, Called(stack, "run", n),
               ComesTo(app, n, pc, acc, CleanSources(n), value)
        PROVE  ComesTo(app, n, pc, acc, CleanSources(n)', value')
    <2>1. \A m \in CleanSources(n) : m \in CleanSources(n)' /\ value'[m] = value[m]
      BY <1>2, <1>4, KeptSources
    <2>2. CleanSources(n) \subseteq CleanSources(n)'
      BY <2>1
    <2> DEFINE A == CleanSources(n)
               B == CleanSources(n)'
    <2>3. A \subseteq B /\ (\A m \in A : value'[m] = value[m]) /\ ComesTo(app, n, pc, acc, A, value)
      BY <1>4, <2>1, <2>2
    <2> HIDE DEF A, B
    <2>4. ComesTo(app, n, pc, acc, B, value')
      BY <2>3, ComesToKept
    <2> QED
      BY <2>4 DEF B
  <1>5. CASE Contains(stack, g)
    <2>1. Called(stack, "run", n)
      BY <1>0, <1>2, <1>5, HoldsCalled
    <2>2. ComesTo(app, n, g.pc, g.acc, CleanSources(n), value)
      BY <1>1, <1>5 DEF RunsFromSources
    <2> QED
      BY <1>4, <2>1, <2>2 DEF G
  <1>6. CASE Update /\ g.pc = 1 /\ g.acc = 0
    BY <1>6, ComesToStart DEF G
  <1>7. CASE /\ stack # <<>> /\ Top.op = "run" /\ n = Top.of /\ InCode
             /\ \/ Get /\ value[Arg] \in Value /\ g.pc = Top.pc + 1 + 0 /\ g.acc = Add(Top.acc, value[Arg])
                \/ /\ Jump /\ Doing("ifzero") /\ g.acc = Top.acc
                   /\ g.pc = Top.pc + 1 + (IF Top.acc = 0 THEN Code[Top.pc].skip ELSE 0)
                \/ Jump /\ Doing("return") /\ g.acc = Top.acc /\ g.pc = Top.pc + 1 + Len(Code)
                \/ Jump /\ Doing("clear") /\ g.acc = 0 /\ g.pc = Top.pc + 1 + 0
    <2>1. /\ Top \in TypedFrame /\ Contains(stack, Top) /\ Called(stack, "run", n)
          /\ Top.pc \in Nat \ {0} /\ Top.acc \in Value
      <3>1. Top \in TypedFrame /\ Contains(stack, Top) /\ Called(stack, "run", n)
        BY <1>0, <1>7, TopFacts, HoldsPop, CalledPop
      <3>2. Top.pc \in Nat /\ Top.pc >= 1 /\ Top.acc \in Value
        BY <3>1, FrameFields
      <3> QED
        BY <3>1, <3>2
    <2>2. ComesTo(app, n, Top.pc, Top.acc, CleanSources(n), value)
      BY <1>2, <1>7, <2>1 DEF RunsFromSources, MemoRun, IsMemo
    <2>3. ComesTo(app, n, Top.pc, Top.acc, CleanSources(n)', value')
      BY <1>4, <2>1, <2>2
    <2>4. Code = app.code[n] /\ Code \in Seq(Instr) /\ Len(app.code[n]) \in Nat
      <3>1. Code \in Seq(Instr)
        BY <1>0, <1>7, CodeFacts
      <3> QED
        BY <1>7, <3>1 DEF Code
    <2>5. \A d : Doing(d) => Top.pc \in DOMAIN app.code[n] /\ app.code[n][Top.pc].do = d
                             /\ Arg = app.code[n][Top.pc].of
      BY <1>0, <2>4, DoingFacts
    <2>6. Top.pc + 1 + 0 = Top.pc + 1
      BY <2>1
    <2>7. CASE Get /\ value[Arg] \in Value /\ g.pc = Top.pc + 1 + 0 /\ g.acc = Add(Top.acc, value[Arg])
      <3>1. Doing("get") /\ Linked(Arg) /\ UNCHANGED <<state, value>> /\ state[Arg] = "Clean"
        BY <2>7 DEF Get
      <3>2. Arg \in Node /\ observer = n
        BY <1>0, <1>7, <3>1, Reads, Watcher
      <3>3. PICK m \in Node : m = Arg
        BY <3>2
      <3>4. DependsOn(n, m)'
        BY <1>0, <1>2, <3>1, <3>2, <3>3, LinkedLinks
      <3>5. app.code[n][Top.pc].of \in CleanSources(n)'
        BY <2>5, <3>1, <3>3, <3>4 DEF CleanSources
      <3> DEFINE B == CleanSources(n)'
      <3>6. ComesTo(app, n, Top.pc, Top.acc, B, value') /\ app.code[n][Top.pc].of \in B
        BY <2>3, <3>5
      <3> HIDE DEF B
      <3>7. ComesTo(app, n, Top.pc + 1, Add(Top.acc, value'[app.code[n][Top.pc].of]), B, value')
        BY <2>1, <2>5, <3>1, <3>6, ComesToGet
      <3>8. g.pc = Top.pc + 1 /\ g.acc = Add(Top.acc, value'[app.code[n][Top.pc].of])
        BY <2>5, <2>6, <2>7, <3>1
      <3> QED
        BY <3>7, <3>8 DEF B, G
    <2>8. CASE Jump
      <3> DEFINE B == CleanSources(n)'
      <3>1. ComesTo(app, n, Top.pc, Top.acc, B, value')
        BY <2>3
      <3> HIDE DEF B
      <3>2. Top.pc \in DOMAIN app.code[n] =>
              /\ app.code[n][Top.pc].do = "ifzero" =>
                   ComesTo(app, n, Top.pc + 1 + (IF Top.acc = 0 THEN app.code[n][Top.pc].skip ELSE 0),
                           Top.acc, B, value')
              /\ app.code[n][Top.pc].do = "return" =>
                   ComesTo(app, n, Top.pc + 1 + Len(app.code[n]), Top.acc, B, value')
              /\ app.code[n][Top.pc].do = "clear" => ComesTo(app, n, Top.pc + 1, 0, B, value')
        BY <2>1, <2>4, <3>1, ComesToJump
      <3>3. ~Get
        BY <2>8 DEF Get, Jump, Doing
      <3>4. ComesTo(app, n, g.pc, g.acc, B, value')
        <4>1. CASE Doing("ifzero") /\ g.acc = Top.acc
                   /\ g.pc = Top.pc + 1 + (IF Top.acc = 0 THEN Code[Top.pc].skip ELSE 0)
          BY <2>4, <2>5, <3>2, <4>1
        <4>2. CASE Doing("return") /\ g.acc = Top.acc /\ g.pc = Top.pc + 1 + Len(Code)
          BY <2>4, <2>5, <3>2, <4>2
        <4>3. CASE Doing("clear") /\ g.acc = 0 /\ g.pc = Top.pc + 1 + 0
          BY <2>5, <2>6, <3>2, <4>3
        <4> QED
          BY <1>7, <3>3, <4>1, <4>2, <4>3
      <3> QED
        BY <3>4 DEF B, G
    <2> QED
      BY <1>7, <2>7, <2>8
  <1> QED
    BY <1>1, <1>5, <1>6, <1>7, RunsStep

LEMMA RunsFromSourcesInit == Init => RunsFromSources
  <1> SUFFICES ASSUME Init, NEW g \in TypedFrame, Contains(stack, g), MemoRun(app, g) PROVE FALSE
    BY DEF RunsFromSources
  <1>1. Len(stack) = 1 /\ stack[1].op = "handler"
    BY DEF Init, NewFrame
  <1> QED
    BY <1>1 DEF Contains, MemoRun

\* A memo is linked to nodes that its code reads.
SourcesAreRead ==
  \A n, m \in Node : IsMemo(n) /\ DependsOn(n, m) =>
    \E k \in DOMAIN app.code[n] : app.code[n][k].do = "get" /\ app.code[n][k].of = m

LEMMA SourcesAreReadStep ==
  ASSUME TypeInv, CallsInv, SourcesAreRead, [Next]_vars PROVE SourcesAreRead'
  <1>0. StoreType /\ StackType(stack, depth) /\ app' = app
    BY TypeInvParts, LinksOKStep
  <1>1. SUFFICES ASSUME NEW n \in Node, NEW m \in Node, IsMemo(n), DependsOn(n, m)'
        PROVE  \E k \in DOMAIN app.code[n] : app.code[n][k].do = "get" /\ app.code[n][k].of = m
    BY <1>0 DEF SourcesAreRead, IsMemo
  <1>2. CASE DependsOn(n, m)
    BY <1>1, <1>2 DEF SourcesAreRead
  <1>3. CASE (GetStale \/ Get) /\ m = Arg /\ Top.of = n
    <2>1. Doing("get")
      BY <1>3 DEF GetStale, Get
    <2>2. Top.pc \in DOMAIN Code /\ Code[Top.pc].do = "get" /\ Arg = Code[Top.pc].of
      BY <1>0, <2>1, DoingFacts
    <2> QED
      BY <1>3, <2>2 DEF Code
  <1> QED
    BY <1>1, <1>2, <1>3, DependsStep

\* The memos that exist read nodes that exist: what their code holds handles
\* of is not disposed before them.
ReadsAlive ==
  \A n \in alive : IsMemo(n) =>
    \A k \in DOMAIN app.code[n] : app.code[n][k].do = "get" => app.code[n][k].of \in alive

SourcesOf(n) == {m \in Node : DependsOn(n, m)}

\* Nothing told the memo that it is out of date since its closure returned.
Settled(n) ==
  /\ n \in alive /\ n \in ready
  /\ (state[n] # "Dirty" /\ ~Asked(agenda, n, "Dirty")) \/ Called(stack, "settle", n)

MemosYield ==
  \A n \in Node : IsMemo(n) /\ Settled(n) => Yields(app, n, SourcesOf(n), value, value[n])

\* The memo's links grow and its sources keep their values.
LEMMA YieldKept ==
  ASSUME MemosYield, app' = app, NEW n \in Node, IsMemo(n), Settled(n),
         \A m \in Node : DependsOn(n, m) => DependsOn(n, m)' /\ value'[m] = value[m],
         value'[n] = value[n]
  PROVE  Yields(app, n, SourcesOf(n)', value', value'[n])
  <1> DEFINE A == SourcesOf(n)
             B == SourcesOf(n)'
  <1>1. A \subseteq B /\ (\A m \in A : value'[m] = value[m])
    BY DEF SourcesOf
  <1>2. Yields(app, n, A, value, value[n])
    BY DEF MemosYield
  <1> HIDE DEF A, B
  <1>3. Yields(app, n, B, value', value[n])
    BY <1>1, <1>2, YieldsKept
  <1> QED
    BY <1>3 DEF B

\* While the call that settles a memo is not on top, its closure runs.
LEMMA SettleOnTop ==
  ASSUME StoreType, CallsInv, StackType(stack, depth), NEW n \in Node, IsMemo(n),
         Called(stack, "settle", n), n \in ready
  PROVE  stack # <<>> /\ Top.op = "settle" /\ Top.of = n
  <1>1. PICK i \in 1..Len(stack) : stack[i].op = "settle" /\ stack[i].of = n
    BY DEF Called
  <1>2. stack \in Seq(TypedFrame) /\ Len(stack) \in Nat /\ stack # <<>> /\ Top = stack[1]
    BY <1>1, TopFacts DEF StackType
  <1>3. CASE i = 1
    BY <1>1, <1>2, <1>3
  <1>4. CASE i > 1
    <2>1. i - 1 \in 1..Len(stack) /\ stack[i - 1].op = "run" /\ (i - 1) + 1 = i
      BY <1>1, <1>2, <1>4 DEF CallsInv, Shape, Paired
    <2>2. stack[i - 1].of = n
      BY <1>1, <2>1 DEF CallsInv, Shape, Paired
    <2>3. Called(stack, "run", n)
      BY <2>1, <2>2 DEF Called
    <2> QED
      BY <2>3 DEF CallsInv, MemosReady
  <1> QED
    BY <1>3, <1>4

LEMMA YieldReturn ==
  ASSUME TypeInv, CallsInv, MarksInv, RunsFromSources, MemosYield, Return,
         NEW n \in Node, IsMemo(n), Settled(n)'
  PROVE  Yields(app, n, SourcesOf(n)', value', value'[n])
  <1>0. /\ StoreType /\ StackType(stack, depth) /\ LinksAgree /\ LinksOK
        /\ stack \in Seq(TypedFrame) /\ Top = Head(stack) /\ Below = Tail(stack)
        /\ app \in App /\ value \in [Node -> Value \cup {NoValue}]
    BY TypeInvParts DEF CallsInv, StoreType, StackType, Top, Below
  <1> DEFINE k == Top.of
  <1>1. /\ stack # <<>> /\ Top.op = "run" /\ agenda = <<>> /\ Top.pc > Len(app.code[k])
        /\ UNCHANGED <<state, sources, alive, app>> /\ ready' = ready \cup {k} /\ stack' = Below
        /\ \/ IsMemo(k) /\ value[k] # Top.acc
              /\ value' = [value EXCEPT ![k] = Top.acc] /\ agenda' = Marks(observers[k], "Dirty")
           \/ ~(IsMemo(k) /\ value[k] # Top.acc) /\ UNCHANGED <<value, agenda>>
    BY DEF Return, At, Code, links, Woken
  <1>2. /\ k \in Node /\ Top \in TypedFrame /\ Contains(stack, Top) /\ Called(stack, "run", k)
        /\ Top.pc \in Nat \ {0} /\ Top.acc \in Value
    <2>1. Top \in TypedFrame
      BY <1>0, <1>1, TopFacts
    <2>2. k \in Node /\ Top.pc \in Nat /\ Top.pc >= 1 /\ Top.acc \in Value
      BY <1>1, <2>1, FrameFields
    <2> QED
      BY <1>0, <1>1, <2>1, <2>2, HoldsPop, CalledPop
  <1>3. \A m \in Node : DependsOn(n, m)' <=> DependsOn(n, m)
    BY <1>1 DEF DependsOn
  <1>4. CASE n = k
    <2>1. \A m \in Node : DependsOn(n, m) => state[m] = "Clean" /\ m # n
      <3> SUFFICES ASSUME NEW m \in Node, DependsOn(n, m) PROVE state[m] = "Clean" /\ m # n
        OBVIOUS
      <3>1. state[m] = "Clean"
        BY <1>0, <1>4, TopSources DEF MarksInv
      <3>2. m # n
        BY <1>0, <1>1, <1>4, SourcesNotBelow DEF Working
      <3> QED
        BY <3>1, <3>2
    <2> DEFINE A == CleanSources(n)
               B == SourcesOf(n)'
    <2>2. ComesTo(app, n, Top.pc, Top.acc, A, value)
      BY <1>2, <1>1, <1>4 DEF RunsFromSources, MemoRun, IsMemo
    <2>3. A \subseteq B /\ A = SourcesOf(n) /\ \A m \in A : m # n /\ m \in Node
      BY <1>3, <2>1 DEF CleanSources, SourcesOf
    <2> HIDE DEF A, B
    <2>4. Yields(app, n, A, value, Top.acc)
      BY <1>1, <1>2, <1>4, <2>2, ComesToEnd
    <2>5. value'[n] = Top.acc /\ \A m \in A : value'[m] = value[m]
      BY <1>0, <1>1, <1>2, <1>4, <2>3
    <2>6. Yields(app, n, B, value', Top.acc)
      BY <2>3, <2>4, <2>5, YieldsKept
    <2> QED
      BY <2>5, <2>6 DEF B
  <1>5. CASE n # k
    <2>1. ~Called(stack', "settle", n)
      <3>1. ASSUME Called(stack', "settle", n) PROVE FALSE
        <4>1. Called(stack, "settle", n)
          BY <1>0, <1>1, <3>1, CalledPop
        <4>2. n \in ready
          BY <1>1, <1>5 DEF Settled
        <4> QED
          BY <1>0, <1>1, <4>1, <4>2, SettleOnTop
      <3> QED
        BY <3>1
    <2>2. n \in alive /\ n \in ready /\ state[n] # "Dirty" /\ ~Asked(agenda', n, "Dirty")
      BY <1>1, <1>5, <2>1 DEF Settled
    <2>3. Settled(n)
      BY <1>1, <2>2, EmptyAgenda DEF Settled
    <2>4. \A m \in Node : DependsOn(n, m) => value'[m] = value[m]
      <3> SUFFICES ASSUME NEW m \in Node, DependsOn(n, m), value'[m] # value[m] PROVE FALSE
        OBVIOUS
      <3>1. m = k /\ agenda' = Marks(observers[k], "Dirty")
        BY <1>0, <1>1, <1>2
      <3>2. Contains(observers[k], n) /\ observers[k] \in Seq(Node)
        BY <1>0, <1>2, <3>1 DEF LinksAgree, DependsOn, StoreType
      <3>3. Asked(agenda', n, "Dirty")
        <4>1. <<>> \in Seq(Mark)
          OBVIOUS
        <4> QED
          BY <3>1, <3>2, <4>1, AskedMarks
      <3> QED
        BY <2>2, <3>3
    <2>5. value'[n] = value[n]
      BY <1>0, <1>1, <1>2, <1>5
    <2> QED
      BY <1>1, <1>3, <2>3, <2>4, <2>5, YieldKept
  <1> QED
    BY <1>4, <1>5

LEMMA YieldSet ==
  ASSUME TypeInv, CallsInv, MemosYield, Set, NEW n \in Node, IsMemo(n), Settled(n)'
  PROVE  Yields(app, n, SourcesOf(n)', value', value'[n])
  <1>0. /\ StoreType /\ StackType(stack, depth) /\ LinksAgree /\ Shape(app, stack, observer)
        /\ stack \in Seq(TypedFrame) /\ Top = Head(stack)
        /\ app \in App /\ value \in [Node -> Value \cup {NoValue}]
    BY TypeInvParts DEF CallsInv, StoreType, StackType, Top
  <1> DEFINE k == Arg
  <1>1. /\ Doing("set") /\ agenda = <<>> /\ UNCHANGED <<state, sources, alive, ready, app>>
        /\ \/ value' = [value EXCEPT ![k] = Top.acc] /\ agenda' = Marks(observers[k], "Dirty")
           \/ UNCHANGED <<value, agenda>>
    BY DEF Set, Doing, InCode, At, links
  <1>2. stack # <<>> /\ ~Pulls(app, Top)
    BY <1>0, <1>1, NotPulling
  <1>3. k \in Node /\ IsSignal(k)
    BY <1>0, <1>1, DoingFacts DEF WellTyped, IsSignal
  <1> HIDE DEF k
  <1>4. ~Called(stack, "settle", n) /\ ~Called(stack', "settle", n)
    <2>1. ~Called(stack, "settle", n)
      BY <1>0, <1>2, CalmCalls DEF Working, IsMemo
    <2> QED
      BY <1>0, <2>1, QuietWork DEF SameWork, Working
  <1>5. n \in alive /\ n \in ready /\ state[n] # "Dirty" /\ ~Asked(agenda', n, "Dirty")
    BY <1>1, <1>4 DEF Settled
  <1>6. Settled(n)
    BY <1>1, <1>5, EmptyAgenda DEF Settled
  <1>7. \A m \in Node : DependsOn(n, m)' <=> DependsOn(n, m)
    BY <1>1 DEF DependsOn
  <1>8. \A m \in Node : DependsOn(n, m) => value'[m] = value[m]
    <2> SUFFICES ASSUME NEW m \in Node, DependsOn(n, m), value'[m] # value[m] PROVE FALSE
      OBVIOUS
    <2>1. m = k /\ agenda' = Marks(observers[k], "Dirty")
      BY <1>0, <1>1, <1>3
    <2>2. Contains(observers[k], n) /\ observers[k] \in Seq(Node)
      BY <1>0, <1>3, <2>1 DEF LinksAgree, DependsOn, StoreType
    <2>3. Asked(agenda', n, "Dirty")
      <3>1. <<>> \in Seq(Mark)
        OBVIOUS
      <3> QED
        BY <2>1, <2>2, <3>1, AskedMarks
    <2> QED
      BY <1>5, <2>3
  <1>9. value'[n] = value[n]
    BY <1>0, <1>1, <1>3 DEF IsMemo, IsSignal
  <1> QED
    BY <1>1, <1>6, <1>7, <1>8, <1>9, YieldKept

\* Nodes come and go.
LEMMA YieldNodes ==
  ASSUME TypeInv, CallsInv, SourcesAreRead, ReadsAlive', MemosYield, BuildBranch \/ DisposeNodes,
         NEW n \in Node, IsMemo(n), Settled(n)'
  PROVE  Yields(app, n, SourcesOf(n)', value', value'[n])
  <1>0. /\ StoreType /\ StackType(stack, depth) /\ LinksAgree /\ Shape(app, stack, observer)
        /\ stack \in Seq(TypedFrame) /\ Top = Head(stack)
    BY TypeInvParts DEF CallsInv, StoreType, StackType, Top
  <1>1. stack # <<>> /\ ~Pulls(app, Top)
    BY <1>0, NotPulling DEF BuildBranch, DisposeNodes, At, Pulls, MemoCall, Working
  <1>2. ~Called(stack', "settle", n)
    <2>1. ~Called(stack, "settle", n)
      BY <1>0, <1>1, CalmCalls DEF Working, IsMemo
    <2> QED
      BY <1>0, <2>1, QuietWork, DisposeWork DEF SameWork, Working
  <1>3. n \in alive' /\ n \in ready' /\ state'[n] # "Dirty" /\ ~Asked(agenda', n, "Dirty")
    BY <1>2 DEF Settled
  <1>4. CASE BuildBranch
    <2> DEFINE new == {m \in Owned(Arg) : ~IsEffect(m)}
    <2>1. /\ \A m \in new : Fresh(m)
          /\ alive' = alive \cup new /\ ready' = ready \cup {m \in new : IsMemo(m)}
          /\ \A m \in Node : m \notin new => state'[m] = state[m] /\ value'[m] = value[m]
          /\ \A m \in new : m \in Node /\ (~IsSignal(m) => state'[m] = "Dirty")
          /\ UNCHANGED <<app, sources, agenda>>
      BY <1>4 DEF BuildBranch, links, Owned
    <2> HIDE DEF new
    <2>2. n \notin new
      BY <1>3, <2>1 DEF IsMemo, IsSignal
    <2>3. Settled(n) /\ value'[n] = value[n]
      BY <1>3, <2>1, <2>2 DEF Settled
    <2>4. \A m \in Node : DependsOn(n, m) => DependsOn(n, m)' /\ value'[m] = value[m]
      <3> SUFFICES ASSUME NEW m \in Node, DependsOn(n, m) PROVE DependsOn(n, m)' /\ value'[m] = value[m]
        OBVIOUS
      <3>1. ~Fresh(m)
        BY <1>0, FreshLinks
      <3> QED
        BY <2>1, <3>1 DEF DependsOn
    <2> QED
      BY <2>1, <2>3, <2>4, YieldKept
  <1>5. CASE DisposeNodes
    <2> DEFINE dead == Dying(Top.of)
    <2>1. /\ alive' = alive \ dead /\ ready' = ready \ dead
          /\ \A m \in Node : m \notin dead => state'[m] = state[m] /\ value'[m] = value[m]
          /\ UNCHANGED <<app, agenda>>
      BY <1>5, DisposeNodesParts
    <2>2. \A m, k \in Node : DependsOn(m, k)' <=> m \notin dead /\ k \notin dead /\ DependsOn(m, k)
      BY <1>0, <1>5, DisposedLinks
    <2> HIDE DEF dead
    <2>3. n \notin dead
      BY <1>3, <2>1
    <2>4. Settled(n) /\ value'[n] = value[n]
      BY <1>3, <2>1, <2>3 DEF Settled
    <2>5. \A m \in Node : DependsOn(n, m) => DependsOn(n, m)' /\ value'[m] = value[m]
      <3> SUFFICES ASSUME NEW m \in Node, DependsOn(n, m) PROVE DependsOn(n, m)' /\ value'[m] = value[m]
        OBVIOUS
      <3>1. PICK k \in DOMAIN app.code[n] : app.code[n][k].do = "get" /\ app.code[n][k].of = m
        BY DEF SourcesAreRead
      <3>2. m \in alive'
        BY <1>3, <2>1, <3>1 DEF ReadsAlive, IsMemo
      <3>3. m \notin dead
        BY <2>1, <3>2
      <3> QED
        BY <2>1, <2>2, <2>3, <3>3
    <2> QED
      BY <2>1, <2>4, <2>5, YieldKept
  <1> QED
    BY <1>4, <1>5

LEMMA MemosYieldStep ==
  ASSUME TypeInv, CallsInv, MarksInv, RunsFromSources, SourcesAreRead, ReadsAlive', MemosYield,
         [Next]_vars
  PROVE  MemosYield'
  <1>0. /\ StoreType /\ StackType(stack, depth) /\ LinksAgree /\ Shape(app, stack, observer)
        /\ stack \in Seq(TypedFrame) /\ Top = Head(stack) /\ Below = Tail(stack) /\ app' = app
        /\ app \in App /\ state \in [Node -> NodeState]
    BY TypeInvParts, LinksOKStep DEF CallsInv, StoreType, StackType, Top, Below
  <1>1. SUFFICES ASSUME NEW n \in Node, IsMemo(n), Settled(n)'
        PROVE  Yields(app, n, SourcesOf(n)', value', value'[n])
    BY <1>0 DEF MemosYield, IsMemo
  <1> DEFINE G == Yields(app, n, SourcesOf(n)', value', value'[n])
  <1>2. SUFFICES G
    OBVIOUS
  <1> HIDE DEF G
  <1>3. ASSUME Settled(n), UNCHANGED value, \A m \in Node : DependsOn(n, m) => DependsOn(n, m)'
        PROVE  G
    BY <1>0, <1>1, <1>3, YieldKept DEF G
  <1>4. CASE Return
    BY <1>1, <1>4, YieldReturn DEF G
  <1>5. CASE Set
    BY <1>1, <1>5, YieldSet DEF G
  <1>6. CASE BuildBranch \/ DisposeNodes
    BY <1>1, <1>6, YieldNodes DEF G
  <1>7. CASE Notify
    <2> DEFINE k == Head(agenda).node
               mk == Head(agenda).mark
    <2>1. /\ k \in Node /\ mk \in {"Check", "Dirty"} /\ UNCHANGED <<value, links, ready, alive, stack>>
          /\ \A j, m : Asked(agenda, j, m) <=> (j = k /\ m = mk) \/ Asked(Tail(agenda), j, m)
          /\ Rank[state[k]] >= Rank[mk] =>
               UNCHANGED state /\ \A j, m : Asked(agenda', j, m) <=> Asked(Tail(agenda), j, m)
          /\ ~(Rank[state[k]] >= Rank[mk]) =>
               /\ state' = [state EXCEPT ![k] = mk]
               /\ \A j, m : Asked(agenda', j, m) <=>
                    (Contains(observers[k], j) /\ m = "Check") \/ Asked(Tail(agenda), j, m)
      BY <1>0, <1>7, NotifyAsks
    <2> HIDE DEF k, mk
    <2>2. Rank["Clean"] = 0 /\ Rank["Check"] = 1 /\ Rank["Dirty"] = 2
      BY DEF Rank
    <2>3. state[n] \in {"Clean", "Check", "Dirty"}
      BY <1>0 DEF NodeState
    <2>4. \A m \in Node : DependsOn(n, m) => DependsOn(n, m)'
      BY <2>1 DEF DependsOn, links
    <2>5. ASSUME state'[n] # "Dirty", ~Asked(agenda', n, "Dirty")
          PROVE  state[n] # "Dirty" /\ ~Asked(agenda, n, "Dirty")
      <3>1. CASE Rank[state[k]] >= Rank[mk]
        <4>1. mk = "Dirty" => state[k] = "Dirty"
          <5>1. state[k] \in {"Clean", "Check", "Dirty"}
            BY <1>0, <2>1 DEF NodeState
          <5> QED
            BY <2>2, <3>1, <5>1
        <4> QED
          BY <2>1, <2>5, <3>1, <4>1
      <3>2. CASE ~(Rank[state[k]] >= Rank[mk])
        <4>1. state'[n] = IF n = k THEN mk ELSE state[n]
          BY <1>0, <2>1, <3>2
        <4>2. state[k] # "Dirty"
          BY <2>1, <2>2, <3>2
        <4> QED
          BY <2>1, <2>5, <3>2, <4>1, <4>2
      <3> QED
        BY <3>1, <3>2
    <2>6. Settled(n)
      BY <1>1, <2>1, <2>5 DEF Settled
    <2> QED
      BY <1>3, <2>1, <2>4, <2>6
  <1>8. CASE CheckPassed \/ Settle
    <2>1. /\ stack # <<>> /\ Top.of \in Node /\ UNCHANGED <<value, sources, ready, alive, agenda>>
          /\ agenda = <<>> /\ state' = [state EXCEPT ![Top.of] = "Clean"]
          /\ Top.op = "settle" \/ state[Top.of] # "Dirty"
          /\ Top.op \in {"visit", "settle"}
      BY <1>0, <1>8, TopFacts, FrameFields DEF CheckPassed, Settle, At, links
    <2>2. \A op, j : Called(stack, op, j) <=> Called(stack', op, j) \/ (Top.op = op /\ Top.of = j)
      BY <1>0, <1>8, PopWork
    <2>3. state'[n] # state[n] => n = Top.of
      BY <1>0, <2>1
    <2>4. Settled(n)
      BY <1>1, <2>1, <2>2, <2>3, EmptyAgenda DEF Settled
    <2> QED
      BY <1>3, <2>1, <2>4 DEF DependsOn
  <1>9. CASE Update
    <2>1. /\ stack # <<>> /\ Top.of \in Node /\ Unlinked(Top.of)
          /\ UNCHANGED <<value, alive, agenda, state>> /\ ready' \subseteq ready
          /\ Top.of \notin ready'
      BY <1>0, <1>9, TopFacts, FrameFields DEF Update, At
    <2>2. n # Top.of
      BY <1>1, <2>1 DEF Settled
    <2>3. Called(stack', "settle", n) => Called(stack, "settle", n)
      <3>1. /\ \A op, j : Called(stack, op, j) <=> Called(Below, op, j) \/ (op = "visit" /\ Top.of = j)
            /\ \A op, j : Called(stack', op, j) <=>
                 \/ Called(Below, op, j)
                 \/ op = "settle" /\ j = Top.of
                 \/ op = "run" /\ j = Top.of /\ Top.of \in ready
        BY <1>0, <1>9, UpdateWork
      <3> QED
        BY <2>2, <3>1
    <2>4. Settled(n)
      BY <1>1, <2>1, <2>3 DEF Settled
    <2>5. \A m \in Node : DependsOn(n, m)' <=> DependsOn(n, m)
      BY <1>0, <2>1, <2>2, UnlinkedLinks
    <2> QED
      BY <1>3, <2>1, <2>4, <2>5
  <1>10. CASE GetStale \/ Get
    <2>1. Linked(Arg) /\ Doing("get") /\ UNCHANGED <<value, alive, agenda, state, ready>>
      BY <1>10 DEF GetStale, Get
    <2>2. Arg \in Node
      BY <1>0, <2>1, Reads
    <2>3. \A m \in Node : DependsOn(n, m) => DependsOn(n, m)'
      BY <1>0, <2>1, <2>2, LinkedLinks
    <2>4. Called(stack', "settle", n) <=> Called(stack, "settle", n)
      BY <1>0, <1>10, <2>2, MovedWork, GetStaleWork DEF SameWork, Visits, Working
    <2>5. Settled(n)
      BY <1>1, <2>1, <2>4 DEF Settled
    <2> QED
      BY <1>3, <2>1, <2>3, <2>5
  <1>11. CASE Mount
    <2>1. /\ Arg \in Node /\ IsEffect(Arg)
          /\ \A op \in Working : \A j : Called(stack', op, j) <=>
               Called(stack, op, j) \/ (op = "visit" /\ j = Arg)
      BY <1>0, <1>11, MountWork
    <2>2. n # Arg
      BY <1>1, <2>1 DEF IsMemo, IsEffect
    <2>3. /\ alive' = alive \cup {Arg} /\ ready' = ready \cup {Arg}
          /\ state' = [state EXCEPT ![Arg] = "Dirty"] /\ UNCHANGED <<value, sources, agenda>>
      BY <1>11 DEF Mount, links
    <2>4. state'[n] = state[n] /\ (Called(stack', "settle", n) <=> Called(stack, "settle", n))
      BY <1>0, <2>1, <2>2, <2>3 DEF Working
    <2>5. Settled(n)
      BY <1>1, <2>2, <2>3, <2>4 DEF Settled
    <2> QED
      BY <1>3, <2>3, <2>5 DEF DependsOn
  <1>12. CASE CheckSource \/ FlushRun
    <2>1. UNCHANGED <<value, sources, ready, alive, agenda, state>>
      BY <1>12 DEF CheckSource, FlushRun, OnlyTheStack, graph, links
    <2>2. Called(stack', "settle", n) <=> Called(stack, "settle", n)
      BY <1>0, <1>12, CheckSourceWork, FlushRunWork DEF SameWork, Visits, Working
    <2>3. Settled(n)
      BY <1>1, <2>1, <2>2 DEF Settled
    <2> QED
      BY <1>3, <2>1, <2>3 DEF DependsOn
  <1>13. CASE FlushTake \/ FlushDone \/ Peek \/ BuildMounted \/ Jump \/ HandlerReturns
              \/ Dispose \/ DisposeChild \/ TakeCleanups \/ RunCleanup \/ Event
    <2>1. UNCHANGED <<value, sources, ready, alive, agenda, state>>
      BY <1>13 DEF FlushTake, FlushDone, Peek, BuildMounted, Jump, HandlerReturns, Dispose,
         DisposeChild, TakeCleanups, RunCleanup, CallDispose, Event, Dispatch, OnlyTheStack,
         graph, links
    <2>2. Called(stack', "settle", n) <=> Called(stack, "settle", n)
      BY <1>0, <1>13, QuietWork, MovedWork, DisposeWork DEF SameWork, Working
    <2>3. Settled(n)
      BY <1>1, <2>1, <2>2 DEF Settled
    <2> QED
      BY <1>3, <2>1, <2>3 DEF DependsOn
  <1>14. CASE Rest \/ UNCHANGED vars
    <2>1. UNCHANGED <<value, sources, ready, alive, agenda, state, stack>>
      BY <1>14 DEF Rest, vars, graph, links
    <2>2. Settled(n)
      BY <1>1, <2>1 DEF Settled
    <2> QED
      BY <1>3, <2>1, <2>2 DEF DependsOn
  <1> QED
    BY <1>4, <1>5, <1>6, <1>7, <1>8, <1>9, <1>10, <1>11, <1>12, <1>13, <1>14 DEF Next, Step

LEMMA ValuesInit == Init => SourcesAreRead /\ RunsFromSources /\ MemosYield
  <1> SUFFICES ASSUME Init PROVE SourcesAreRead /\ RunsFromSources /\ MemosYield
    OBVIOUS
  <1>1. \A n, m \in Node : ~DependsOn(n, m)
    <2>1. sources = [n \in Node |-> <<>>]
      BY DEF Init
    <2> QED
      BY <2>1, NothingListed DEF DependsOn
  <1>2. \A n \in Node : IsMemo(n) => ~Settled(n)
    <2>1. \A n \in Node : IsMemo(n) => state[n] = "Dirty"
      BY DEF Init, IsMemo, IsSignal
    <2>2. \A n : ~Called(stack, "settle", n)
      <3>1. Len(stack) = 1 /\ stack[1].op = "handler"
        BY DEF Init, NewFrame
      <3> QED
        BY <3>1 DEF Called
    <2> QED
      BY <2>1, <2>2 DEF Settled
  <1> QED
    BY <1>1, <1>2, RunsFromSourcesInit DEF SourcesAreRead, MemosYield

\* Down the graph: a Clean memo's sources are Clean and hold their results.
LEMMA CleanMemos ==
  ASSUME TypeInv, CallsInv, MarksInv, SourcesAreRead, MemosYield, ReadsAlive
  PROVE  CleanMemoIsCorrect
  <1>0. /\ StoreType /\ app \in App /\ LinksOK /\ CallMarks /\ MemosReady /\ StaleIsMarked
        /\ app.order \in [Node -> Nat]
    BY TypeInvParts, AppAssumption DEF CallsInv, MarksInv, StoreType
  <1>1. SUFFICES ASSUME agenda = <<>>
        PROVE  \A n \in Node : n \in alive /\ IsMemo(n) /\ state[n] = "Clean" =>
                 value[n] = Result[Point(n, 1, 0)]
    BY <1>0 DEF CleanMemoIsCorrect, FreshResult, StoreType
  <1> DEFINE Good(n) == n \in alive /\ IsMemo(n) /\ state[n] = "Clean" =>
                          value[n] = Result[Point(n, 1, 0)]
             S == {k \in Nat : \A n \in Node : app.order[n] < k => Good(n)}
  <1>2. 0 \in S
    BY <1>0
  <1>3. ASSUME NEW k \in Nat, k \in S PROVE k + 1 \in S
    <2>1. SUFFICES ASSUME NEW n \in Node, app.order[n] = k, n \in alive, IsMemo(n),
                          state[n] = "Clean"
                   PROVE  value[n] = Result[Point(n, 1, 0)]
      BY <1>0, <1>3
    <2>2. Settled(n)
      <3>1. ~Called(stack, "run", n)
        BY <1>0, <2>1 DEF CallMarks
      <3>2. n \in ready
        BY <1>0, <2>1, <3>1 DEF MemosReady
      <3> QED
        BY <1>1, <2>1, <3>2, EmptyAgenda DEF Settled
    <2> DEFINE v == [m \in Node |-> IF IsSignal(m) THEN value[m] ELSE Result[Point(m, 1, 0)]]
    <2>3. Solves(app, n, v, Result)
      BY <1>0, <2>1, ResultSolves
    <2>4. ASSUME NEW m \in Node, DependsOn(n, m) PROVE v[m] = value[m]
      <3>1. CASE IsSignal(m)
        BY <3>1
      <3>2. CASE ~IsSignal(m)
        <4>1. IsMemo(m) /\ app.order[m] < k
          <5>1. ~IsEffect(m) /\ app.order[m] < k
            BY <1>0, <2>1, <2>4 DEF LinksOK
          <5>2. app.kind[m] \in {"signal", "memo", "effect"}
            BY <1>0, AppAssumption
          <5> QED
            BY <3>2, <5>1, <5>2 DEF IsMemo, IsSignal, IsEffect
        <4>2. m \in alive
          BY <2>1, <2>4 DEF SourcesAreRead, ReadsAlive
        <4>3. state[m] = "Clean"
          BY <1>0, <1>1, <2>1, <2>4, EmptyAgenda DEF StaleIsMarked, Marked
        <4> QED
          BY <1>3, <3>2, <4>1, <4>2, <4>3
      <3> QED
        BY <3>1, <3>2
    <2> HIDE DEF v
    <2>5. Agree(SourcesOf(n), v, value)
      BY <2>4 DEF Agree, SourcesOf
    <2> QED
      BY <2>1, <2>2, <2>3, <2>5 DEF MemosYield, Yields
  <1> HIDE DEF S
  <1>4. Nat \subseteq S
    BY <1>2, <1>3, NatSetInduction
  <1>5. ASSUME NEW n \in Node PROVE Good(n)
    <2>1. app.order[n] + 1 \in S /\ app.order[n] < app.order[n] + 1
      BY <1>0, <1>4
    <2> QED
      BY <2>1 DEF S
  <1> QED
    BY <1>5

\* Whenever no mark is in flight, a memo marked Clean holds what its code would
\* return from the current signals, whatever was written, pulled, built and
\* disposed before, as long as the memos that exist read nodes that exist: no
\* reader sees a mixture of old and new inputs.
THEOREM ReactiveMemosAreCorrect == Spec /\ []ReadsAlive => []CleanMemoIsCorrect
  <1> DEFINE Inv == SourcesAreRead /\ RunsFromSources /\ MemosYield
  <1>1. Init => Inv
    BY ValuesInit
  <1>2. TypeInv /\ CallsInv /\ MarksInv /\ ReadsAlive' /\ Inv /\ [Next]_vars => Inv'
    BY SourcesAreReadStep, RunsFromSourcesStep, MemosYieldStep
  <1>3. TypeInv /\ CallsInv /\ MarksInv /\ ReadsAlive /\ Inv => CleanMemoIsCorrect
    BY CleanMemos
  <1> QED
    BY <1>1, <1>2, <1>3, TypeInvHolds, ReactiveCalls, ReactiveMarks, PTL DEF Spec
=============================================================================
