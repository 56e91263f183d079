------------------------ MODULE DynamicBlocksProofs ------------------------
(* Proofs about DynamicBlocks, for every template, every set of lists and   *)
(* any number of batches, clicks and elements.                              *)
EXTENDS DynamicBlocks, TLAPS, WellFoundedInduction, SequenceTheorems,
        FiniteSetTheorems

-----------------------------------------------------------------------------
(* Recursion along a list. *)

\* A set of numbers that holds 0 and every successor holds every number.
LEMMA NatSetInduction ==
  ASSUME NEW S, 0 \in S, \A n \in Nat : n \in S => n + 1 \in S
  PROVE  Nat \subseteq S
  <1> DEFINE Missing == {n \in Nat : n \notin S}
  <1>1. ASSUME Missing # {} PROVE FALSE
    <2>1. Missing \subseteq Nat /\ Missing # {}
      BY <1>1
    <2>2. \A n \in Missing : n \in Nat /\ n \notin S /\ n # 0
      OBVIOUS
    <2>3. \A n \in Nat : n \notin S => n \in Missing
      OBVIOUS
    <2> HIDE DEF Missing
    <2>4. PICK x \in Missing : \A y \in Missing : ~(<<y, x>> \in OpToRel(<, Nat))
      BY <2>1, NatLessThanWellFounded, WFMin
    <2>5. \A y \in Missing : ~(y < x)
      BY <2>2, <2>4 DEF OpToRel
    <2>6. x - 1 \in Nat /\ x - 1 < x /\ (x - 1) + 1 = x
      BY <2>2
    <2>7. x - 1 \in Missing
      BY <2>2, <2>3, <2>6
    <2> QED
      BY <2>5, <2>6, <2>7
  <1> QED
    BY <1>1

\* What holds at 0 and is handed on from each position to the next holds at
\* every position of a list.
LEMMA AlongList ==
  ASSUME NEW n \in Nat, NEW S, 0 \in S,
         \A i \in 1..n : i - 1 \in S => i \in S
  PROVE  0..n \subseteq S
  <1> DEFINE R == {i \in Nat : i \in 0..n => i \in S}
  <1>1. 0 \in R
    OBVIOUS
  <1>2. ASSUME NEW i \in Nat, i \in R PROVE i + 1 \in R
    <2>1. CASE i + 1 \in 0..n
      <3>1. i \in 0..n /\ i + 1 \in 1..n /\ (i + 1) - 1 = i
        BY <2>1
      <3> QED
        BY <1>2, <3>1
    <2> QED
      BY <2>1
  <1> HIDE DEF R
  <1>3. Nat \subseteq R
    BY <1>1, <1>2, NatSetInduction
  <1> QED
    BY <1>3 DEF R

LEMMA OnlyOne ==
  ASSUME NEW n \in Nat, n <= 1, n # 0
  PROVE  n = 1
  OBVIOUS

\* f[i] is what n steps have made of base after i of them.
IsStep(S, n, step) == step \in [1..n -> [S -> S]]
Steps(f, S, n, step, base) ==
  /\ f \in [0..n -> S] /\ f[0] = base
  /\ \A i \in 1..n : f[i] = step[i][f[i - 1]]

\* Going through a list, one element after the other, defines a function.
LEMMA RecursionExists ==
  ASSUME NEW S, NEW base \in S, NEW n \in Nat, NEW step, IsStep(S, n, step)
  PROVE  \E f : Steps(f, S, n, step, base)
  <1>0. step \in [1..n -> [S -> S]]
    BY DEF IsStep
  <1> DEFINE Upto(f, k) ==
               /\ f[0] = base
               /\ \A i \in 1..k : f[i] = step[i][f[i - 1]]
             Reached == {k \in 0..n : \E f \in [0..k -> S] : Upto(f, k)}
  <1>1. 0 \in Reached
    <2> DEFINE f == [i \in 0..0 |-> base]
    <2>1. f \in [0..0 -> S] /\ Upto(f, 0)
      OBVIOUS
    <2> HIDE DEF f, Upto
    <2> QED
      BY <2>1
  <1>2. ASSUME NEW k \in 1..n, k - 1 \in Reached PROVE k \in Reached
    <2>1. PICK f \in [0..(k - 1) -> S] : Upto(f, k - 1)
      BY <1>2
    <2> DEFINE g == [i \in 0..k |-> IF i = k THEN step[k][f[k - 1]] ELSE f[i]]
    <2>2. f[k - 1] \in S
      OBVIOUS
    <2>3. step[k][f[k - 1]] \in S
      BY <1>0, <2>2
    <2>4. g \in [0..k -> S]
      BY <2>3
    <2>5. \A i \in 0..(k - 1) : g[i] = f[i]
      OBVIOUS
    <2>6. g[k] = step[k][g[k - 1]]
      <3>1. g[k] = step[k][f[k - 1]] /\ k - 1 \in 0..(k - 1)
        OBVIOUS
      <3> HIDE DEF g
      <3> QED
        BY <2>5, <3>1
    <2>7. \A i \in 1..(k - 1) : g[i] = step[i][g[i - 1]]
      <3>1. \A i \in 1..(k - 1) : i \in 0..(k - 1) /\ i - 1 \in 0..(k - 1)
        OBVIOUS
      <3> HIDE DEF g
      <3> QED
        BY <2>1, <2>5, <3>1
    <2>8. g[0] = base
      BY <2>1
    <2> HIDE DEF g
    <2>9. Upto(g, k)
      <3>1. \A i \in 1..k : i = k \/ i \in 1..(k - 1)
        OBVIOUS
      <3> QED
        BY <2>6, <2>7, <2>8, <3>1
    <2> QED
      BY <2>4, <2>9
  <1> HIDE DEF Reached
  <1>3. 0..n \subseteq Reached
    BY <1>1, <1>2, AlongList
  <1>4. PICK f \in [0..n -> S] : Upto(f, n)
    <2>1. n \in 0..n
      OBVIOUS
    <2> QED
      BY <1>3, <2>1 DEF Reached
  <1> QED
    BY <1>4 DEF Steps

-----------------------------------------------------------------------------
(* What the recursive functions of the specification compute. *)

LEMMA ConcatEntries ==
  ASSUME NEW T, NEW s \in Seq(T), NEW t \in Seq(T)
  PROVE  \A x : Contains(s \o t, x) <=> Contains(s, x) \/ Contains(t, x)
  <1>1. /\ Len(s) \in Nat /\ Len(t) \in Nat /\ Len(s \o t) = Len(s) + Len(t)
        /\ \A i \in 1..Len(s) + Len(t) :
             (s \o t)[i] = IF i <= Len(s) THEN s[i] ELSE t[i - Len(s)]
    BY ConcatProperties, LenProperties
  <1>2. ASSUME NEW x, Contains(s \o t, x) PROVE Contains(s, x) \/ Contains(t, x)
    <2>1. PICK i \in 1..Len(s) + Len(t) : (s \o t)[i] = x
      BY <1>1, <1>2 DEF Contains
    <2>2. i <= Len(s) => i \in 1..Len(s)
      BY <1>1
    <2>3. ~(i <= Len(s)) => i - Len(s) \in 1..Len(t)
      BY <1>1
    <2> QED
      BY <1>1, <2>1, <2>2, <2>3 DEF Contains
  <1>3. ASSUME NEW x, Contains(s, x) PROVE Contains(s \o t, x)
    <2>1. PICK i \in 1..Len(s) : s[i] = x
      BY <1>3 DEF Contains
    <2>2. i \in 1..Len(s) + Len(t) /\ i <= Len(s)
      BY <1>1
    <2> QED
      BY <1>1, <2>1, <2>2 DEF Contains
  <1>4. ASSUME NEW x, Contains(t, x) PROVE Contains(s \o t, x)
    <2>1. PICK i \in 1..Len(t) : t[i] = x
      BY <1>4 DEF Contains
    <2>2. Len(s) + i \in 1..Len(s) + Len(t) /\ ~(Len(s) + i <= Len(s)) /\ (Len(s) + i) - Len(s) = i
      BY <1>1
    <2> QED
      BY <1>1, <2>1, <2>2 DEF Contains
  <1> QED
    BY <1>2, <1>3, <1>4

\* FlattenSeq joins one list after the other.
LEMMA FlattenSteps ==
  ASSUME NEW T, NEW ss \in Seq(Seq(T))
  PROVE  \E f \in [0..Len(ss) -> Seq(T)] :
           /\ f[0] = <<>> /\ f[Len(ss)] = FlattenSeq(ss)
           /\ \A i \in 1..Len(ss) : f[i] = f[i - 1] \o ss[i]
  <1> DEFINE n == Len(ss)
             Def(f) == f = [i \in 1..n |-> IF i = 1 THEN ss[i] ELSE f[i - 1] \o ss[i]]
             step == [i \in 1..n |-> [x \in Seq(T) |-> x \o ss[i]]]
  <1>1. n = Len(ss) /\ n \in Nat /\ \A i \in 1..n : ss[i] \in Seq(T)
    OBVIOUS
  <1>a. n = 0 => ss = <<>>
    OBVIOUS
  <1> HIDE DEF n
  <1>2. step \in [1..n -> [Seq(T) -> Seq(T)]]
    BY <1>1
  <1>3. \A i \in 1..n, x \in Seq(T) : step[i][x] = x \o ss[i]
    OBVIOUS
  <1>4. <<>> \in Seq(T)
    OBVIOUS
  <1>0. CASE n = 0
    <2> DEFINE f == [i \in 0..0 |-> <<>>]
    <2>1. FlattenSeq(ss) = <<>>
      BY <1>0, <1>1, <1>a DEF FlattenSeq
    <2>2. f \in [0..0 -> Seq(T)] /\ f[0] = <<>>
      BY <1>4
    <2> HIDE DEF f
    <2>3. \A i \in 1..0 : f[i] = f[i - 1] \o ss[i]
      OBVIOUS
    <2> QED
      BY <1>0, <1>1, <2>1, <2>2, <2>3
  <1>5. CASE n # 0
    <2> HIDE DEF step
    <2>0. IsStep(Seq(T), n, step)
      BY <1>2 DEF IsStep
    <2>a. PICK f : Steps(f, Seq(T), n, step, <<>>)
      BY <1>1, <1>4, <2>0, RecursionExists
    <2>1. f \in [0..n -> Seq(T)] /\ f[0] = <<>> /\ \A i \in 1..n : f[i] = step[i][f[i - 1]]
      BY <2>a DEF Steps
    <2>2. f[0] = <<>> /\ \A i \in 1..n : f[i] = f[i - 1] \o ss[i]
      <3>1. \A i \in 1..n : i \in 0..n /\ i # 0 /\ i - 1 \in 0..n
        BY <1>1
      <3>2. \A i \in 1..n : f[i] = step[i][f[i - 1]] /\ f[i - 1] \in Seq(T)
        BY <2>1, <3>1
      <3> QED
        BY <1>3, <2>1, <3>2
    <2>3. f[1] = ss[1]
      <3>1. 1 \in 1..n /\ ss[1] \in Seq(T)
        BY <1>1, <1>5
      <3>2. f[1] = f[0] \o ss[1]
        <4>1. 1 - 1 = 0
          OBVIOUS
        <4> QED
          BY <2>2, <3>1, <4>1
      <3>3. <<>> \o ss[1] = ss[1]
        BY <3>1, ConcatEmptySeq
      <3> QED
        BY <2>2, <3>2, <3>3
    <2> DEFINE g == [i \in 1..n |-> f[i]]
    <2>4. Def(g)
      <3>1. \A i \in 1..n : i = 1 \/ i - 1 \in 1..n
        BY <1>1
      <3>2. \A i \in 1..n : g[i] = IF i = 1 THEN ss[i] ELSE g[i - 1] \o ss[i]
        BY <2>2, <2>3, <3>1
      <3>3. g = [i \in 1..n |-> g[i]]
        OBVIOUS
      <3> HIDE DEF g
      <3> QED
        BY <3>2, <3>3
    <2> DEFINE h == CHOOSE h : Def(h)
    <2>5. Def(h)
      <3> HIDE DEF g, Def
      <3> QED
        BY <2>4
    <2>6. FlattenSeq(ss) = h[n]
      BY <1>1, <1>5 DEF FlattenSeq
    <2>7. \A i \in 1..n : h[i] = IF i = 1 THEN ss[i] ELSE h[i - 1] \o ss[i]
      <3> HIDE DEF h
      <3> QED
        BY <2>5
    <2> HIDE DEF h
    <2> DEFINE S == {i \in 0..n : i # 0 => h[i] = f[i]}
    <2>8. 0 \in S
      BY <1>1
    <2>9. ASSUME NEW i \in 1..n, i - 1 \in S PROVE i \in S
      <3>1. i \in 0..n /\ (i # 1 => i - 1 # 0)
        BY <1>1
      <3>2. i # 1 => h[i - 1] = f[i - 1]
        BY <2>9, <3>1
      <3>3. h[i] = f[i]
        BY <2>2, <2>3, <2>7, <3>2
      <3> QED
        BY <3>1, <3>3
    <2> HIDE DEF S
    <2>10. n \in S
      <3>1. 0..n \subseteq S
        BY <1>1, <2>8, <2>9, AlongList
      <3> QED
        BY <1>1, <3>1
    <2>11. h[n] = f[n]
      BY <1>5, <2>10 DEF S
    <2> QED
      BY <1>1, <2>1, <2>2, <2>6, <2>11
  <1> QED
    BY <1>0, <1>5

LEMMA FlattenEntries ==
  ASSUME NEW T, NEW ss \in Seq(Seq(T))
  PROVE  /\ FlattenSeq(ss) \in Seq(T)
         /\ \A x : Contains(FlattenSeq(ss), x) <=>
                     \E i \in 1..Len(ss) : Contains(ss[i], x)
  <1>1. PICK f \in [0..Len(ss) -> Seq(T)] :
          /\ f[0] = <<>> /\ f[Len(ss)] = FlattenSeq(ss)
          /\ \A i \in 1..Len(ss) : f[i] = f[i - 1] \o ss[i]
    BY FlattenSteps
  <1> DEFINE S == {i \in 0..Len(ss) :
                     \A x : Contains(f[i], x) <=> \E j \in 1..i : Contains(ss[j], x)}
  <1>2. 0 \in S
    BY <1>1 DEF Contains
  <1>3. ASSUME NEW i \in 1..Len(ss), i - 1 \in S PROVE i \in S
    <2>0. i - 1 \in 0..Len(ss)
      OBVIOUS
    <2>1. f[i] = f[i - 1] \o ss[i] /\ f[i - 1] \in Seq(T) /\ ss[i] \in Seq(T)
      <3>1. ss[i] \in Seq(T)
        BY ElementOfSeq
      <3> QED
        BY <1>1, <2>0, <3>1
    <2>2. \A x : Contains(f[i], x) <=> Contains(f[i - 1], x) \/ Contains(ss[i], x)
      BY <2>1, ConcatEntries
    <2>3. \A x : Contains(f[i - 1], x) <=> \E j \in 1..(i - 1) : Contains(ss[j], x)
      BY <1>3
    <2>4. \A j : j \in 1..i <=> j \in 1..(i - 1) \/ j = i
      OBVIOUS
    <2>5. i \in 0..Len(ss)
      OBVIOUS
    <2> QED
      BY <2>2, <2>3, <2>4, <2>5
  <1> HIDE DEF S
  <1>4. 0..Len(ss) \subseteq S /\ Len(ss) \in 0..Len(ss)
    <2>1. Len(ss) \in Nat /\ Len(ss) \in 0..Len(ss)
      OBVIOUS
    <2> QED
      BY <1>2, <1>3, <2>1, AlongList
  <1> QED
    BY <1>1, <1>4 DEF S

\* Detach keeps the other elements, in their order.
Detaching(f, s, el) ==
  /\ f[0] = <<>> /\ f[Len(s)] = Detach(s, el)
  /\ \A i \in 1..Len(s) : f[i] = IF s[i] = el THEN f[i - 1] ELSE Append(f[i - 1], s[i])

LEMMA DetachSteps ==
  ASSUME NEW T, NEW s \in Seq(T), NEW el
  PROVE  \E f \in [0..Len(s) -> Seq(T)] : Detaching(f, s, el)
  <1> DEFINE n == Len(s)
             Next1(i, x) == IF s[i] = el THEN x ELSE Append(x, s[i])
             Def(f) == f = [i \in 0..n |-> IF i = 0 THEN <<>>
                                           ELSE IF s[i] = el THEN f[i - 1]
                                           ELSE Append(f[i - 1], s[i])]
             step == [i \in 1..n |-> [x \in Seq(T) |-> Next1(i, x)]]
             h == CHOOSE h : Def(h)
  <1>1. n = Len(s) /\ n \in Nat /\ (\A i \in 1..n : s[i] \in T) /\ <<>> \in Seq(T)
    OBVIOUS
  <1>2. Detach(s, el) = h[n]
    BY DEF Detach
  <1> HIDE DEF n
  <1>3. IsStep(Seq(T), n, step)
    BY <1>1 DEF IsStep
  <1>4. \A i \in 1..n, x \in Seq(T) : step[i][x] = Next1(i, x)
    OBVIOUS
  <1> HIDE DEF step, h
  <1>5. PICK f : Steps(f, Seq(T), n, step, <<>>)
    BY <1>1, <1>3, RecursionExists
  <1>6. f \in [0..n -> Seq(T)] /\ f[0] = <<>> /\ \A i \in 1..n : f[i] = step[i][f[i - 1]]
    BY <1>5 DEF Steps
  <1>7. \A i \in 1..n : f[i] = Next1(i, f[i - 1])
    <2>1. \A i \in 1..n : i - 1 \in 0..n
      BY <1>1
    <2>2. \A i \in 1..n : f[i - 1] \in Seq(T)
      BY <1>6, <2>1
    <2> HIDE DEF Next1
    <2> QED
      BY <1>4, <1>6, <2>2
  <1>8. Def(f)
    <2>1. \A i \in 0..n : i # 0 => i \in 1..n
      BY <1>1
    <2>2. \A i \in 0..n : f[i] = IF i = 0 THEN <<>>
                                 ELSE IF s[i] = el THEN f[i - 1]
                                 ELSE Append(f[i - 1], s[i])
      BY <1>6, <1>7, <2>1
    <2>3. f = [i \in 0..n |-> f[i]]
      BY <1>6
    <2> QED
      BY <2>2, <2>3
  <1>9. Def(h)
    <2> HIDE DEF Def
    <2> QED
      BY <1>8 DEF h
  <1>10. h[0] = <<>> /\ \A i \in 1..n : h[i] = Next1(i, h[i - 1])
    <2>1. 0 \in 0..n /\ \A i \in 1..n : i \in 0..n /\ i # 0
      BY <1>1
    <2> QED
      BY <1>9, <2>1
  <1>11. h \in [0..n -> Seq(T)]
    <2> DEFINE S == {i \in 0..n : h[i] \in Seq(T)}
    <2>1. 0 \in S
      <3>1. 0 \in 0..n /\ h[0] \in Seq(T)
        BY <1>1, <1>10
      <3> QED
        BY <3>1
    <2>2. ASSUME NEW i \in 1..n, i - 1 \in S PROVE i \in S
      <3>1. i \in 0..n /\ h[i - 1] \in Seq(T) /\ s[i] \in T
        BY <1>1, <2>2
      <3>2. h[i] = h[i - 1] \/ h[i] = Append(h[i - 1], s[i])
        BY <1>10
      <3>3. h[i] \in Seq(T)
        <4>1. \A x \in Seq(T), y \in T : Append(x, y) \in Seq(T)
          OBVIOUS
        <4> QED
          BY <3>1, <3>2, <4>1
      <3> QED
        BY <3>1, <3>3
    <2> HIDE DEF S
    <2>3. 0..n \subseteq S
      BY <1>1, <2>1, <2>2, AlongList
    <2>4. \A i \in 0..n : h[i] \in Seq(T)
      BY <2>3 DEF S
    <2>5. h = [i \in 0..n |-> h[i]]
      <3>1. h = [i \in 0..n |-> IF i = 0 THEN <<>>
                                           ELSE IF s[i] = el THEN h[i - 1]
                                           ELSE Append(h[i - 1], s[i])]
        BY <1>9
      <3> QED
        BY <3>1
    <2> QED
      BY <2>4, <2>5
  <1> QED
    BY <1>1, <1>2, <1>10, <1>11 DEF Detaching

LEMMA AppendEntries ==
  ASSUME NEW T, NEW s \in Seq(T), NEW x \in T
  PROVE  /\ \A y : Contains(Append(s, x), y) <=> Contains(s, y) \/ y = x
         /\ IsInjective(s) /\ ~Contains(s, x) => IsInjective(Append(s, x))
  <1>1. /\ Len(Append(s, x)) = Len(s) + 1 /\ Len(s) \in Nat
        /\ DOMAIN s = 1..Len(s) /\ DOMAIN Append(s, x) = 1..Len(s) + 1
        /\ Append(s, x)[Len(s) + 1] = x
        /\ \A i \in 1..Len(s) : Append(s, x)[i] = s[i]
    OBVIOUS
  <1>2. \A i : i \in 1..Len(s) + 1 <=> i \in 1..Len(s) \/ i = Len(s) + 1
    BY <1>1
  <1>3. \A y : Contains(Append(s, x), y) <=> Contains(s, y) \/ y = x
    BY <1>1, <1>2 DEF Contains
  <1>4. ASSUME IsInjective(s), ~Contains(s, x) PROVE IsInjective(Append(s, x))
    BY <1>1, <1>2, <1>4 DEF Contains, IsInjective
  <1> QED
    BY <1>3, <1>4

LEMMA DetachList ==
  ASSUME NEW T, NEW s \in Seq(T), NEW el
  PROVE  /\ Detach(s, el) \in Seq(T)
         /\ \A x : Contains(Detach(s, el), x) <=> Contains(s, x) /\ x # el
         /\ IsInjective(s) => IsInjective(Detach(s, el))
  <1>1. PICK f \in [0..Len(s) -> Seq(T)] : Detaching(f, s, el)
    BY DetachSteps
  <1>2. /\ f[0] = <<>> /\ f[Len(s)] = Detach(s, el)
        /\ \A i \in 1..Len(s) : f[i] = IF s[i] = el THEN f[i - 1] ELSE Append(f[i - 1], s[i])
    BY <1>1 DEF Detaching
  <1>3. Len(s) \in Nat /\ Len(s) \in 0..Len(s) /\ DOMAIN s = 1..Len(s)
    OBVIOUS
  <1> DEFINE Holds(i) == \A x : Contains(f[i], x) <=> x # el /\ \E j \in 1..i : s[j] = x
             S == {i \in 0..Len(s) : Holds(i) /\ (IsInjective(s) => IsInjective(f[i]))}
  <1>4. 0 \in S
    BY <1>2, <1>3 DEF Contains, IsInjective
  <1>5. ASSUME NEW i \in 1..Len(s), i - 1 \in S PROVE i \in S
    <2>1. /\ i \in 0..Len(s) /\ i - 1 \in 0..Len(s) /\ f[i - 1] \in Seq(T) /\ s[i] \in T
          /\ \A j : j \in 1..i <=> j \in 1..(i - 1) \/ j = i
      <3>1. s[i] \in T
        BY ElementOfSeq
      <3>2. i \in 0..Len(s) /\ i - 1 \in 0..Len(s)
        BY <1>3
      <3>3. f[i - 1] \in Seq(T)
        BY <3>2
      <3>4. \A j : j \in 1..i <=> j \in 1..(i - 1) \/ j = i
        OBVIOUS
      <3> QED
        BY <3>1, <3>2, <3>3, <3>4
    <2>2. Holds(i - 1) /\ (IsInjective(s) => IsInjective(f[i - 1]))
      BY <1>5
    <2>3. CASE s[i] = el
      BY <1>2, <2>1, <2>2, <2>3
    <2>4. CASE s[i] # el
      <3>1. f[i] = Append(f[i - 1], s[i])
        BY <1>2, <2>4
      <3>2. Holds(i)
        BY <2>1, <2>2, <2>4, <3>1, AppendEntries
      <3>3. IsInjective(s) => ~Contains(f[i - 1], s[i])
        <4>1. \A j \in 1..(i - 1) : j \in DOMAIN s /\ i \in DOMAIN s /\ j # i
          BY <1>3
        <4> QED
          BY <2>2, <4>1 DEF IsInjective
      <3>4. IsInjective(s) => IsInjective(f[i])
        BY <2>1, <2>2, <3>1, <3>3, AppendEntries
      <3> QED
        BY <2>1, <3>2, <3>4
    <2> QED
      BY <2>3, <2>4
  <1> HIDE DEF S
  <1>6. 0..Len(s) \subseteq S
    BY <1>3, <1>4, <1>5, AlongList
  <1>7. Holds(Len(s)) /\ (IsInjective(s) => IsInjective(f[Len(s)]))
    BY <1>3, <1>6 DEF S
  <1> QED
    BY <1>2, <1>3, <1>7 DEF Contains

-----------------------------------------------------------------------------
(* Mutations of the tree. *)

Mutation ==
  [op : {"create", "text"}, el : El, text : Texts]
    \cup [op : {"attach"}, el : El, before : El \cup {NoEl}]
    \cup [op : {"remove"}, el : El]

Tree ==
  {t \in [children : Seq(El), text : UNION {[S -> Texts] : S \in SUBSET El},
          heard : SUBSET El] : t.heard \subseteq DOMAIN t.text}

\* InsertAt puts the element between the two parts of the list.
LEMMA InsertedList ==
  ASSUME NEW T, NEW s \in Seq(T), NEW i \in 1..Len(s), NEW x \in T
  PROVE  /\ InsertAt(s, i, x) \in Seq(T)
         /\ \A y : Contains(InsertAt(s, i, x), y) <=> Contains(s, y) \/ y = x
         /\ IsInjective(s) /\ ~Contains(s, x) => IsInjective(InsertAt(s, i, x))
  <1> DEFINE r == InsertAt(s, i, x)
  <1>1. Len(s) \in Nat /\ DOMAIN s = 1..Len(s) /\ \A j \in 1..Len(s) : s[j] \in T
    OBVIOUS
  <1>2. /\ SubSeq(s, 1, i - 1) \in Seq(T) /\ Len(SubSeq(s, 1, i - 1)) = i - 1
        /\ \A j \in 1..(i - 1) : SubSeq(s, 1, i - 1)[j] = s[j]
    BY <1>1
  <1>3. /\ SubSeq(s, i, Len(s)) \in Seq(T) /\ Len(SubSeq(s, i, Len(s))) = Len(s) - i + 1
        /\ \A j \in 1..(Len(s) - i + 1) : SubSeq(s, i, Len(s))[j] = s[i + j - 1]
    BY <1>1
  <1> DEFINE a == SubSeq(s, 1, i - 1)
             b == SubSeq(s, i, Len(s))
  <1>4. r = (a \o <<x>>) \o b
    BY DEF InsertAt
  <1> HIDE DEF r, a, b
  <1>5. /\ a \o <<x>> \in Seq(T) /\ Len(a \o <<x>>) = i
        /\ \A j \in 1..(i - 1) : (a \o <<x>>)[j] = s[j]
        /\ (a \o <<x>>)[i] = x
    <2>1. a \in Seq(T) /\ Len(a) = i - 1 /\ <<x>> \in Seq(T) /\ Len(<<x>>) = 1 /\ <<x>>[1] = x
      BY <1>2 DEF a
    <2>2. /\ a \o <<x>> \in Seq(T) /\ Len(a \o <<x>>) = (i - 1) + 1
          /\ \A j \in 1..((i - 1) + 1) :
               (a \o <<x>>)[j] = IF j <= i - 1 THEN a[j] ELSE <<x>>[j - (i - 1)]
      BY <2>1, ConcatProperties
    <2>3. (i - 1) + 1 = i /\ i - (i - 1) = 1 /\ i \in 1..i /\ ~(i <= i - 1)
      OBVIOUS
    <2>4. \A j \in 1..(i - 1) : j \in 1..i /\ j <= i - 1 /\ a[j] = s[j]
      BY <1>2 DEF a
    <2> QED
      BY <2>1, <2>2, <2>3, <2>4
  <1>6. /\ r \in Seq(T) /\ Len(r) = Len(s) + 1
        /\ \A j \in 1..(Len(s) + 1) :
             r[j] = IF j < i THEN s[j] ELSE IF j = i THEN x ELSE s[j - 1]
    <2>1. b \in Seq(T) /\ Len(b) = Len(s) - i + 1
          /\ \A j \in 1..(Len(s) - i + 1) : b[j] = s[i + j - 1]
      BY <1>3 DEF b
    <2>2. /\ r \in Seq(T) /\ Len(r) = i + (Len(s) - i + 1)
          /\ \A j \in 1..(i + (Len(s) - i + 1)) :
               r[j] = IF j <= i THEN (a \o <<x>>)[j] ELSE b[j - i]
      <3> DEFINE c == a \o <<x>>
      <3>1. c \in Seq(T) /\ Len(c) = i /\ r = c \o b
        BY <1>4, <1>5
      <3> HIDE DEF c
      <3>2. /\ c \o b \in Seq(T) /\ Len(c \o b) = Len(c) + Len(b)
            /\ \A j \in 1..(Len(c) + Len(b)) :
                 (c \o b)[j] = IF j <= Len(c) THEN c[j] ELSE b[j - Len(c)]
        BY <2>1, <3>1, ConcatProperties
      <3>3. /\ r \in Seq(T) /\ Len(r) = i + (Len(s) - i + 1)
            /\ \A j \in 1..(i + (Len(s) - i + 1)) :
                 r[j] = IF j <= i THEN c[j] ELSE b[j - i]
        BY <2>1, <3>1, <3>2
      <3> QED
        BY <3>3 DEF c
    <2>3. i + (Len(s) - i + 1) = Len(s) + 1
      BY <1>1
    <2>4. ASSUME NEW j \in 1..(Len(s) + 1)
          PROVE  r[j] = IF j < i THEN s[j] ELSE IF j = i THEN x ELSE s[j - 1]
      <3>1. CASE j <= i
        <4>1. j = i \/ j \in 1..(i - 1)
          BY <3>1
        <4>2. r[j] = (a \o <<x>>)[j]
          BY <2>2, <2>3, <3>1
        <4> QED
          BY <1>5, <4>1, <4>2
      <3>2. CASE ~(j <= i)
        <4>1. j - i \in 1..(Len(s) - i + 1) /\ i + (j - i) - 1 = j - 1 /\ ~(j < i) /\ j # i
          BY <1>1, <3>2
        <4> QED
          BY <2>1, <2>2, <2>3, <3>2, <4>1
      <3> QED
        BY <3>1, <3>2
    <2> QED
      BY <2>2, <2>3, <2>4
  <1>7. DOMAIN r = 1..(Len(s) + 1)
    BY <1>6
  <1>8. \A y : Contains(r, y) <=> Contains(s, y) \/ y = x
    <2>1. ASSUME NEW y, Contains(r, y) PROVE Contains(s, y) \/ y = x
      <3>1. PICK j \in 1..(Len(s) + 1) : r[j] = y
        BY <1>6, <2>1 DEF Contains
      <3>2. j < i => j \in 1..Len(s)
        BY <1>1
      <3>3. j > i => j - 1 \in 1..Len(s)
        BY <1>1
      <3>4. j < i \/ j = i \/ (j > i /\ ~(j < i) /\ j # i)
        OBVIOUS
      <3> QED
        BY <1>6, <3>1, <3>2, <3>3, <3>4 DEF Contains
    <2>2. ASSUME NEW y, Contains(s, y) PROVE Contains(r, y)
      <3>1. PICK j \in 1..Len(s) : s[j] = y
        BY <2>2 DEF Contains
      <3>2. j \in 1..(Len(s) + 1) /\ j + 1 \in 1..(Len(s) + 1) /\ (j + 1) - 1 = j
            /\ (~(j < i) => ~(j + 1 < i) /\ j + 1 # i)
        BY <1>1
      <3>3. r[j] = y \/ r[j + 1] = y
        BY <1>6, <3>1, <3>2
      <3> QED
        BY <1>6, <3>2, <3>3 DEF Contains
    <2>3. Contains(r, x)
      <3>1. i \in 1..(Len(s) + 1) /\ ~(i < i)
        BY <1>1
      <3> QED
        BY <1>6, <3>1 DEF Contains
    <2> QED
      BY <2>1, <2>2, <2>3
  <1>9. ASSUME IsInjective(s), ~Contains(s, x) PROVE IsInjective(r)
    <2>1. \A j \in 1..(Len(s) + 1) : j < i \/ j = i \/ (j > i /\ ~(j < i) /\ j # i)
      OBVIOUS
    <2>2. \A j \in 1..(Len(s) + 1) :
            /\ j < i => j \in 1..Len(s)
            /\ j > i => j - 1 \in 1..Len(s)
      BY <1>1
    <2>3. \A j \in 1..Len(s) : s[j] # x
      BY <1>9 DEF Contains
    <2>4. \A j, k \in 1..Len(s) : s[j] = s[k] => j = k
      BY <1>1, <1>9 DEF IsInjective
    <2>5. ASSUME NEW j \in 1..(Len(s) + 1), NEW k \in 1..(Len(s) + 1), r[j] = r[k]
          PROVE  j = k
      <3>1. CASE j < i /\ k < i
        BY <1>6, <2>2, <2>4, <2>5, <3>1
      <3>2. CASE j > i /\ k > i
        <4>1. r[j] = s[j - 1] /\ r[k] = s[k - 1]
          BY <1>6, <3>2
        <4>2. j - 1 = k - 1
          BY <2>2, <2>4, <2>5, <3>2, <4>1
        <4> QED
          BY <4>2
      <3>3. CASE j < i /\ k > i
        <4>1. s[j] = s[k - 1] /\ j < k - 1
          BY <1>6, <2>5, <3>3
        <4> QED
          BY <2>2, <2>4, <3>3, <4>1
      <3>4. CASE j > i /\ k < i
        <4>1. s[k] = s[j - 1] /\ k < j - 1
          BY <1>6, <2>5, <3>4
        <4> QED
          BY <2>2, <2>4, <3>4, <4>1
      <3>5. CASE j = i \/ k = i
        <4>1. \A l \in 1..(Len(s) + 1) : l # i => r[l] # x
          BY <1>6, <2>1, <2>2, <2>3
        <4>2. r[i] = x
          BY <1>1, <1>6
        <4> QED
          BY <2>5, <3>5, <4>1, <4>2
      <3> QED
        BY <2>1, <3>1, <3>2, <3>3, <3>4, <3>5
    <2> QED
      BY <1>7, <2>5 DEF IsInjective
  <1> QED
    BY <1>6, <1>8, <1>9 DEF r

\* An element that is placed is in the list, once if the list was without
\* repetition.
LEMMA PlacedTree ==
  ASSUME NEW t \in Tree, NEW el \in El, NEW before
  PROVE  /\ Placed(t, el, before) \in Tree
         /\ Placed(t, el, before).text = t.text
         /\ \A e : Contains(Placed(t, el, before).children, e) <=>
                     Contains(t.children, e) \/ e = el
         /\ IsInjective(t.children) => IsInjective(Placed(t, el, before).children)
  <1> DEFINE others == Detach(t.children, el)
             at == CHOOSE i \in 1..Len(others) : others[i] = before
             list == IF Contains(others, before) THEN InsertAt(others, at, el)
                     ELSE Append(others, el)
             r == Placed(t, el, before)
  <1>1. /\ t.children \in Seq(El) /\ t.heard \in SUBSET El
        /\ t.text \in UNION {[S -> Texts] : S \in SUBSET El}
        /\ t.heard \subseteq DOMAIN t.text
        /\ t = [children |-> t.children, text |-> t.text, heard |-> t.heard]
    BY DEF Tree
  <1>2. /\ others \in Seq(El)
        /\ \A x : Contains(others, x) <=> Contains(t.children, x) /\ x # el
        /\ IsInjective(t.children) => IsInjective(others)
    BY <1>1, DetachList
  <1>3. r = [t EXCEPT !.children = list]
    BY DEF Placed
  <1>a. Contains(others, before) => at \in 1..Len(others)
    BY DEF Contains
  <1> HIDE DEF others, at
  <1>4. /\ list \in Seq(El)
        /\ \A e : Contains(list, e) <=> Contains(others, e) \/ e = el
        /\ IsInjective(others) /\ ~Contains(others, el) => IsInjective(list)
    <2>1. CASE Contains(others, before)
      <3>1. list = InsertAt(others, at, el)
        BY <2>1
      <3> QED
        BY <1>2, <1>a, <2>1, <3>1, InsertedList
    <2>2. CASE ~Contains(others, before)
      <3>1. list = Append(others, el)
        BY <2>2
      <3>2. /\ \A y : Contains(Append(others, el), y) <=> Contains(others, y) \/ y = el
            /\ IsInjective(others) /\ ~Contains(others, el) => IsInjective(Append(others, el))
        BY <1>2, AppendEntries
      <3>3. Append(others, el) \in Seq(El)
        BY <1>2
      <3> HIDE DEF list
      <3> QED
        BY <3>1, <3>2, <3>3
    <2> QED
      BY <2>1, <2>2
  <1> HIDE DEF list, r
  <1>5. r = [children |-> list, text |-> t.text, heard |-> t.heard]
    BY <1>1, <1>3
  <1>6. r \in Tree
    BY <1>1, <1>4, <1>5 DEF Tree
  <1>7. \A e : Contains(r.children, e) <=> Contains(t.children, e) \/ e = el
    BY <1>2, <1>4, <1>5
  <1>8. IsInjective(t.children) => IsInjective(r.children)
    BY <1>2, <1>4, <1>5
  <1> QED
    BY <1>5, <1>6, <1>7, <1>8 DEF r

\* What a mutation does to the elements and their texts.
Retexted(t, r, el, text) ==
  /\ DOMAIN r.text = DOMAIN t.text \cup {el} /\ r.text[el] = text
  /\ \A e \in DOMAIN t.text : e # el => r.text[e] = t.text[e]

LEMMA WrittenTree ==
  ASSUME NEW t \in Tree, NEW el \in El, NEW text \in Texts
  PROVE  /\ Written(t, el, text) \in Tree
         /\ Written(t, el, text).children = t.children
         /\ Retexted(t, Written(t, el, text), el, text)
  <1> DEFINE D == DOMAIN t.text \cup {el}
             new == [e \in D |-> IF e = el THEN text ELSE t.text[e]]
             r == Written(t, el, text)
  <1>1. /\ t.children \in Seq(El) /\ t.heard \in SUBSET El
        /\ t.text \in UNION {[S -> Texts] : S \in SUBSET El}
        /\ t.heard \subseteq DOMAIN t.text
        /\ t = [children |-> t.children, text |-> t.text, heard |-> t.heard]
    BY DEF Tree
  <1>2. PICK S \in SUBSET El : t.text \in [S -> Texts]
    BY <1>1
  <1>3. r = [children |-> t.children, text |-> new, heard |-> t.heard]
    BY <1>1 DEF Written
  <1>4. D \in SUBSET El /\ new \in [D -> Texts]
    BY <1>2
  <1>5. DOMAIN new = D /\ new[el] = text /\ \A e \in DOMAIN t.text : e # el => new[e] = t.text[e]
    OBVIOUS
  <1>6. t.heard \subseteq D
    BY <1>1
  <1> HIDE DEF r, new, D
  <1>7. r \in Tree
    BY <1>1, <1>3, <1>4, <1>5, <1>6 DEF Tree
  <1>8. Retexted(t, r, el, text)
    BY <1>3, <1>5 DEF Retexted, D
  <1> QED
    BY <1>3, <1>7, <1>8 DEF r

LEMMA WithoutTree ==
  ASSUME NEW t \in Tree, NEW el \in El
  PROVE  /\ Without(t, el) \in Tree
         /\ Without(t, el).children = Detach(t.children, el)
         /\ DOMAIN Without(t, el).text = DOMAIN t.text \ {el}
         /\ \A e \in DOMAIN t.text : e # el => Without(t, el).text[e] = t.text[e]
  <1> DEFINE D == DOMAIN t.text \ {el}
             new == [e \in D |-> t.text[e]]
             r == Without(t, el)
  <1>1. /\ t.children \in Seq(El) /\ t.heard \in SUBSET El
        /\ t.text \in UNION {[S -> Texts] : S \in SUBSET El}
        /\ t.heard \subseteq DOMAIN t.text
    BY DEF Tree
  <1>2. PICK S \in SUBSET El : t.text \in [S -> Texts]
    BY <1>1
  <1>3. r = [children |-> Detach(t.children, el), text |-> new, heard |-> t.heard \ {el}]
    BY DEF Without
  <1>4. D \in SUBSET El /\ new \in [D -> Texts] /\ DOMAIN new = D
        /\ \A e \in DOMAIN t.text : e # el => new[e] = t.text[e]
    BY <1>2
  <1>5. t.heard \ {el} \subseteq D
    BY <1>1
  <1>6. Detach(t.children, el) \in Seq(El)
    BY <1>1, DetachList
  <1> HIDE DEF r, new, D
  <1>7. r \in Tree
    BY <1>1, <1>3, <1>4, <1>5, <1>6 DEF Tree
  <1>8. r.children = Detach(t.children, el) /\ DOMAIN r.text = D
        /\ \A e \in DOMAIN t.text : e # el => r.text[e] = t.text[e]
    BY <1>3, <1>4
  <1> QED
    BY <1>7, <1>8 DEF r, D

LEMMA MutationKinds ==
  ASSUME NEW m \in Mutation
  PROVE  /\ m.el \in El
         /\ m.op \in {"create", "text", "attach", "remove"}
         /\ m.op \in {"create", "text"} => m.text \in Texts
         /\ m.op = "attach" => m.before \in El \cup {NoEl}
  BY DEF Mutation

LEMMA AppliedTree ==
  ASSUME NEW t \in Tree, NEW m \in Mutation
  PROVE  /\ ApplyMutation(t, m) \in Tree
         /\ IsInjective(t.children) => IsInjective(ApplyMutation(t, m).children)
  <1>1. t.children \in Seq(El)
    BY DEF Tree
  <1>2. CASE m.op \in {"create", "text"}
    <2>1. ApplyMutation(t, m) = Written(t, m.el, m.text) \/ ApplyMutation(t, m) = t
      BY <1>2 DEF ApplyMutation
    <2> QED
      BY <1>2, <2>1, MutationKinds, WrittenTree
  <1>3. CASE m.op = "attach"
    <2>1. ApplyMutation(t, m) = Placed(t, m.el, m.before) \/ ApplyMutation(t, m) = t
      BY <1>3 DEF ApplyMutation
    <2> QED
      BY <2>1, MutationKinds, PlacedTree
  <1>4. CASE m.op = "remove"
    <2>1. ApplyMutation(t, m) = Without(t, m.el) \/ ApplyMutation(t, m) = t
      BY <1>4 DEF ApplyMutation
    <2> QED
      BY <1>1, <2>1, MutationKinds, WithoutTree, DetachList
  <1> QED
    BY <1>2, <1>3, <1>4, MutationKinds

LEMMA AppliedTexts ==
  ASSUME NEW t \in Tree, NEW m \in Mutation
  PROVE  /\ m.op = "create" => Retexted(t, ApplyMutation(t, m), m.el, m.text)
         /\ m.op = "text" =>
              IF Exists(t, m.el) THEN Retexted(t, ApplyMutation(t, m), m.el, m.text)
              ELSE ApplyMutation(t, m) = t
         /\ m.op = "attach" => ApplyMutation(t, m).text = t.text
         /\ m.op = "remove" =>
              /\ DOMAIN ApplyMutation(t, m).text = DOMAIN t.text \ {m.el}
              /\ \A e \in DOMAIN t.text : e # m.el => ApplyMutation(t, m).text[e] = t.text[e]
  <1>1. ASSUME m.op = "create" PROVE Retexted(t, ApplyMutation(t, m), m.el, m.text)
    <2>1. ApplyMutation(t, m) = Written(t, m.el, m.text)
      BY <1>1 DEF ApplyMutation
    <2> QED
      BY <1>1, <2>1, MutationKinds, WrittenTree
  <1>2. ASSUME m.op = "text", Exists(t, m.el)
        PROVE  Retexted(t, ApplyMutation(t, m), m.el, m.text)
    <2>1. ApplyMutation(t, m) = Written(t, m.el, m.text)
      BY <1>2 DEF ApplyMutation
    <2> QED
      BY <1>2, <2>1, MutationKinds, WrittenTree
  <1>3. ASSUME m.op = "text", ~Exists(t, m.el) PROVE ApplyMutation(t, m) = t
    BY <1>3 DEF ApplyMutation
  <1>4. ASSUME m.op = "attach" PROVE ApplyMutation(t, m).text = t.text
    <2>1. ApplyMutation(t, m) = Placed(t, m.el, m.before) \/ ApplyMutation(t, m) = t
      BY <1>4 DEF ApplyMutation
    <2> QED
      BY <2>1, MutationKinds, PlacedTree
  <1>5. ASSUME m.op = "remove"
        PROVE  /\ DOMAIN ApplyMutation(t, m).text = DOMAIN t.text \ {m.el}
               /\ \A e \in DOMAIN t.text : e # m.el => ApplyMutation(t, m).text[e] = t.text[e]
    <2>1. CASE Exists(t, m.el)
      <3>1. ApplyMutation(t, m) = Without(t, m.el)
        BY <1>5, <2>1 DEF ApplyMutation
      <3> QED
        BY <3>1, MutationKinds, WithoutTree
    <2>2. CASE ~Exists(t, m.el)
      <3>1. ApplyMutation(t, m) = t
        BY <1>5, <2>2 DEF ApplyMutation
      <3> QED
        BY <2>2, <3>1 DEF Exists
    <2> QED
      BY <2>1, <2>2
  <1> QED
    BY <1>1, <1>2, <1>3, <1>4, <1>5

-----------------------------------------------------------------------------
(* Replaying a log. *)

Replays(f, t, ms) ==
  /\ f[0] = t /\ f[Len(ms)] = Replayed(t, ms)
  /\ \A i \in 1..Len(ms) : f[i] = ApplyMutation(f[i - 1], ms[i])

LEMMA ReplaySteps ==
  ASSUME NEW t \in Tree, NEW ms \in Seq(Mutation)
  PROVE  \E f \in [0..Len(ms) -> Tree] : Replays(f, t, ms)
  <1> DEFINE n == Len(ms)
             Def(f) == f = [i \in 0..n |-> IF i = 0 THEN t ELSE ApplyMutation(f[i - 1], ms[i])]
             step == [i \in 1..n |-> [x \in Tree |-> ApplyMutation(x, ms[i])]]
             h == CHOOSE h : Def(h)
  <1>1. n = Len(ms) /\ n \in Nat /\ \A i \in 1..n : ms[i] \in Mutation
    OBVIOUS
  <1>2. Replayed(t, ms) = h[n]
    BY DEF Replayed
  <1> HIDE DEF n
  <1>a. \A i \in 1..n, x \in Tree : ApplyMutation(x, ms[i]) \in Tree
    BY <1>1, AppliedTree
  <1>3. IsStep(Tree, n, step)
    BY <1>a DEF IsStep
  <1>4. \A i \in 1..n, x \in Tree : step[i][x] = ApplyMutation(x, ms[i])
    OBVIOUS
  <1> HIDE DEF step, h
  <1>5. PICK f : Steps(f, Tree, n, step, t)
    BY <1>1, <1>3, RecursionExists
  <1>6. f \in [0..n -> Tree] /\ f[0] = t /\ \A i \in 1..n : f[i] = step[i][f[i - 1]]
    BY <1>5 DEF Steps
  <1>b. 0 \in 0..n /\ (\A i \in 1..n : i \in 0..n /\ i # 0 /\ i - 1 \in 0..n)
        /\ (\A i \in 0..n : i # 0 => i \in 1..n)
    BY <1>1
  <1>7. \A i \in 1..n : f[i] = ApplyMutation(f[i - 1], ms[i])
    <2>1. \A i \in 1..n : f[i - 1] \in Tree
      BY <1>6, <1>b
    <2> QED
      BY <1>4, <1>6, <2>1
  <1>8. Def(f)
    <2>1. \A i \in 0..n : f[i] = IF i = 0 THEN t ELSE ApplyMutation(f[i - 1], ms[i])
      BY <1>6, <1>7, <1>b
    <2>2. f = [i \in 0..n |-> f[i]]
      BY <1>6
    <2> QED
      BY <2>1, <2>2
  <1>9. Def(h)
    <2> HIDE DEF Def
    <2> QED
      BY <1>8 DEF h
  <1>10. h[0] = t /\ \A i \in 1..n : h[i] = ApplyMutation(h[i - 1], ms[i])
    BY <1>9, <1>b
  <1>11. h \in [0..n -> Tree]
    <2> DEFINE S == {i \in 0..n : h[i] \in Tree}
    <2>1. 0 \in S
      BY <1>10, <1>b
    <2>2. ASSUME NEW i \in 1..n, i - 1 \in S PROVE i \in S
      <3>1. i \in 0..n /\ h[i - 1] \in Tree /\ h[i] = ApplyMutation(h[i - 1], ms[i])
        BY <1>10, <1>b, <2>2
      <3>2. h[i] \in Tree
        BY <1>a, <3>1
      <3> QED
        BY <3>1, <3>2
    <2> HIDE DEF S
    <2>3. 0..n \subseteq S
      BY <1>1, <2>1, <2>2, AlongList
    <2>4. \A i \in 0..n : h[i] \in Tree
      BY <2>3 DEF S
    <2>5. h = [i \in 0..n |-> h[i]]
      <3>1. h = [i \in 0..n |-> IF i = 0 THEN t ELSE ApplyMutation(h[i - 1], ms[i])]
        BY <1>9
      <3> QED
        BY <3>1
    <2> QED
      BY <2>4, <2>5
  <1> QED
    BY <1>1, <1>2, <1>10, <1>11 DEF Replays

\* A log that only makes good trees of good trees ends in one.
LEMMA ReplayKeeps ==
  ASSUME NEW ms \in Seq(Mutation), NEW Good, Good \subseteq Tree, NEW t \in Good,
         \A i \in 1..Len(ms) : \A u \in Good : ApplyMutation(u, ms[i]) \in Good
  PROVE  Replayed(t, ms) \in Good
  <1>1. PICK f \in [0..Len(ms) -> Tree] : Replays(f, t, ms)
    BY ReplaySteps
  <1>2. /\ f[0] = t /\ f[Len(ms)] = Replayed(t, ms)
        /\ \A i \in 1..Len(ms) : f[i] = ApplyMutation(f[i - 1], ms[i])
    BY <1>1 DEF Replays
  <1>3. Len(ms) \in Nat /\ Len(ms) \in 0..Len(ms) /\ 0 \in 0..Len(ms)
    OBVIOUS
  <1> DEFINE S == {i \in 0..Len(ms) : f[i] \in Good}
  <1>4. 0 \in S
    BY <1>2, <1>3
  <1>5. ASSUME NEW i \in 1..Len(ms), i - 1 \in S PROVE i \in S
    <2>1. i \in 0..Len(ms) /\ f[i - 1] \in Good
      BY <1>5
    <2> QED
      BY <1>2, <2>1
  <1> HIDE DEF S
  <1>6. 0..Len(ms) \subseteq S
    BY <1>3, <1>4, <1>5, AlongList
  <1> QED
    BY <1>2, <1>3, <1>6 DEF S

\* A log one mutation of which makes a tree good, which all later ones leave
\* good, ends in a good one.
LEMMA ReplayReaches ==
  ASSUME NEW ms \in Seq(Mutation), NEW Trees, Trees \subseteq Tree, NEW Good, NEW t \in Trees,
         \A i \in 1..Len(ms) : \A u \in Trees : ApplyMutation(u, ms[i]) \in Trees,
         NEW j \in 1..Len(ms),
         \A u \in Trees : ApplyMutation(u, ms[j]) \in Good,
         \A i \in 1..Len(ms) : i > j =>
           \A u \in Trees : u \in Good => ApplyMutation(u, ms[i]) \in Good
  PROVE  Replayed(t, ms) \in Good
  <1>1. PICK f \in [0..Len(ms) -> Tree] : Replays(f, t, ms)
    BY ReplaySteps
  <1>2. /\ f[0] = t /\ f[Len(ms)] = Replayed(t, ms)
        /\ \A i \in 1..Len(ms) : f[i] = ApplyMutation(f[i - 1], ms[i])
    BY <1>1 DEF Replays
  <1>3. Len(ms) \in Nat /\ Len(ms) \in 0..Len(ms) /\ 0 \in 0..Len(ms) /\ ~(0 >= j)
        /\ Len(ms) >= j
    OBVIOUS
  <1> DEFINE S == {i \in 0..Len(ms) : f[i] \in Trees /\ (i >= j => f[i] \in Good)}
  <1>4. 0 \in S
    BY <1>2, <1>3
  <1>5. ASSUME NEW i \in 1..Len(ms), i - 1 \in S PROVE i \in S
    <2>1. /\ i \in 0..Len(ms) /\ f[i - 1] \in Trees /\ (i - 1 >= j => f[i - 1] \in Good)
          /\ i >= j => i = j \/ (i > j /\ i - 1 >= j)
      BY <1>5
    <2>2. f[i] = ApplyMutation(f[i - 1], ms[i])
      BY <1>2
    <2> QED
      BY <2>1, <2>2
  <1> HIDE DEF S
  <1>6. 0..Len(ms) \subseteq S
    BY <1>3, <1>4, <1>5, AlongList
  <1> QED
    BY <1>2, <1>3, <1>6 DEF S

\* A log is replayed in two parts.
LEMMA ReplayedTwice ==
  ASSUME NEW t \in Tree, NEW a \in Seq(Mutation), NEW b \in Seq(Mutation)
  PROVE  Replayed(t, a \o b) = Replayed(Replayed(t, a), b)
  <1> DEFINE c == a \o b
  <1>1. /\ c \in Seq(Mutation) /\ Len(c) = Len(a) + Len(b)
        /\ \A i \in 1..(Len(a) + Len(b)) : c[i] = IF i <= Len(a) THEN a[i] ELSE b[i - Len(a)]
    BY ConcatProperties
  <1> HIDE DEF c
  <1>2. PICK f \in [0..Len(c) -> Tree] : Replays(f, t, c)
    BY <1>1, ReplaySteps
  <1>3. PICK g \in [0..Len(a) -> Tree] : Replays(g, t, a)
    BY ReplaySteps
  <1>4. Len(a) \in Nat /\ Len(b) \in Nat /\ Len(a) \in 0..Len(a) /\ Len(b) \in 0..Len(b)
        /\ 0 \in 0..Len(a) /\ 0 \in 0..Len(b)
    OBVIOUS
  <1>5. /\ g[0] = t /\ g[Len(a)] = Replayed(t, a)
        /\ \A i \in 1..Len(a) : g[i] = ApplyMutation(g[i - 1], a[i])
    BY <1>3 DEF Replays
  <1>6. Replayed(t, a) \in Tree
    BY <1>4, <1>5
  <1>7. PICK h \in [0..Len(b) -> Tree] : Replays(h, Replayed(t, a), b)
    BY <1>6, ReplaySteps
  <1>8. /\ h[0] = Replayed(t, a) /\ h[Len(b)] = Replayed(Replayed(t, a), b)
        /\ \A i \in 1..Len(b) : h[i] = ApplyMutation(h[i - 1], b[i])
    BY <1>7 DEF Replays
  <1>9. /\ f[0] = t /\ f[Len(a) + Len(b)] = Replayed(t, c)
        /\ \A i \in 1..(Len(a) + Len(b)) : f[i] = ApplyMutation(f[i - 1], c[i])
    BY <1>1, <1>2 DEF Replays
  <1> DEFINE S == {i \in 0..Len(a) : f[i] = g[i]}
  <1>10. 0 \in S
    BY <1>4, <1>5, <1>9
  <1>11. ASSUME NEW i \in 1..Len(a), i - 1 \in S PROVE i \in S
    <2>1. i \in 0..Len(a) /\ i \in 1..(Len(a) + Len(b)) /\ i <= Len(a) /\ f[i - 1] = g[i - 1]
      BY <1>4, <1>11
    <2>2. c[i] = a[i]
      BY <1>1, <2>1
    <2> QED
      BY <1>5, <1>9, <2>1, <2>2
  <1> HIDE DEF S
  <1>12. 0..Len(a) \subseteq S
    BY <1>4, <1>10, <1>11, AlongList
  <1>13. f[Len(a)] = Replayed(t, a)
    BY <1>4, <1>5, <1>12 DEF S
  <1> DEFINE R == {i \in 0..Len(b) : f[Len(a) + i] = h[i]}
  <1>14. 0 \in R
    <2>1. Len(a) + 0 = Len(a)
      BY <1>4
    <2> QED
      BY <1>4, <1>8, <1>13, <2>1
  <1>15. ASSUME NEW i \in 1..Len(b), i - 1 \in R PROVE i \in R
    <2>1. /\ i \in 0..Len(b) /\ f[Len(a) + (i - 1)] = h[i - 1]
          /\ Len(a) + i \in 1..(Len(a) + Len(b)) /\ ~(Len(a) + i <= Len(a))
          /\ (Len(a) + i) - Len(a) = i /\ (Len(a) + i) - 1 = Len(a) + (i - 1)
      BY <1>4, <1>15
    <2>2. c[Len(a) + i] = b[i]
      BY <1>1, <2>1
    <2>3. f[Len(a) + i] = ApplyMutation(f[Len(a) + (i - 1)], b[i])
      BY <1>9, <2>1, <2>2
    <2>4. f[Len(a) + i] = h[i]
      BY <1>8, <2>1, <2>3
    <2> QED
      BY <2>1, <2>4
  <1> HIDE DEF R
  <1>16. 0..Len(b) \subseteq R
    BY <1>4, <1>14, <1>15, AlongList
  <1> QED
    BY <1>4, <1>8, <1>9, <1>16 DEF R, c

-----------------------------------------------------------------------------
(* The rows of an :each. *)

LEMMA LastOfSome ==
  ASSUME NEW n \in Nat, NEW S \in SUBSET (1..n), S # {}
  PROVE  \E i \in S : \A j \in S : j <= i
  <1> DEFINE Last1(k) == \E i \in S : i <= k /\ \A j \in S : j <= k => j <= i
             R == {k \in 0..n : (\E i \in S : i <= k) => Last1(k)}
  <1>1. 0 \in R
    OBVIOUS
  <1>2. ASSUME NEW k \in 1..n, k - 1 \in R PROVE k \in R
    <2>1. CASE k \in S
      <3>1. Last1(k)
        BY <2>1
      <3> QED
        BY <3>1
    <2>2. CASE k \notin S
      <3>1. \A j \in S : j <= k <=> j <= k - 1
        BY <2>2
      <3>2. (\E i \in S : i <= k - 1) => Last1(k - 1)
        BY <1>2
      <3>3. Last1(k - 1) => Last1(k)
        BY <3>1
      <3>4. (\E i \in S : i <= k) => \E i \in S : i <= k - 1
        BY <3>1
      <3> HIDE DEF Last1
      <3> QED
        BY <3>2, <3>3, <3>4
    <2> QED
      BY <2>1, <2>2
  <1> HIDE DEF R
  <1>3. 0..n \subseteq R
    BY <1>1, <1>2, AlongList
  <1>4. \A i \in S : i <= n
    OBVIOUS
  <1>5. (\E i \in S : i <= n) => Last1(n)
    BY <1>3 DEF R
  <1> QED
    BY <1>4, <1>5

\* HashMap::collect: the last row with the key, if there is one.
LEMMA OldIndexFacts ==
  ASSUME NEW old \in Seq(Row), NEW k
  PROVE  /\ OldIndex(old, k) \in 0..Len(old)
         /\ OldIndex(old, k) # 0 =>
              /\ OldIndex(old, k) \in 1..Len(old)
              /\ old[OldIndex(old, k)].key = k
              /\ \A j \in 1..Len(old) : old[j].key = k => j <= OldIndex(old, k)
         /\ OldIndex(old, k) = 0 => \A i \in 1..Len(old) : old[i].key # k
  <1> DEFINE found == {i \in 1..Len(old) : old[i].key = k}
             o == CHOOSE i \in found : \A j \in found : j <= i
  <1>1. Len(old) \in Nat
    OBVIOUS
  <1>2. OldIndex(old, k) = IF found = {} THEN 0 ELSE o
    BY DEF OldIndex
  <1>3. CASE found = {}
    BY <1>1, <1>2, <1>3
  <1>4. CASE found # {}
    <2>1. \E i \in found : \A j \in found : j <= i
      <3>1. found \in SUBSET (1..Len(old))
        OBVIOUS
      <3> HIDE DEF found
      <3> QED
        BY <1>1, <1>4, <3>1, LastOfSome
    <2>2. o \in found /\ \A j \in found : j <= o
      <3> HIDE DEF found
      <3> QED
        BY <2>1
    <2>3. OldIndex(old, k) = o
      BY <1>2, <1>4
    <2> HIDE DEF o
    <2> QED
      BY <1>1, <2>2, <2>3
  <1> QED
    BY <1>3, <1>4

LEMMA NewUpToFacts ==
  ASSUME NEW old, NEW items \in Seq(Item)
  PROVE  /\ Cardinality(NewUpTo(old, items, 0)) = 0
         /\ \A i \in 0..Len(items) : Cardinality(NewUpTo(old, items, i)) \in Nat
         /\ \A i \in 1..Len(items) :
              Cardinality(NewUpTo(old, items, i)) =
                Cardinality(NewUpTo(old, items, i - 1))
                  + (IF OldIndex(old, items[i].key) = 0 THEN 1 ELSE 0)
         /\ \A i, j \in 0..Len(items) : i <= j =>
              Cardinality(NewUpTo(old, items, i)) <= Cardinality(NewUpTo(old, items, j))
  <1> DEFINE N(i) == NewUpTo(old, items, i)
  <1>1. Len(items) \in Nat
    OBVIOUS
  <1>2. \A i \in 0..Len(items) : IsFiniteSet(N(i))
    <2>1. ASSUME NEW i \in 0..Len(items) PROVE IsFiniteSet(N(i))
      <3>1. IsFiniteSet(1..i) /\ N(i) \in SUBSET (1..i)
        BY FS_Interval DEF NewUpTo
      <3> QED
        BY <3>1, FS_Subset
    <2> QED
      BY <2>1
  <1>3. \A i \in 0..Len(items) : Cardinality(N(i)) \in Nat
    BY <1>2, FS_CardinalityType
  <1>4. N(0) = {}
    BY DEF NewUpTo
  <1>5. ASSUME NEW i \in 1..Len(items)
        PROVE  Cardinality(N(i)) =
                 Cardinality(N(i - 1)) + (IF OldIndex(old, items[i].key) = 0 THEN 1 ELSE 0)
    <2>1. i - 1 \in 0..Len(items) /\ i \notin N(i - 1)
          /\ \A j : j \in 1..i <=> j \in 1..(i - 1) \/ j = i
      BY <1>1 DEF NewUpTo
    <2>2. IsFiniteSet(N(i - 1)) /\ Cardinality(N(i - 1)) \in Nat
      BY <1>2, <1>3, <2>1
    <2>3. CASE OldIndex(old, items[i].key) = 0
      <3>1. N(i) = N(i - 1) \cup {i}
        BY <2>1, <2>3 DEF NewUpTo
      <3>2. i \notin N(i - 1)
        BY <2>1
      <3> HIDE DEF N
      <3>3. Cardinality(N(i - 1) \cup {i}) = Cardinality(N(i - 1)) + 1
        BY <2>2, <3>2, FS_AddElement
      <3> QED
        BY <2>3, <3>1, <3>3
    <2>4. CASE OldIndex(old, items[i].key) # 0
      <3>1. N(i) = N(i - 1)
        BY <2>1, <2>4 DEF NewUpTo
      <3> HIDE DEF N
      <3> QED
        BY <2>2, <2>4, <3>1
    <2> QED
      BY <2>3, <2>4
  <1>6. ASSUME NEW i \in 0..Len(items), NEW j \in 0..Len(items), i <= j
        PROVE  Cardinality(N(i)) <= Cardinality(N(j))
    <2>1. N(i) \in SUBSET N(j)
      BY <1>6 DEF NewUpTo
    <2> HIDE DEF N
    <2> QED
      BY <1>2, <2>1, FS_Subset
  <1>7. Cardinality(N(0)) = 0
    BY <1>4, FS_EmptySet
  <1> QED
    BY <1>3, <1>5, <1>6, <1>7

LEMMA NextRowsFacts ==
  ASSUME NEW old \in Seq(Row), NEW items \in Seq(Item), nextId \in Nat \ {0}
  PROVE  /\ Len(NextRows(old, items)) = Len(items) /\ DOMAIN NextRows(old, items) = 1..Len(items)
         /\ \A i \in 1..Len(items) :
              /\ NextRows(old, items)[i].key = items[i].key
              /\ OldIndex(old, items[i].key) # 0 =>
                   NextRows(old, items)[i] = old[OldIndex(old, items[i].key)]
              /\ OldIndex(old, items[i].key) = 0 =>
                   /\ NextRows(old, items)[i].el = nextId - 1 + Cardinality(NewUpTo(old, items, i))
                   /\ NextRows(old, items)[i].el >= nextId
                   /\ NextRows(old, items)[i] = [key |-> items[i].key, el |-> NextRows(old, items)[i].el]
  <1> DEFINE next == NextRows(old, items)
  <1>1. next = [i \in 1..Len(items) |->
                  IF OldIndex(old, items[i].key) # 0 THEN old[OldIndex(old, items[i].key)]
                  ELSE [key |-> items[i].key,
                        el  |-> nextId - 1 + Cardinality(NewUpTo(old, items, i))]]
    BY DEF NextRows
  <1> HIDE DEF next
  <1>2. DOMAIN next = 1..Len(items) /\ Len(items) \in Nat /\ Len(next) = Len(items)
    BY <1>1
  <1>3. ASSUME NEW i \in 1..Len(items)
        PROVE  /\ next[i].key = items[i].key
               /\ OldIndex(old, items[i].key) # 0 =>
                    next[i] = old[OldIndex(old, items[i].key)]
               /\ OldIndex(old, items[i].key) = 0 =>
                    /\ next[i].el = nextId - 1 + Cardinality(NewUpTo(old, items, i))
                    /\ next[i].el >= nextId
                    /\ next[i] = [key |-> items[i].key, el |-> next[i].el]
    <2>1. CASE OldIndex(old, items[i].key) # 0
      <3>1. next[i] = old[OldIndex(old, items[i].key)]
        BY <1>1, <2>1
      <3> QED
        BY <2>1, <3>1, OldIndexFacts
    <2>2. CASE OldIndex(old, items[i].key) = 0
      <3> DEFINE c == Cardinality(NewUpTo(old, items, i))
      <3>1. next[i] = [key |-> items[i].key, el |-> nextId - 1 + c]
        BY <1>1, <2>2
      <3>2. c \in Nat /\ c >= 1
        <4>1. i - 1 \in 0..Len(items) /\ i \in 0..Len(items)
          OBVIOUS
        <4>2. Cardinality(NewUpTo(old, items, i - 1)) \in Nat
              /\ c = Cardinality(NewUpTo(old, items, i - 1)) + 1
          BY <2>2, <4>1, NewUpToFacts
        <4> QED
          BY <4>2
      <3> HIDE DEF c
      <3>3. nextId - 1 + c >= nextId
        BY <3>2
      <3>4. next[i].key = items[i].key /\ next[i].el = nextId - 1 + c
        BY <3>1
      <3> QED
        BY <2>2, <3>1, <3>3, <3>4 DEF c
    <2> QED
      BY <2>1, <2>2
  <1> QED
    BY <1>2, <1>3 DEF next

-----------------------------------------------------------------------------
(* Types. *)

TypeInv ==
  /\ TypeOK
  /\ source \in Sources /\ log \in Seq(Mutation) /\ tree \in Tree
  /\ writes \in Nat /\ distinct \in BOOLEAN /\ mounted \in BOOLEAN

LEMMA TypeInvParts ==
  ASSUME TypeInv
  PROVE  /\ template \in Seq({"element", "if", "each"}) /\ Len(template) \in Nat
         /\ pending \subseteq Slot
         /\ rows \in [Slot -> Seq(Row)] /\ slots \in [Slot -> Seq(El)]
         /\ slots \in Seq(Seq(El)) /\ Len(slots) = Len(template)
         /\ live \subseteq El /\ targets \subseteq El /\ item \in [El -> Texts]
         /\ nextId \in 1..(MaxElements + 1) /\ nextId \in Nat \ {0}
         /\ log \in Seq(Mutation) /\ tree \in Tree
         /\ \A s \in Slot :
              /\ template[s] = "each" => source[s] \in Seq(Item)
              /\ template[s] = "if" => source[s] \in {<<>>, <<Body>>}
              /\ template[s] = "element" => source[s] = <<Static>>
              /\ template[s] \in {"element", "if", "each"}
  <1>1. template \in Seq({"element", "if", "each"})
    BY TemplatesAssumption DEF TypeInv, TypeOK
  <1>2. Len(template) \in Nat /\ \A s \in Slot : template[s] \in {"element", "if", "each"}
    BY <1>1 DEF Slot
  <1>3. \A s \in Slot : source[s] \in Source(template[s])
    BY DEF TypeInv, Sources
  <1>4. \A s \in Slot :
          /\ template[s] = "each" => source[s] \in Seq(Item)
          /\ template[s] = "if" => source[s] \in {<<>>, <<Body>>}
          /\ template[s] = "element" => source[s] = <<Static>>
    BY <1>3, ListsAssumption DEF Source, Branches
  <1>5. slots \in [1..Len(template) -> Seq(El)]
    BY DEF TypeInv, TypeOK, Slot
  <1>6. slots \in Seq(Seq(El)) /\ Len(slots) = Len(template)
    BY <1>2, <1>5
  <1>7. nextId \in 1..(MaxElements + 1) /\ nextId \in Nat \ {0}
    BY BoundsAssumption DEF TypeInv, TypeOK
  <1> QED
    BY <1>1, <1>2, <1>4, <1>6, <1>7 DEF TypeInv, TypeOK

LEMMA TextTypes == Item \subseteq Texts /\ Static \in Texts /\ Body \in Texts
  BY DEF Texts

LEMMA MutationTypes ==
  /\ \A e \in El, text \in Texts : Create(e, text) \in Mutation /\ SetText(e, text) \in Mutation
  /\ \A e \in El, before \in El \cup {NoEl} : Attach(e, before) \in Mutation
  /\ \A e \in El : Delete(e) \in Mutation
  BY DEF Mutation, Create, SetText, Attach, Delete

\* The elements of the later slots, the first of which is the anchor.
LEMMA AnchorType ==
  ASSUME NEW list \in Seq(Seq(El)), NEW s \in 1..Len(list)
  PROVE  AnchorAfter(list, s) \in El \cup {NoEl}
  <1> DEFINE later == FlattenSeq(SubSeq(list, s + 1, Len(list)))
  <1>1. SubSeq(list, s + 1, Len(list)) \in Seq(Seq(El))
    OBVIOUS
  <1>2. later \in Seq(El)
    BY <1>1, FlattenEntries
  <1>3. AnchorAfter(list, s) = IF later = <<>> THEN NoEl ELSE Head(later)
    BY DEF AnchorAfter
  <1> HIDE DEF later
  <1> QED
    BY <1>2, <1>3

\* A list of lists of at most one entry, joined.
Options(f, n, T) ==
  /\ f = [i \in 1..n |-> f[i]]
  /\ \A i \in 1..n : f[i] = <<>> \/ \E x \in T : f[i] = <<x>>

Joins(list, f, n, T) ==
  /\ list \in Seq(T)
  /\ \A x : Contains(list, x) <=> \E i \in 1..n : f[i] = <<x>>

LEMMA JoinedOptions ==
  ASSUME NEW T, NEW n \in Nat, NEW f, Options(f, n, T)
  PROVE  Joins(FlattenSeq(f), f, n, T)
  <1>0. /\ f = [i \in 1..n |-> f[i]]
        /\ \A i \in 1..n : f[i] = <<>> \/ \E x \in T : f[i] = <<x>>
    BY DEF Options
  <1>1. \A i \in 1..n : f[i] \in Seq(T)
    <2>1. <<>> \in Seq(T) /\ \A x \in T : <<x>> \in Seq(T)
      OBVIOUS
    <2> QED
      BY <1>0, <2>1
  <1>2. f \in Seq(Seq(T)) /\ Len(f) = n
    <2>1. f \in [1..n -> Seq(T)]
      BY <1>0, <1>1
    <2> QED
      BY <2>1
  <1>3. ASSUME NEW i \in 1..n, NEW x PROVE Contains(f[i], x) <=> f[i] = <<x>>
    <2>1. CASE f[i] = <<>>
      <3>1. Len(<<>>) = 0 /\ Len(<<x>>) = 1
        OBVIOUS
      <3> QED
        BY <2>1, <3>1 DEF Contains
    <2>2. CASE \E y \in T : f[i] = <<y>>
      <3>1. PICK y \in T : f[i] = <<y>>
        BY <2>2
      <3>2. Len(<<y>>) = 1 /\ <<y>>[1] = y /\ (<<y>> = <<x>> <=> y = x)
        OBVIOUS
      <3> QED
        BY <3>1, <3>2 DEF Contains
    <2> QED
      BY <1>0, <2>1, <2>2
  <1> QED
    BY <1>2, <1>3, FlattenEntries DEF Joins

-----------------------------------------------------------------------------
(* What reconcile_each logs. *)

PatchOf(next, items, i) ==
  IF next[i].el >= nextId THEN <<Create(next[i].el, items[i])>>
  ELSE IF next[i].el \in live /\ ItemAt(next, items, i) # items[i]
  THEN <<SetText(next[i].el, items[i])>> ELSE <<>>

LEMMA PatchEntries ==
  ASSUME NEW items \in Seq(Item), NEW next, Len(next) = Len(items),
         \A i \in 1..Len(items) : next[i].el \in El
  PROVE  /\ Patches(next, items) \in Seq(Mutation)
         /\ \A m : Contains(Patches(next, items), m) <=>
                     \E i \in 1..Len(items) : PatchOf(next, items, i) = <<m>>
  <1> DEFINE f == [i \in 1..Len(items) |-> PatchOf(next, items, i)]
  <1>1. Patches(next, items) = FlattenSeq(f)
    BY DEF Patches, PatchOf
  <1>2. Len(items) \in Nat /\ f = [i \in 1..Len(items) |-> f[i]]
    OBVIOUS
  <1>3. \A i \in 1..Len(items) : f[i] = PatchOf(next, items, i)
    OBVIOUS
  <1>4. \A i \in 1..Len(items) : items[i] \in Texts
    BY TextTypes, ElementOfSeq
  <1>5. \A i \in 1..Len(items) :
          f[i] = <<>> \/ \E m \in Mutation : f[i] = <<m>>
    <2>1. ASSUME NEW i \in 1..Len(items)
          PROVE  f[i] = <<>> \/ \E m \in Mutation : f[i] = <<m>>
      <3>1. /\ Create(next[i].el, items[i]) \in Mutation
            /\ SetText(next[i].el, items[i]) \in Mutation
        BY <1>4, MutationTypes
      <3>2. \/ f[i] = <<>> \/ f[i] = <<Create(next[i].el, items[i])>>
            \/ f[i] = <<SetText(next[i].el, items[i])>>
        BY <1>3 DEF PatchOf
      <3> HIDE DEF f
      <3> QED
        BY <3>1, <3>2
    <2> QED
      BY <2>1
  <1> HIDE DEF f
  <1>6. /\ FlattenSeq(f) \in Seq(Mutation)
        /\ \A x : Contains(FlattenSeq(f), x) <=> \E i \in 1..Len(items) : f[i] = <<x>>
    <2>1. Options(f, Len(items), Mutation)
      BY <1>2, <1>5 DEF Options
    <2>2. Len(items) \in Nat
      OBVIOUS
    <2>3. Joins(FlattenSeq(f), f, Len(items), Mutation)
      BY <2>1, <2>2, JoinedOptions
    <2> QED
      BY <2>3 DEF Joins
  <1> QED
    BY <1>1, <1>3, <1>6

LEMMA RemovalEntries ==
  ASSUME NEW old \in Seq(Row), NEW left \in SUBSET (1..Len(old))
  PROVE  /\ Removals(old, left) \in Seq(Mutation)
         /\ \A m : Contains(Removals(old, left), m) <=>
                     \E i \in left : m = Delete(old[i].el)
  <1> DEFINE f == [i \in 1..Len(old) |-> IF i \in left THEN <<Delete(old[i].el)>> ELSE <<>>]
  <1>1. Removals(old, left) = FlattenSeq(f)
    BY DEF Removals
  <1>2. Len(old) \in Nat /\ f = [i \in 1..Len(old) |-> f[i]]
    OBVIOUS
  <1>3. \A i \in 1..Len(old) :
          f[i] = IF i \in left THEN <<Delete(old[i].el)>> ELSE <<>>
    OBVIOUS
  <1>4. \A i \in 1..Len(old) : Delete(old[i].el) \in Mutation
    <2>1. \A i \in 1..Len(old) : old[i].el \in El
      <3>1. \A i \in 1..Len(old) : old[i] \in Row
        BY ElementOfSeq
      <3> QED
        BY <3>1 DEF Row
    <2> QED
      BY <2>1, MutationTypes
  <1> HIDE DEF f
  <1>5. \A i \in 1..Len(old) : f[i] = <<>> \/ \E m \in Mutation : f[i] = <<m>>
    BY <1>3, <1>4
  <1>6. /\ FlattenSeq(f) \in Seq(Mutation)
        /\ \A x : Contains(FlattenSeq(f), x) <=> \E i \in 1..Len(old) : f[i] = <<x>>
    <2>1. Options(f, Len(old), Mutation)
      BY <1>2, <1>5 DEF Options
    <2>2. Len(old) \in Nat
      OBVIOUS
    <2>3. Joins(FlattenSeq(f), f, Len(old), Mutation)
      BY <2>1, <2>2, JoinedOptions
    <2> QED
      BY <2>3 DEF Joins
  <1>7. \A i \in 1..Len(old) : \A x : f[i] = <<x>> <=> i \in left /\ x = Delete(old[i].el)
    <2>1. \A x, y : (<<y>> = <<x>> <=> y = x) /\ <<>> # <<x>>
      OBVIOUS
    <2> QED
      BY <1>3, <2>1
  <1> QED
    BY <1>1, <1>6, <1>7

LEMMA MoveEntries ==
  ASSUME NEW els \in Seq(El), NEW anchor \in El \cup {NoEl}
  PROVE  /\ Moves(els, anchor) \in Seq(Mutation) /\ Len(Moves(els, anchor)) = Len(els)
         /\ \A n \in 1..Len(els) :
              Moves(els, anchor)[n] =
                Attach(els[Len(els) + 1 - n],
                       IF n = 1 THEN anchor ELSE els[Len(els) + 2 - n])
         /\ \A m : Contains(Moves(els, anchor), m) => m.op = "attach"
  <1> DEFINE f == Moves(els, anchor)
             M(n) == Attach(els[Len(els) + 1 - n],
                            IF n = 1 THEN anchor ELSE els[Len(els) + 2 - n])
  <1>1. Len(els) \in Nat /\ \A i \in 1..Len(els) : els[i] \in El
    OBVIOUS
  <1>2. \A n \in 1..Len(els) :
          /\ Len(els) + 1 - n \in 1..Len(els)
          /\ (Len(els) + 1 - n = Len(els)) <=> n = 1
          /\ n # 1 => Len(els) + 2 - n \in 1..Len(els)
          /\ (Len(els) + 1 - n) + 1 = Len(els) + 2 - n
    BY <1>1
  <1>3. f = [n \in 1..Len(els) |->
               Attach(els[Len(els) + 1 - n],
                      IF Len(els) + 1 - n = Len(els) THEN anchor
                      ELSE els[(Len(els) + 1 - n) + 1])]
    BY DEF Moves
  <1>4. DOMAIN f = 1..Len(els) /\ Len(f) = Len(els) /\ f = [n \in 1..Len(els) |-> f[n]]
    BY <1>1, <1>3
  <1>5. \A n \in 1..Len(els) : f[n] = M(n)
    BY <1>2, <1>3
  <1>6. \A n \in 1..Len(els) : M(n) \in Mutation /\ M(n).op = "attach"
    <2>1. ASSUME NEW n \in 1..Len(els) PROVE M(n) \in Mutation
      <3>1. (IF n = 1 THEN anchor ELSE els[Len(els) + 2 - n]) \in El \cup {NoEl}
        BY <1>1, <1>2
      <3>2. els[Len(els) + 1 - n] \in El
        BY <1>1, <1>2
      <3> QED
        BY <3>1, <3>2, MutationTypes
    <2> QED
      BY <2>1 DEF Attach
  <1> HIDE DEF f, M
  <1>7. f \in Seq(Mutation)
    BY <1>1, <1>4, <1>5, <1>6
  <1> QED
    BY <1>4, <1>5, <1>6, <1>7 DEF f, M, Contains

-----------------------------------------------------------------------------
(* One run of an :each. *)

Next1(s) == NextRows(rows[s], source[s])
Left(s) == LeftBehind(rows[s], source[s])
Made(s) == {e \in El : \E i \in 1..Len(Next1(s)) : Next1(s)[i].el = e /\ e >= nextId}
SlotsThen(s) == [slots EXCEPT ![s] = Els(Next1(s))]
MovesThen(s) ==
  IF Keys(rows[s]) = Keys(source[s]) THEN <<>>
  ELSE Moves(Els(Next1(s)), AnchorAfter(SlotsThen(s), s))

\* What ReconcileEach changes, and the types of what it changes it to.
LEMMA Reconciled ==
  ASSUME TypeInv, NEW s \in Slot, ReconcileEach(s)
  PROVE  /\ template[s] = "each" /\ source[s] \in Seq(Item) /\ rows[s] \in Seq(Row)
         /\ Next1(s) \in Seq(Row) /\ Len(Next1(s)) = Len(source[s])
         /\ Els(Next1(s)) \in Seq(El) /\ SlotsThen(s) \in Seq(Seq(El))
         /\ Left(s) \in SUBSET (1..Len(rows[s])) /\ Made(s) \subseteq El
         /\ Patches(Next1(s), source[s]) \in Seq(Mutation)
         /\ Removals(rows[s], Left(s)) \in Seq(Mutation)
         /\ MovesThen(s) \in Seq(Mutation)
         /\ \A i \in 1..Len(source[s]) : Next1(s)[i].el \in El
         /\ log' = ((log \o Patches(Next1(s), source[s])) \o Removals(rows[s], Left(s)))
                     \o MovesThen(s)
         /\ rows' = [rows EXCEPT ![s] = Next1(s)] /\ slots' = SlotsThen(s)
         /\ live' = (live \cup Made(s)) \ {rows[s][i].el : i \in Left(s)}
         /\ targets' = targets \cup Made(s)
         /\ nextId' = nextId + Cardinality(NewUpTo(rows[s], source[s], Len(source[s])))
  <1> DEFINE next == Next1(s)
             old == rows[s]
             items == source[s]
  <1>1. template[s] = "each" /\ items \in Seq(Item) /\ old \in Seq(Row)
    BY TypeInvParts DEF ReconcileEach
  <1>2. \A i \in 1..Len(next) : next[i].el \in El
    BY DEF ReconcileEach, Next1
  <1>3. nextId \in Nat \ {0}
    BY TypeInvParts
  <1> HIDE DEF next, old, items
  <1>4. /\ Len(next) = Len(items) /\ DOMAIN next = 1..Len(items)
        /\ next = [i \in 1..Len(items) |-> next[i]]
        /\ \A i \in 1..Len(items) :
             /\ next[i].key = items[i].key
             /\ OldIndex(old, items[i].key) # 0 => next[i] = old[OldIndex(old, items[i].key)]
             /\ OldIndex(old, items[i].key) = 0 =>
                  next[i] = [key |-> items[i].key, el |-> next[i].el]
    <2>1. next = NextRows(old, items)
      BY DEF next, old, items, Next1
    <2>2. next = [i \in 1..Len(items) |-> next[i]]
      BY <2>1 DEF NextRows
    <2> QED
      BY <1>1, <1>3, <2>1, <2>2, NextRowsFacts
  <1>5. \A i \in 1..Len(items) : next[i] \in Row
    <2>1. ASSUME NEW i \in 1..Len(items) PROVE next[i] \in Row
      <3>1. items[i] \in Item /\ items[i].key \in Key
        <4>1. items[i] \in Item
          BY <1>1, ElementOfSeq
        <4> QED
          BY <4>1 DEF Item
      <3>2. CASE OldIndex(old, items[i].key) = 0
        BY <1>2, <1>4, <3>1, <3>2 DEF Row
      <3>3. CASE OldIndex(old, items[i].key) # 0
        <4>1. OldIndex(old, items[i].key) \in 1..Len(old)
          BY <1>1, <3>3, OldIndexFacts
        <4>2. old[OldIndex(old, items[i].key)] \in Row
          BY <1>1, <4>1, ElementOfSeq
        <4> QED
          BY <1>4, <3>3, <4>2
      <3> QED
        BY <3>2, <3>3
    <2> QED
      BY <2>1
  <1>6. Len(items) \in Nat
    BY <1>1
  <1>7. next \in Seq(Row)
    BY <1>4, <1>5, <1>6
  <1>8. Els(next) \in Seq(El)
    BY <1>2, <1>4, <1>6 DEF Els
  <1>9. SlotsThen(s) \in Seq(Seq(El)) /\ Len(SlotsThen(s)) = Len(slots) /\ s \in 1..Len(slots)
    BY <1>8, TypeInvParts DEF SlotsThen, Slot, next
  <1>10. Left(s) \in SUBSET (1..Len(old)) /\ Made(s) \subseteq El
    BY DEF Left, LeftBehind, Made, old
  <1>11. Patches(next, items) \in Seq(Mutation)
    BY <1>1, <1>2, <1>4, PatchEntries
  <1>12. Removals(old, Left(s)) \in Seq(Mutation)
    BY <1>1, <1>10, RemovalEntries
  <1>13. MovesThen(s) \in Seq(Mutation)
    <2>1. AnchorAfter(SlotsThen(s), s) \in El \cup {NoEl}
      BY <1>9, AnchorType
    <2>2. Moves(Els(next), AnchorAfter(SlotsThen(s), s)) \in Seq(Mutation)
      BY <1>8, <2>1, MoveEntries
    <2>3. <<>> \in Seq(Mutation)
      OBVIOUS
    <2> QED
      BY <2>2, <2>3 DEF MovesThen, next
  <1>14. /\ log' = ((log \o Patches(next, items)) \o Removals(old, Left(s))) \o MovesThen(s)
         /\ rows' = [rows EXCEPT ![s] = next] /\ slots' = SlotsThen(s)
         /\ live' = (live \cup Made(s)) \ {old[i].el : i \in Left(s)}
         /\ targets' = targets \cup Made(s)
         /\ nextId' = nextId + Cardinality(NewUpTo(old, items, Len(items)))
    BY DEF ReconcileEach, next, old, items, Next1, Left, Made, SlotsThen, MovesThen
  <1> QED
    BY <1>1, <1>2, <1>4, <1>7, <1>8, <1>9, <1>10, <1>11, <1>12, <1>13, <1>14
       DEF next, old, items

\* The numbers given out are those of elements.
LEMMA NumbersSuffice ==
  ASSUME TypeInv, NEW s \in Slot, ReconcileEach(s)
  PROVE  nextId' \in 1..(MaxElements + 1) /\ nextId' >= nextId
  <1> DEFINE next == Next1(s)
             old == rows[s]
             items == source[s]
             N(i) == Cardinality(NewUpTo(old, items, i))
  <1>1. /\ items \in Seq(Item) /\ old \in Seq(Row) /\ nextId' = nextId + N(Len(items))
        /\ \A i \in 1..Len(items) : next[i].el \in El
    BY Reconciled
  <1>2. nextId \in Nat \ {0} /\ nextId \in 1..(MaxElements + 1) /\ MaxElements \in Nat
    BY TypeInvParts, BoundsAssumption
  <1>3. next = NextRows(old, items)
    BY DEF Next1
  <1> HIDE DEF next, old, items
  <1>4. \A i \in 1..Len(items) : OldIndex(old, items[i].key) = 0 => next[i].el = nextId - 1 + N(i)
    <2>1. items \in Seq(Item) /\ old \in Seq(Row)
      BY <1>1
    <2>2. nextId \in Nat \ {0}
      BY <1>2
    <2> QED
      BY <1>3, <2>1, <2>2, NextRowsFacts
  <1>5. /\ N(0) = 0 /\ \A i \in 0..Len(items) : N(i) \in Nat
        /\ \A i \in 1..Len(items) :
             N(i) = N(i - 1) + (IF OldIndex(old, items[i].key) = 0 THEN 1 ELSE 0)
    BY <1>1, NewUpToFacts
  <1>6. Len(items) \in Nat
    BY <1>1
  <1> HIDE DEF N
  <1> DEFINE S == {i \in 0..Len(items) : nextId + N(i) <= MaxElements + 1}
  <1>7. 0 \in S
    BY <1>2, <1>5, <1>6
  <1>8. ASSUME NEW i \in 1..Len(items), i - 1 \in S PROVE i \in S
    <2>1. i \in 0..Len(items) /\ i - 1 \in 0..Len(items) /\ N(i) \in Nat /\ N(i - 1) \in Nat
      BY <1>5
    <2>2. CASE OldIndex(old, items[i].key) = 0
      <3>1. nextId - 1 + N(i) \in El
        BY <1>1, <1>4, <2>2
      <3>2. nextId + N(i) <= MaxElements + 1
        BY <1>2, <2>1, <3>1 DEF El
      <3> QED
        BY <2>1, <3>2
    <2>3. CASE OldIndex(old, items[i].key) # 0
      <3>1. N(i) = N(i - 1)
        BY <1>5, <2>1, <2>3
      <3> QED
        BY <1>8, <2>1, <3>1
    <2> QED
      BY <2>2, <2>3
  <1> HIDE DEF S
  <1>9. 0..Len(items) \subseteq S /\ Len(items) \in 0..Len(items)
    <2>1. 0..Len(items) \subseteq S
      BY <1>6, <1>7, <1>8, AlongList
    <2> QED
      BY <1>6, <2>1
  <1>10. nextId + N(Len(items)) <= MaxElements + 1 /\ N(Len(items)) \in Nat
    BY <1>5, <1>9 DEF S
  <1> QED
    BY <1>1, <1>2, <1>10

-----------------------------------------------------------------------------

LEMMA TypeInit == Init => TypeInv
  <1>1. SUFFICES ASSUME Init PROVE TypeInv
    OBVIOUS
  <1>2. [e \in {} |-> Static] \in [{} -> Texts]
    OBVIOUS
  <1>3. NewTree.text \in UNION {[S -> Texts] : S \in SUBSET El} /\ DOMAIN NewTree.text = {}
    BY <1>2 DEF NewTree
  <1>4. NewTree \in Tree
    BY <1>3 DEF NewTree, Tree
  <1>5. /\ rows \in [Slot -> Seq(Row)] /\ slots \in [Slot -> Seq(El)]
        /\ item \in [El -> Texts] /\ nextId \in 1..(MaxElements + 1)
    BY <1>1, TextTypes, BoundsAssumption DEF Init
  <1>6. TypeOK
    BY <1>1, <1>3, <1>5 DEF Init, TypeOK, NewTree
  <1>7. log \in Seq(Mutation) /\ writes \in Nat
    BY <1>1 DEF Init
  <1> QED
    BY <1>1, <1>4, <1>6, <1>7 DEF Init, TypeInv

\* A run of a block keeps the types of what blocks hold.
BlockTypes ==
  /\ rows \in [Slot -> Seq(Row)] /\ slots \in [Slot -> Seq(El)]
  /\ live \subseteq El /\ targets \subseteq El /\ item \in [El -> Texts]
  /\ nextId \in 1..(MaxElements + 1) /\ log \in Seq(Mutation)

LEMMA MountTypes ==
  ASSUME TypeInv, template' = template, NEW s \in Slot, MountElement(s) \/ MountIf(s)
  PROVE  BlockTypes'
  <1>1. /\ nextId \in El /\ nextId' = nextId + 1 /\ item' = item
        /\ slots' = [slots EXCEPT ![s] = <<nextId>>] /\ targets' = targets \cup {nextId}
        /\ live' \in {live, live \cup {nextId}}
        /\ rows' \in {rows, [rows EXCEPT ![s] = <<[key |-> "body", el |-> nextId]>>]}
    BY DEF MountElement, MountIf
  <1>2. \E a, b \in Mutation : log' = log \o <<a, b>>
    <2>1. AnchorAfter(slots, s) \in El \cup {NoEl}
      BY TypeInvParts, AnchorType DEF Slot
    <2>2. /\ Create(nextId, Static) \in Mutation /\ Create(nextId, Body) \in Mutation
          /\ Attach(nextId, NoEl) \in Mutation
          /\ Attach(nextId, AnchorAfter(slots, s)) \in Mutation
      BY <1>1, <2>1, TextTypes, MutationTypes
    <2>3. \/ log' = log \o <<Create(nextId, Static), Attach(nextId, NoEl)>>
          \/ log' = log \o <<Create(nextId, Body), Attach(nextId, AnchorAfter(slots, s))>>
      BY DEF MountElement, MountIf
    <2> QED
      BY <2>2, <2>3
  <1>3. log' \in Seq(Mutation)
    <2>1. PICK a \in Mutation, b \in Mutation : log' = log \o <<a, b>>
      BY <1>2
    <2>2. <<a, b>> \in Seq(Mutation) /\ log \in Seq(Mutation)
      BY TypeInvParts
    <2> QED
      BY <2>1, <2>2, ConcatProperties
  <1>4. /\ rows \in [Slot -> Seq(Row)] /\ slots \in [Slot -> Seq(El)]
        /\ live \subseteq El /\ targets \subseteq El /\ item \in [El -> Texts]
    BY TypeInvParts
  <1>5. <<nextId>> \in Seq(El) /\ <<[key |-> "body", el |-> nextId]>> \in Seq(Row)
    <2>1. [key |-> "body", el |-> nextId] \in Row
      BY <1>1 DEF Row
    <2> QED
      BY <1>1, <2>1
  <1>6. slots' \in [Slot -> Seq(El)] /\ rows' \in [Slot -> Seq(Row)]
    BY <1>1, <1>4, <1>5
  <1>7. nextId' \in 1..(MaxElements + 1)
    BY <1>1, BoundsAssumption DEF El
  <1>8. Slot' = Slot
    BY DEF Slot
  <1> QED
    BY <1>1, <1>3, <1>4, <1>6, <1>7, <1>8 DEF BlockTypes

LEMMA UnmountTypes ==
  ASSUME TypeInv, template' = template, NEW s \in Slot, UnmountIf(s)
  PROVE  BlockTypes'
  <1>1. /\ rows \in [Slot -> Seq(Row)] /\ slots \in [Slot -> Seq(El)]
        /\ live \subseteq El /\ targets \subseteq El /\ item \in [El -> Texts]
        /\ nextId \in 1..(MaxElements + 1) /\ log \in Seq(Mutation)
    BY TypeInvParts
  <1>2. rows[s] \in Seq(Row) /\ rows[s] # <<>>
    BY <1>1 DEF UnmountIf
  <1>3. rows[s][1].el \in El
    <2>1. rows[s][1] \in Row
      BY <1>2
    <2> QED
      BY <2>1 DEF Row
  <1>4. Delete(rows[s][1].el) \in Mutation
    BY <1>3, MutationTypes
  <1>5. log' \in Seq(Mutation)
    BY <1>1, <1>4 DEF UnmountIf
  <1>6. rows' \in [Slot -> Seq(Row)] /\ slots' \in [Slot -> Seq(El)]
    BY <1>1 DEF UnmountIf
  <1>7. Slot' = Slot
    BY DEF Slot
  <1> QED
    BY <1>1, <1>5, <1>6, <1>7 DEF UnmountIf, BlockTypes

LEMMA ReconcileTypes ==
  ASSUME TypeInv, template' = template, NEW s \in Slot, ReconcileEach(s)
  PROVE  BlockTypes'
  <1>1. /\ rows \in [Slot -> Seq(Row)] /\ slots \in [Slot -> Seq(El)]
        /\ live \subseteq El /\ targets \subseteq El /\ item \in [El -> Texts]
        /\ log \in Seq(Mutation)
    BY TypeInvParts
  <1>2. Slot' = Slot
    BY DEF Slot
  <1>3. rows' \in [Slot -> Seq(Row)] /\ slots' \in [Slot -> Seq(El)]
    BY <1>1, Reconciled DEF SlotsThen
  <1>4. live' \subseteq El /\ targets' \subseteq El
    BY <1>1, Reconciled
  <1>5. log' \in Seq(Mutation)
    <2> DEFINE a == Patches(Next1(s), source[s])
               b == Removals(rows[s], Left(s))
               c == MovesThen(s)
    <2>1. /\ a \in Seq(Mutation) /\ b \in Seq(Mutation) /\ c \in Seq(Mutation)
          /\ log' = ((log \o a) \o b) \o c
      BY Reconciled
    <2> HIDE DEF a, b, c
    <2>2. log \o a \in Seq(Mutation)
      BY <1>1, <2>1, ConcatProperties
    <2>3. (log \o a) \o b \in Seq(Mutation)
      BY <2>1, <2>2, ConcatProperties
    <2> QED
      BY <2>1, <2>3, ConcatProperties
  <1>6. item' \in [El -> Texts]
    <2> DEFINE items == source[s]
               mine(e) == {i \in 1..Len(Next1(s)) : Next1(s)[i].el = e}
               last(e) == CHOOSE i \in mine(e) : \A j \in mine(e) : j <= i
    <2>1. items \in Seq(Item) /\ Len(Next1(s)) = Len(items) /\ Len(items) \in Nat
      BY Reconciled
    <2>2. item' = [e \in El |-> IF mine(e) = {} THEN item[e] ELSE items[last(e)]]
      BY DEF ReconcileEach, Next1
    <2>3. ASSUME NEW e \in El, mine(e) # {} PROVE items[last(e)] \in Texts
      <3>1. mine(e) \in SUBSET (1..Len(items))
        BY <2>1
      <3> HIDE DEF mine
      <3>2. \E i \in mine(e) : \A j \in mine(e) : j <= i
        BY <2>1, <2>3, <3>1, LastOfSome
      <3>3. last(e) \in mine(e)
        BY <3>2
      <3>4. last(e) \in 1..Len(items)
        BY <3>1, <3>3
      <3> HIDE DEF last
      <3>5. items[last(e)] \in Item
        BY <2>1, <3>4, ElementOfSeq
      <3> QED
        BY <3>5, TextTypes
    <2> HIDE DEF mine, last
    <2> QED
      BY <1>1, <2>2, <2>3
  <1> QED
    BY <1>2, <1>3, <1>4, <1>5, <1>6, NumbersSuffice DEF BlockTypes

LEMMA BlockRuns ==
  ASSUME TypeInv, template' = template, NEW s \in Slot, RunBlock(s)
  PROVE  BlockTypes'
  <1>1. CASE KeepIf(s)
    <2>1. UNCHANGED block /\ Slot' = Slot
      BY <1>1 DEF KeepIf, Slot
    <2>2. BlockTypes
      BY TypeInvParts DEF BlockTypes
    <2> QED
      BY <2>1, <2>2 DEF BlockTypes, block
  <1> QED
    BY <1>1, MountTypes, UnmountTypes, ReconcileTypes DEF RunBlock

\* An application's writes.
LEMMA WriteTypes ==
  ASSUME TypeInv, Write
  PROVE  /\ source' \in Sources' /\ pending' \subseteq Slot' /\ writes' \in Nat
         /\ distinct' \in BOOLEAN
  <1>1. writes' = writes + 1 /\ source' \in Sources /\ template' = template
        /\ pending' = {s \in Slot : source'[s] # source[s]}
    BY DEF Write
  <1>2. Sources' = Sources /\ Slot' = Slot
    BY <1>1 DEF Sources, Slot
  <1>3. distinct \in BOOLEAN /\ writes \in Nat
    BY DEF TypeInv
  <1>4. distinct' \in BOOLEAN
    <2>1. distinct' = (distinct /\ \A s \in Slot :
                    template[s] = "each" => Distinct(source'[s]) /\ Distinct(source[s]))
      BY DEF Write
    <2> QED
      BY <2>1, Zenon
  <1> QED
    BY <1>1, <1>2, <1>3, <1>4

LEMMA DrainedType == TypeInv => Drained \in Tree
  <1>1. SUFFICES ASSUME TypeInv PROVE Drained \in Tree
    OBVIOUS
  <1>2. tree \in Tree /\ log \in Seq(Mutation) /\ Tree \subseteq Tree
    BY <1>1, TypeInvParts
  <1>3. \A i \in 1..Len(log) : \A u \in Tree : ApplyMutation(u, log[i]) \in Tree
    BY <1>2, AppliedTree, ElementOfSeq
  <1> QED
    BY <1>2, <1>3, ReplayKeeps DEF Drained

-----------------------------------------------------------------------------
(* Every step keeps the types. *)

LEMMA ClickTypes == TypeInv /\ (UserClicks \/ RouteClick) => TypeInv'
  <1>1. SUFFICES ASSUME TypeInv, UserClicks \/ RouteClick PROVE TypeInv'
    OBVIOUS
  <1>2. CASE UserClicks
    <2>1. PICK el \in tree.heard : queue' = Append(queue, el)
      BY <1>2 DEF UserClicks
    <2>2. el \in El /\ queue \in Seq(El)
      BY <1>1, <2>1 DEF TypeInv, TypeOK
    <2>3. queue' \in Seq(El)
      BY <2>1, <2>2
    <2>4. UNCHANGED <<block, app, tree, mounted, phase, deliveries>>
      BY <1>2 DEF UserClicks
    <2> QED
      BY <1>1, <2>3, <2>4 DEF TypeInv, TypeOK, block, app, Slot, Sources
  <1>3. CASE RouteClick
    <2>1. /\ deliveries # <<>> /\ deliveries' = Tail(deliveries)
          /\ (Write \/ UNCHANGED app)
          /\ UNCHANGED <<block, tree, mounted, phase, queue>>
      BY <1>3 DEF RouteClick
    <2>2. deliveries' \in Seq(El)
      BY <1>1, <2>1 DEF TypeInv, TypeOK
    <2>3. /\ template' = template /\ source' \in Sources' /\ pending' \subseteq Slot'
          /\ writes' \in Nat /\ distinct' \in BOOLEAN
      <3>1. CASE Write
        BY <1>1, <3>1, WriteTypes DEF Write
      <3>2. CASE UNCHANGED app
        BY <1>1, <3>2 DEF app, TypeInv, TypeOK, Slot, Sources
      <3> QED
        BY <2>1, <3>1, <3>2
    <2> QED
      BY <1>1, <2>1, <2>2, <2>3 DEF TypeInv, TypeOK, block, Slot, Sources
  <1> QED
    BY <1>1, <1>2, <1>3

LEMMA OutsideTypes == TypeInv /\ OutsideWrite => TypeInv'
  <1>1. SUFFICES ASSUME TypeInv, OutsideWrite PROVE TypeInv'
    OBVIOUS
  <1>2. Write /\ UNCHANGED <<block, host>> /\ template' = template
    BY <1>1 DEF OutsideWrite, Write
  <1>3. /\ source' \in Sources' /\ pending' \subseteq Slot'
        /\ writes' \in Nat /\ distinct' \in BOOLEAN
    BY <1>1, <1>2, WriteTypes
  <1> QED
    BY <1>1, <1>2, <1>3 DEF TypeInv, TypeOK, block, host, Slot

LEMMA RunTypes == TypeInv /\ (Build \/ Flush) => TypeInv'
  <1>1. SUFFICES ASSUME TypeInv, Build \/ Flush PROVE TypeInv'
    OBVIOUS
  <1>2. /\ UNCHANGED <<template, source, writes, distinct, tree, mounted, queue, deliveries>>
        /\ phase' \in {phase, "idle"}
        /\ \E s \in Slot : RunBlock(s) /\ pending' = pending \ {s}
    BY <1>1 DEF Build, Flush, host, TypeInv, TypeOK
  <1>3. PICK s \in Slot : RunBlock(s) /\ pending' = pending \ {s}
    BY <1>2
  <1>4. BlockTypes'
    BY <1>1, <1>2, <1>3, BlockRuns
  <1>5. Slot' = Slot /\ Sources' = Sources
    BY <1>2 DEF Slot, Sources
  <1> QED
    BY <1>1, <1>2, <1>3, <1>4, <1>5 DEF TypeInv, TypeOK, BlockTypes

LEMMA HandleTypes == TypeInv /\ (HandleBegins \/ HandleReturns) => TypeInv'
  <1>1. SUFFICES ASSUME TypeInv, HandleBegins \/ HandleReturns PROVE TypeInv'
    OBVIOUS
  <1>2. /\ UNCHANGED <<rows, slots, live, item, nextId, targets, app>>
        /\ phase' \in {"handle", "idle"} /\ mounted' \in BOOLEAN
        /\ queue' \in {queue, <<>>} /\ deliveries' \in {queue, deliveries}
        /\ \/ tree' = tree /\ log' = log
           \/ log' = <<>> /\ tree' \in {Drained,
                 [Drained EXCEPT !.heard = targets \cap DOMAIN Drained.text]}
    BY <1>1 DEF HandleBegins, HandleReturns, TypeInv
  <1>3. /\ Slot' = Slot /\ Sources' = Sources /\ template' = template /\ pending' = pending
        /\ source' = source /\ writes' = writes /\ distinct' = distinct
    BY <1>2 DEF Slot, Sources, app
  <1>4. tree' \in Tree
    <2>1. Drained \in Tree /\ tree \in Tree /\ targets \subseteq El
      BY <1>1, DrainedType DEF TypeInv, TypeOK
    <2> DEFINE d == Drained
    <2> HIDE DEF d
    <2>2. ASSUME d \in Tree PROVE [d EXCEPT !.heard = targets \cap DOMAIN d.text] \in Tree
      BY <2>1, <2>2 DEF Tree
    <2> QED
      BY <1>2, <2>1, <2>2 DEF d
  <1>5. DOMAIN tree'.text \subseteq El /\ tree'.heard \subseteq DOMAIN tree'.text
    BY <1>4 DEF Tree
  <1>6. log' \in Seq(Mutation) /\ queue' \in Seq(El) /\ deliveries' \in Seq(El)
    <2>1. log' = log \/ log' = <<>>
      BY <1>2
    <2>2. log \in Seq(Mutation) /\ <<>> \in Seq(Mutation)
      BY <1>1 DEF TypeInv
    <2>3. queue \in Seq(El) /\ deliveries \in Seq(El) /\ <<>> \in Seq(El)
      BY <1>1 DEF TypeInv, TypeOK
    <2> QED
      BY <1>2, <2>1, <2>2, <2>3
  <1> QED
    BY <1>1, <1>2, <1>3, <1>4, <1>5, <1>6 DEF TypeInv, TypeOK

LEMMA TypeStep == TypeInv /\ [Next]_vars => TypeInv'
  <1>1. ASSUME TypeInv, UNCHANGED vars PROVE TypeInv'
    BY <1>1 DEF TypeInv, TypeOK, vars, block, app, host, Slot, Sources
  <1> QED
    BY <1>1, ClickTypes, OutsideTypes, RunTypes, HandleTypes DEF Next

LEMMA TypesHold == Spec => []TypeInv
  BY TypeInit, TypeStep, PTL DEF Spec

\* The variables hold values of their types: the numbers the sink gives out
\* are elements, what a log does to the tree leaves a tree, and clicks and
\* deliveries are for elements (instantiate.rs and app_host.rs).
THEOREM DynamicTypes == Spec => []TypeOK
  <1>1. TypeInv => TypeOK
    BY DEF TypeInv
  <1> QED
    BY <1>1, TypesHold, PTL

-----------------------------------------------------------------------------
(* What a tree shows beside the static elements. *)

Shown(t) == {e \in DOMAIN t.text : t.text[e] # Static}

LEMMA ShownStep ==
  ASSUME NEW t \in Tree, NEW m \in Mutation
  PROVE  /\ m.op = "create" => Shown(ApplyMutation(t, m)) =
              IF m.text = Static THEN Shown(t) \ {m.el} ELSE Shown(t) \cup {m.el}
         /\ m.op = "text" /\ m.text # Static /\ m.el \in Shown(t) =>
              Shown(ApplyMutation(t, m)) = Shown(t)
         /\ m.op = "attach" => Shown(ApplyMutation(t, m)) = Shown(t)
         /\ m.op = "remove" => Shown(ApplyMutation(t, m)) = Shown(t) \ {m.el}
  <1> DEFINE r == ApplyMutation(t, m)
  <1>1. /\ m.op = "create" => Retexted(t, r, m.el, m.text)
        /\ m.op = "text" /\ Exists(t, m.el) => Retexted(t, r, m.el, m.text)
        /\ m.op = "attach" => r.text = t.text
        /\ m.op = "remove" =>
             /\ DOMAIN r.text = DOMAIN t.text \ {m.el}
             /\ \A e \in DOMAIN t.text : e # m.el => r.text[e] = t.text[e]
    BY AppliedTexts
  <1> HIDE DEF r
  <1>2. Retexted(t, r, m.el, m.text) =>
          Shown(r) = IF m.text = Static THEN Shown(t) \ {m.el} ELSE Shown(t) \cup {m.el}
    BY DEF Retexted, Shown
  <1>3. m.op = "remove" => Shown(r) = Shown(t) \ {m.el}
    BY <1>1 DEF Shown
  <1>4. m.op = "attach" => Shown(r) = Shown(t)
    BY <1>1 DEF Shown
  <1>5. m.el \in Shown(t) => Exists(t, m.el)
    BY DEF Shown, Exists
  <1> QED
    BY <1>1, <1>2, <1>3, <1>4, <1>5 DEF r

LEMMA ReplayedNothing ==
  ASSUME NEW t \in Tree
  PROVE  Replayed(t, <<>>) = t
  <1>1. <<>> \in Seq(Mutation) /\ Len(<<>>) = 0
    OBVIOUS
  <1>2. PICK f \in [0..Len(<<>>) -> Tree] : Replays(f, t, <<>>)
    BY <1>1, ReplaySteps
  <1> QED
    BY <1>1, <1>2 DEF Replays

LEMMA ReplayedTree ==
  ASSUME NEW t \in Tree, NEW ms \in Seq(Mutation)
  PROVE  /\ Replayed(t, ms) \in Tree
         /\ IsInjective(t.children) => IsInjective(Replayed(t, ms).children)
  <1>1. \A i \in 1..Len(ms) : ms[i] \in Mutation
    BY ElementOfSeq
  <1>2. Replayed(t, ms) \in Tree
    <2>1. Tree \subseteq Tree
      OBVIOUS
    <2>2. \A i \in 1..Len(ms) : \A u \in Tree : ApplyMutation(u, ms[i]) \in Tree
      BY <1>1, AppliedTree
    <2> QED
      BY <2>1, <2>2, ReplayKeeps
  <1>3. ASSUME IsInjective(t.children) PROVE IsInjective(Replayed(t, ms).children)
    <2> DEFINE G == {u \in Tree : IsInjective(u.children)}
    <2>1. G \subseteq Tree /\ t \in G
      BY <1>3
    <2>2. \A i \in 1..Len(ms) : \A u \in G : ApplyMutation(u, ms[i]) \in G
      BY <1>1, AppliedTree
    <2> HIDE DEF G
    <2>3. Replayed(t, ms) \in G
      BY <2>1, <2>2, ReplayKeeps
    <2> QED
      BY <2>3 DEF G
  <1> QED
    BY <1>2, <1>3

\* A step that logs changes what the drain will make of the tree by just that.
LEMMA LogGrows ==
  ASSUME TypeInv, tree' = tree, NEW ms \in Seq(Mutation), log' = log \o ms
  PROVE  Drained' = Replayed(Drained, ms)
  <1>1. tree \in Tree /\ log \in Seq(Mutation)
    BY TypeInvParts
  <1>2. Replayed(tree, log \o ms) = Replayed(Replayed(tree, log), ms)
    BY <1>1, ReplayedTwice
  <1> QED
    BY <1>2 DEF Drained

LEMMA PairReplayed ==
  ASSUME NEW t \in Tree, NEW a \in Mutation, NEW b \in Mutation
  PROVE  Replayed(t, <<a, b>>) = ApplyMutation(ApplyMutation(t, a), b)
  <1> DEFINE ms == <<a, b>>
  <1>1. ms \in Seq(Mutation) /\ Len(ms) = 2 /\ ms[1] = a /\ ms[2] = b
    OBVIOUS
  <1> HIDE DEF ms
  <1>2. PICK f \in [0..Len(ms) -> Tree] : Replays(f, t, ms)
    BY <1>1, ReplaySteps
  <1>3. /\ f[0] = t /\ f[2] = Replayed(t, ms)
        /\ \A i \in 1..2 : f[i] = ApplyMutation(f[i - 1], ms[i])
    BY <1>1, <1>2 DEF Replays
  <1>4. f[1] = ApplyMutation(t, a) /\ f[2] = ApplyMutation(f[1], b)
    <2>1. 1 \in 1..2 /\ 2 \in 1..2 /\ 1 - 1 = 0 /\ 2 - 1 = 1
      OBVIOUS
    <2> QED
      BY <1>1, <1>3, <2>1
  <1> QED
    BY <1>3, <1>4 DEF ms

LEMMA OneReplayed ==
  ASSUME NEW t \in Tree, NEW a \in Mutation
  PROVE  Replayed(t, <<a>>) = ApplyMutation(t, a)
  <1> DEFINE ms == <<a>>
  <1>1. ms \in Seq(Mutation) /\ Len(ms) = 1 /\ ms[1] = a
    OBVIOUS
  <1> HIDE DEF ms
  <1>2. PICK f \in [0..Len(ms) -> Tree] : Replays(f, t, ms)
    BY <1>1, ReplaySteps
  <1>3. /\ f[0] = t /\ f[1] = Replayed(t, ms)
        /\ \A i \in 1..1 : f[i] = ApplyMutation(f[i - 1], ms[i])
    BY <1>1, <1>2 DEF Replays
  <1>4. f[1] = ApplyMutation(t, a)
    <2>1. 1 \in 1..1 /\ 1 - 1 = 0
      OBVIOUS
    <2> QED
      BY <1>1, <1>3, <2>1
  <1> QED
    BY <1>3, <1>4 DEF ms

-----------------------------------------------------------------------------
(* What one run of an :each shows and hides. *)

LEMMA PatchKinds ==
  ASSUME TypeInv, NEW s \in Slot, ReconcileEach(s),
         NEW ms, ms = Patches(Next1(s), source[s])
  PROVE  /\ ms \in Seq(Mutation)
         /\ \A k \in 1..Len(ms) :
              /\ ms[k] \in Mutation /\ ms[k].text # Static
              /\ \/ ms[k].op = "create" /\ ms[k].el \in Made(s)
                 \/ ms[k].op = "text" /\ ms[k].el \in live
         /\ \A e \in Made(s) : \E k \in 1..Len(ms) : ms[k].op = "create" /\ ms[k].el = e
  <1> DEFINE next == Next1(s)
             items == source[s]
  <1>1. /\ items \in Seq(Item) /\ Len(next) = Len(items) /\ ms \in Seq(Mutation)
        /\ \A i \in 1..Len(items) : next[i].el \in El
    BY Reconciled
  <1>2. \A i \in 1..Len(items) : items[i] \in Item /\ items[i] # Static
    BY <1>1, TextsAssumption, ElementOfSeq
  <1> HIDE DEF next, items
  <1>3. \A m : Contains(ms, m) <=> \E i \in 1..Len(items) : PatchOf(next, items, i) = <<m>>
    BY <1>1, PatchEntries DEF next, items
  <1>4. ASSUME NEW k \in 1..Len(ms)
        PROVE  /\ ms[k] \in Mutation /\ ms[k].text # Static
               /\ \/ ms[k].op = "create" /\ ms[k].el \in Made(s)
                  \/ ms[k].op = "text" /\ ms[k].el \in live
    <2>1. ms[k] \in Mutation
      BY <1>1, ElementOfSeq
    <2>2. Contains(ms, ms[k])
      BY DEF Contains
    <2>3. PICK i \in 1..Len(items) : PatchOf(next, items, i) = <<ms[k]>>
      BY <1>3, <2>2
    <2>a. \A x, y : <<x>> = <<y>> => x = y
      OBVIOUS
    <2>4. \/ next[i].el >= nextId /\ ms[k] = Create(next[i].el, items[i])
          \/ next[i].el \in live /\ ms[k] = SetText(next[i].el, items[i])
      <3>1. \A x : <<x>> # <<>>
        OBVIOUS
      <3> QED
        BY <2>3, <2>a, <3>1 DEF PatchOf
    <2>5. next[i].el \in El /\ (next[i].el >= nextId => next[i].el \in Made(s))
      BY <1>1 DEF Made, next, items
    <2> QED
      BY <1>2, <2>1, <2>4, <2>5 DEF Create, SetText
  <1>5. ASSUME NEW e \in Made(s) PROVE \E k \in 1..Len(ms) : ms[k].op = "create" /\ ms[k].el = e
    <2>1. PICK i \in 1..Len(items) : next[i].el = e /\ e >= nextId
      BY <1>1 DEF Made, next, items
    <2>2. PatchOf(next, items, i) = <<Create(e, items[i])>>
      BY <2>1 DEF PatchOf
    <2>3. Contains(ms, Create(e, items[i]))
      BY <1>3, <2>2
    <2> QED
      BY <2>3 DEF Contains, Create
  <1> QED
    BY <1>1, <1>4, <1>5

LEMMA PatchesShow ==
  ASSUME TypeInv, NEW s \in Slot, ReconcileEach(s), NEW t \in Tree, Shown(t) = live
  PROVE  Shown(Replayed(t, Patches(Next1(s), source[s]))) = live \cup Made(s)
  <1> DEFINE ms == Patches(Next1(s), source[s])
  <1>1. /\ ms \in Seq(Mutation)
        /\ \A k \in 1..Len(ms) :
              /\ ms[k] \in Mutation /\ ms[k].text # Static
              /\ \/ ms[k].op = "create" /\ ms[k].el \in Made(s)
                 \/ ms[k].op = "text" /\ ms[k].el \in live
        /\ \A e \in Made(s) : \E k \in 1..Len(ms) : ms[k].op = "create" /\ ms[k].el = e
    BY PatchKinds
  <1> HIDE DEF ms
  <1> DEFINE G == {u \in Tree : live \subseteq Shown(u) /\ Shown(u) \subseteq live \cup Made(s)}
  <1>2. G \subseteq Tree /\ t \in G
    OBVIOUS
  <1>3. ASSUME NEW k \in 1..Len(ms), NEW u \in G
        PROVE  ApplyMutation(u, ms[k]) \in G /\ Shown(u) \subseteq Shown(ApplyMutation(u, ms[k]))
               /\ (ms[k].op = "create" => ms[k].el \in Shown(ApplyMutation(u, ms[k])))
    <2>1. u \in Tree /\ ms[k] \in Mutation
      BY <1>1
    <2>2. ApplyMutation(u, ms[k]) \in Tree
      BY <2>1, AppliedTree
    <2>3. /\ ms[k].op = "create" =>
               Shown(ApplyMutation(u, ms[k])) = Shown(u) \cup {ms[k].el}
          /\ ms[k].op = "text" => Shown(ApplyMutation(u, ms[k])) = Shown(u)
      BY <1>1, <2>1, ShownStep
    <2> QED
      BY <1>1, <2>2, <2>3
  <1> HIDE DEF G
  <1>4. Replayed(t, ms) \in G
    BY <1>1, <1>2, <1>3, ReplayKeeps
  <1>5. ASSUME NEW e \in Made(s) PROVE e \in Shown(Replayed(t, ms))
    <2>1. PICK k \in 1..Len(ms) : ms[k].op = "create" /\ ms[k].el = e
      BY <1>1
    <2> DEFINE H == {u \in G : e \in Shown(u)}
    <2>2. \A u \in G : ApplyMutation(u, ms[k]) \in H
      BY <1>3, <2>1
    <2>3. \A i \in 1..Len(ms) : i > k => \A u \in G : u \in H => ApplyMutation(u, ms[i]) \in H
      BY <1>3
    <2>4. \A i \in 1..Len(ms) : \A u \in G : ApplyMutation(u, ms[i]) \in G
      BY <1>3
    <2> HIDE DEF H
    <2>5. Replayed(t, ms) \in H
      BY <1>1, <1>2, <2>2, <2>3, <2>4, ReplayReaches
    <2> QED
      BY <2>5 DEF H
  <1> QED
    BY <1>4, <1>5 DEF G, ms

LEMMA RemovalsHide ==
  ASSUME NEW old \in Seq(Row), NEW left \in SUBSET (1..Len(old)), NEW t \in Tree
  PROVE  Shown(Replayed(t, Removals(old, left))) = Shown(t) \ {old[i].el : i \in left}
  <1> DEFINE ms == Removals(old, left)
             gone == {old[i].el : i \in left}
  <1>1. ms \in Seq(Mutation) /\ \A m : Contains(ms, m) <=> \E i \in left : m = Delete(old[i].el)
    BY RemovalEntries
  <1> HIDE DEF ms
  <1>2. \A k \in 1..Len(ms) : ms[k] \in Mutation /\ ms[k].op = "remove" /\ ms[k].el \in gone
    <2>1. ASSUME NEW k \in 1..Len(ms)
          PROVE  ms[k] \in Mutation /\ ms[k].op = "remove" /\ ms[k].el \in gone
      <3>1. Contains(ms, ms[k]) /\ ms[k] \in Mutation
        BY <1>1, ElementOfSeq DEF Contains
      <3> QED
        BY <1>1, <3>1 DEF Delete
    <2> QED
      BY <2>1
  <1>3. \A e \in gone : \E k \in 1..Len(ms) : ms[k].op = "remove" /\ ms[k].el = e
    <2>1. ASSUME NEW i \in left
          PROVE  \E k \in 1..Len(ms) : ms[k].op = "remove" /\ ms[k].el = old[i].el
      <3>1. Contains(ms, Delete(old[i].el))
        BY <1>1
      <3> QED
        BY <3>1 DEF Contains, Delete
    <2> QED
      BY <2>1
  <1> HIDE DEF gone
  <1> DEFINE G == {u \in Tree : Shown(u) \subseteq Shown(t) /\ Shown(t) \ gone \subseteq Shown(u)}
  <1>4. G \subseteq Tree /\ t \in G
    OBVIOUS
  <1>5. ASSUME NEW k \in 1..Len(ms), NEW u \in G
        PROVE  /\ ApplyMutation(u, ms[k]) \in G
               /\ Shown(ApplyMutation(u, ms[k])) = Shown(u) \ {ms[k].el}
    <2>1. u \in Tree /\ ms[k] \in Mutation
      BY <1>2
    <2>2. ApplyMutation(u, ms[k]) \in Tree
      BY <2>1, AppliedTree
    <2>3. Shown(ApplyMutation(u, ms[k])) = Shown(u) \ {ms[k].el}
      BY <1>2, <2>1, ShownStep
    <2> QED
      BY <1>2, <2>2, <2>3
  <1> HIDE DEF G
  <1>6. Replayed(t, ms) \in G
    BY <1>1, <1>4, <1>5, ReplayKeeps
  <1>7. ASSUME NEW e \in gone PROVE e \notin Shown(Replayed(t, ms))
    <2>1. PICK k \in 1..Len(ms) : ms[k].op = "remove" /\ ms[k].el = e
      BY <1>3
    <2> DEFINE H == {u \in G : e \notin Shown(u)}
    <2>2. \A u \in G : ApplyMutation(u, ms[k]) \in H
      BY <1>5, <2>1
    <2>3. \A i \in 1..Len(ms) : i > k => \A u \in G : u \in H => ApplyMutation(u, ms[i]) \in H
      BY <1>5
    <2>4. \A i \in 1..Len(ms) : \A u \in G : ApplyMutation(u, ms[i]) \in G
      BY <1>5
    <2> HIDE DEF H
    <2>5. Replayed(t, ms) \in H
      BY <1>1, <1>4, <2>2, <2>3, <2>4, ReplayReaches
    <2> QED
      BY <2>5 DEF H
  <1> QED
    BY <1>6, <1>7 DEF G, ms, gone

LEMMA MovesShow ==
  ASSUME TypeInv, NEW s \in Slot, ReconcileEach(s), NEW t \in Tree
  PROVE  Shown(Replayed(t, MovesThen(s))) = Shown(t)
  <1> DEFINE ms == MovesThen(s)
  <1>1. ms \in Seq(Mutation) /\ SlotsThen(s) \in Seq(Seq(El)) /\ Els(Next1(s)) \in Seq(El)
        /\ s \in 1..Len(SlotsThen(s))
    BY Reconciled, TypeInvParts DEF SlotsThen, Slot
  <1>2. \A k \in 1..Len(ms) : ms[k] \in Mutation /\ ms[k].op = "attach"
    <2>1. CASE ms = <<>>
      BY <2>1
    <2>2. CASE ms # <<>>
      <3>1. ms = Moves(Els(Next1(s)), AnchorAfter(SlotsThen(s), s))
        BY <2>2 DEF MovesThen
      <3>2. AnchorAfter(SlotsThen(s), s) \in El \cup {NoEl}
        BY <1>1, AnchorType
      <3> HIDE DEF ms
      <3>3. \A m : Contains(ms, m) => m.op = "attach"
        BY <1>1, <3>1, <3>2, MoveEntries
      <3> QED
        BY <1>1, <3>3, ElementOfSeq DEF Contains
    <2> QED
      BY <2>1, <2>2
  <1> HIDE DEF ms
  <1> DEFINE G == {u \in Tree : Shown(u) = Shown(t)}
  <1>3. G \subseteq Tree /\ t \in G
    OBVIOUS
  <1>4. \A k \in 1..Len(ms) : \A u \in G : ApplyMutation(u, ms[k]) \in G
    BY <1>2, AppliedTree, ShownStep
  <1> HIDE DEF G
  <1>5. Replayed(t, ms) \in G
    BY <1>1, <1>3, <1>4, ReplayKeeps
  <1> QED
    BY <1>5 DEF G, ms

LEMMA ReconcileShows ==
  ASSUME TypeInv, tree' = tree, NEW s \in Slot, ReconcileEach(s), Shown(Drained) = live
  PROVE  Shown(Drained') = live'
  <1> DEFINE a == Patches(Next1(s), source[s])
             b == Removals(rows[s], Left(s))
             c == MovesThen(s)
  <1>1. /\ a \in Seq(Mutation) /\ b \in Seq(Mutation) /\ c \in Seq(Mutation)
        /\ log' = ((log \o a) \o b) \o c /\ log \in Seq(Mutation) /\ tree \in Tree
        /\ live' = (live \cup Made(s)) \ {rows[s][i].el : i \in Left(s)}
        /\ rows[s] \in Seq(Row) /\ Left(s) \in SUBSET (1..Len(rows[s]))
    BY Reconciled, TypeInvParts
  <1> DEFINE t1 == Replayed(Drained, a)
             t2 == Replayed(t1, b)
  <1>2. Shown(t1) = live \cup Made(s)
    BY DrainedType, PatchesShow
  <1>3. t1 \in Tree
    BY <1>1, DrainedType, ReplayedTree
  <1> HIDE DEF a, b, t1
  <1>4. Shown(t2) = live' /\ t2 \in Tree
    BY <1>1, <1>2, <1>3, RemovalsHide, ReplayedTree DEF b
  <1> HIDE DEF t2
  <1>5. Shown(Replayed(t2, c)) = live'
    BY <1>4, MovesShow
  <1> HIDE DEF c
  <1>6. Drained' = Replayed(t2, c)
    <2>1. Drained \in Tree
      BY DrainedType
    <2>2. Drained' = Replayed(tree, ((log \o a) \o b) \o c)
      BY <1>1 DEF Drained
    <2>3. log \o a \in Seq(Mutation)
      BY <1>1, ConcatProperties
    <2>4. (log \o a) \o b \in Seq(Mutation)
      BY <1>1, <2>3, ConcatProperties
    <2>5. Replayed(tree, ((log \o a) \o b) \o c) = Replayed(Replayed(tree, (log \o a) \o b), c)
      BY <1>1, <2>4, ReplayedTwice
    <2>6. Replayed(tree, (log \o a) \o b) = Replayed(Replayed(tree, log \o a), b)
      BY <1>1, <2>3, ReplayedTwice
    <2>7. Replayed(tree, log \o a) = Replayed(Replayed(tree, log), a)
      BY <1>1, ReplayedTwice
    <2> QED
      BY <2>2, <2>5, <2>6, <2>7 DEF t1, t2, Drained
  <1> QED
    BY <1>5, <1>6

-----------------------------------------------------------------------------
(* Bodies, their rows and their elements. *)

RowEls == {e \in El : \E s \in Slot : \E i \in 1..Len(rows[s]) : rows[s][i].el = e}

RowsInv ==
  /\ \A s \in Slot :
       /\ template[s] = "if" => Len(rows[s]) <= 1
       /\ \A i \in 1..Len(rows[s]) : rows[s][i].el < nextId
  /\ live \subseteq RowEls

ViewInv == Shown(Drained) = live /\ IsInjective(Drained.children)

LEMMA LiveNumbered ==
  ASSUME TypeInv, RowsInv
  PROVE  nextId \notin live
  <1>1. \A s \in Slot : \A i \in 1..Len(rows[s]) : rows[s][i].el # nextId
    <2>1. ASSUME NEW s \in Slot, NEW i \in 1..Len(rows[s]) PROVE rows[s][i].el # nextId
      <3>1. rows[s] \in Seq(Row)
        BY TypeInvParts
      <3>2. rows[s][i] \in Row
        BY <3>1, ElementOfSeq
      <3>3. rows[s][i].el \in Nat /\ rows[s][i].el < nextId /\ nextId \in Nat
        BY <3>2, TypeInvParts DEF Row, El, RowsInv
      <3> QED
        BY <3>3
    <2> QED
      BY <2>1
  <1> QED
    BY <1>1 DEF RowsInv, RowEls

LEMMA MountRows ==
  ASSUME TypeInv, RowsInv, template' = template, NEW s \in Slot, MountElement(s) \/ MountIf(s)
  PROVE  RowsInv'
  <1>1. /\ nextId \in El /\ nextId' = nextId + 1 /\ nextId \in Nat
        /\ \/ rows' = rows /\ live' = live
           \/ /\ rows' = [rows EXCEPT ![s] = <<[key |-> "body", el |-> nextId]>>]
              /\ live' = live \cup {nextId} /\ rows[s] = <<>>
    BY TypeInvParts DEF MountElement, MountIf
  <1>2. Slot' = Slot /\ rows \in [Slot -> Seq(Row)]
    BY TypeInvParts DEF Slot
  <1>3. \A r \in Slot : \A i \in 1..Len(rows[r]) : rows[r][i].el < nextId'
    <2>1. ASSUME NEW r \in Slot, NEW i \in 1..Len(rows[r]) PROVE rows[r][i].el < nextId'
      <3>1. rows[r][i] \in Row
        BY <1>2, ElementOfSeq
      <3> QED
        BY <1>1, <3>1 DEF Row, El, RowsInv
    <2> QED
      BY <2>1
  <1>4. CASE rows' = rows /\ live' = live
    BY <1>2, <1>3, <1>4 DEF RowsInv, RowEls
  <1>5. CASE /\ rows' = [rows EXCEPT ![s] = <<[key |-> "body", el |-> nextId]>>]
             /\ live' = live \cup {nextId} /\ rows[s] = <<>>
    <2> DEFINE new == <<[key |-> "body", el |-> nextId]>>
    <2>1. Len(new) = 1 /\ new[1].el = nextId
      OBVIOUS
    <2>2. rows'[s] = new /\ \A r \in Slot : r # s => rows'[r] = rows[r]
      BY <1>2, <1>5
    <2> HIDE DEF new
    <2>3. nextId < nextId'
      BY <1>1
    <2>4. \A r \in Slot :
            /\ template[r] = "if" => Len(rows'[r]) <= 1
            /\ \A i \in 1..Len(rows'[r]) : rows'[r][i].el < nextId'
      <3>1. ASSUME NEW i \in 1..1 PROVE i = 1
        OBVIOUS
      <3>2. Len(rows'[s]) = 1 /\ \A i \in 1..Len(rows'[s]) : rows'[s][i].el < nextId'
        BY <2>1, <2>2, <2>3, <3>1
      <3>3. \A r \in Slot : template[r] = "if" => Len(rows[r]) <= 1
        BY DEF RowsInv
      <3>4. 1 <= 1
        OBVIOUS
      <3> QED
        BY <1>3, <2>2, <3>2, <3>3, <3>4
    <2>5. ASSUME NEW e \in live'
          PROVE  \E r \in Slot : \E i \in 1..Len(rows'[r]) : rows'[r][i].el = e
      <3>1. CASE e = nextId
        <4>1. 1 \in 1..Len(rows'[s]) /\ rows'[s][1].el = e
          BY <2>1, <2>2, <3>1
        <4> QED
          BY <4>1
      <3>2. CASE e \in live
        <4>1. PICK r \in Slot : \E i \in 1..Len(rows[r]) : rows[r][i].el = e
          BY <3>2 DEF RowsInv, RowEls
        <4>2. r # s
          BY <1>5, <4>1
        <4> QED
          BY <2>2, <4>1, <4>2
      <3> QED
        BY <1>5, <3>1, <3>2
    <2>6. live' \subseteq El
      BY <1>1, <1>5, TypeInvParts
    <2> QED
      BY <1>2, <2>4, <2>5, <2>6 DEF RowsInv, RowEls
  <1> QED
    BY <1>1, <1>4, <1>5

LEMMA UnmountRows ==
  ASSUME TypeInv, RowsInv, template' = template, NEW s \in Slot, UnmountIf(s)
  PROVE  RowsInv'
  <1>1. /\ rows' = [rows EXCEPT ![s] = <<>>] /\ live' = live \ {rows[s][1].el}
        /\ nextId' = nextId /\ template[s] = "if" /\ rows[s] # <<>>
    BY DEF UnmountIf
  <1>2. Slot' = Slot /\ rows \in [Slot -> Seq(Row)] /\ Len(rows[s]) <= 1
    BY <1>1, TypeInvParts DEF Slot, RowsInv
  <1>3. \A i \in 1..Len(rows[s]) : i = 1
    BY <1>2
  <1>4. rows'[s] = <<>> /\ \A r \in Slot : r # s => rows'[r] = rows[r]
    BY <1>1, <1>2
  <1>5. ASSUME NEW e \in live'
        PROVE  \E r \in Slot : \E i \in 1..Len(rows'[r]) : rows'[r][i].el = e
    <2>1. PICK r \in Slot : \E i \in 1..Len(rows[r]) : rows[r][i].el = e
      BY <1>1 DEF RowsInv, RowEls
    <2>2. r # s
      BY <1>1, <1>3, <2>1
    <2> QED
      BY <1>4, <2>1, <2>2
  <1>6. live' \subseteq El
    BY <1>1, TypeInvParts
  <1>7. \A r \in Slot :
          /\ template[r] = "if" => Len(rows'[r]) <= 1
          /\ \A i \in 1..Len(rows'[r]) : rows'[r][i].el < nextId
    <2>1. Len(<<>>) = 0
      OBVIOUS
    <2> QED
      BY <1>4, <2>1 DEF RowsInv
  <1> QED
    BY <1>1, <1>2, <1>5, <1>6, <1>7 DEF RowsInv, RowEls

\* The first of several numbers.
LEMMA FirstOfSome ==
  ASSUME NEW n \in Nat, NEW S \in SUBSET (1..n), S # {}
  PROVE  \E i \in S : \A j \in S : i <= j
  <1> DEFINE R == {k \in 0..n : (\E i \in S : i <= k) => \E i \in S : \A j \in S : i <= j}
  <1>1. 0 \in R
    OBVIOUS
  <1>2. ASSUME NEW k \in 1..n, k - 1 \in R PROVE k \in R
    <2>1. CASE \E i \in S : i <= k - 1
      BY <1>2, <2>1
    <2>2. CASE ~\E i \in S : i <= k - 1
      <3>1. \A j \in S : k <= j
        BY <2>2
      <3>2. (\E i \in S : i <= k) => k \in S
        BY <3>1
      <3> QED
        BY <3>1, <3>2
    <2> QED
      BY <2>1, <2>2
  <1> HIDE DEF R
  <1>3. 0..n \subseteq R
    BY <1>1, <1>2, AlongList
  <1>4. \A i \in S : i <= n
    OBVIOUS
  <1>5. n \in R
    BY <1>3
  <1> QED
    BY <1>4, <1>5 DEF R

\* A live row is taken into the next list or torn down.
LEMMA LiveTakenOrLeft ==
  ASSUME TypeInv, NEW s \in Slot, ReconcileEach(s),
         NEW i \in 1..Len(rows[s]), rows[s][i].el \in live,
         rows[s][i].el \notin {rows[s][j].el : j \in Left(s)}
  PROVE  \E j \in 1..Len(Next1(s)) : Next1(s)[j].el = rows[s][i].el
  <1> DEFINE old == rows[s]
             items == source[s]
             gone == 1..Len(old) \ Taken(old, items)
             same == {j \in gone : old[j].el = old[i].el}
  <1>1. /\ items \in Seq(Item) /\ old \in Seq(Row) /\ Len(Next1(s)) = Len(items)
        /\ Len(old) \in Nat
    BY Reconciled
  <1>2. Left(s) = {j \in gone : old[j].el \in live
                     /\ \A k \in gone : k < j => old[k].el # old[j].el}
    BY DEF Left, LeftBehind
  <1>3. same \in SUBSET (1..Len(old))
    OBVIOUS
  <1>4. same = {}
    <2>1. SUFFICES ASSUME same # {} PROVE FALSE
      OBVIOUS
    <2>2. PICK j \in same : \A k \in same : j <= k
      <3> HIDE DEF same
      <3> QED
        BY <1>1, <1>3, <2>1, FirstOfSome
    <2>3. \A k \in gone : k < j => old[k].el # old[j].el
      <3>1. ASSUME NEW k \in gone, k < j, old[k].el = old[j].el PROVE FALSE
        <4>1. k \in same
          BY <2>2, <3>1
        <4>2. j <= k /\ k \in Nat /\ j \in Nat
          BY <2>2, <4>1, <1>3
        <4> QED
          BY <3>1, <4>2
      <3> QED
        BY <3>1
    <2>4. j \in Left(s)
      BY <1>2, <2>2, <2>3
    <2> QED
      BY <2>2, <2>4
  <1>5. i \in Taken(old, items)
    BY <1>4
  <1>6. PICK j \in 1..Len(items) : i = OldIndex(old, items[j].key)
    BY <1>5 DEF Taken
  <1>7. Next1(s)[j] = old[i]
    <2>1. nextId \in Nat \ {0}
      BY TypeInvParts
    <2>2. i # 0
      BY <1>1
    <2>3. Next1(s) = NextRows(old, items)
      BY DEF Next1
    <2>4. items \in Seq(Item) /\ old \in Seq(Row)
      BY <1>1
    <2> HIDE DEF old, items
    <2>5. OldIndex(old, items[j].key) # 0 =>
            NextRows(old, items)[j] = old[OldIndex(old, items[j].key)]
      BY <2>1, <2>4, NextRowsFacts
    <2> QED
      BY <1>6, <2>2, <2>3, <2>5
  <1> QED
    BY <1>1, <1>6, <1>7

LEMMA ReconcileRows ==
  ASSUME TypeInv, RowsInv, template' = template, NEW s \in Slot, ReconcileEach(s)
  PROVE  RowsInv'
  <1>1. /\ rows' = [rows EXCEPT ![s] = Next1(s)] /\ template[s] = "each"
        /\ live' = (live \cup Made(s)) \ {rows[s][i].el : i \in Left(s)}
        /\ Next1(s) \in Seq(Row) /\ Len(Next1(s)) = Len(source[s]) /\ rows[s] \in Seq(Row)
        /\ source[s] \in Seq(Item)
    BY Reconciled
  <1>2. Slot' = Slot /\ rows \in [Slot -> Seq(Row)] /\ live \subseteq El
    BY TypeInvParts DEF Slot
  <1>3. rows'[s] = Next1(s) /\ \A r \in Slot : r # s => rows'[r] = rows[r]
    BY <1>1, <1>2
  <1>4. nextId \in Nat \ {0} /\ nextId' \in Nat /\ nextId' >= nextId
    BY NumbersSuffice, TypeInvParts, BoundsAssumption
  <1>5. \A r \in Slot : \A i \in 1..Len(rows[r]) : rows[r][i].el < nextId'
    <2>1. ASSUME NEW r \in Slot, NEW i \in 1..Len(rows[r]) PROVE rows[r][i].el < nextId'
      <3>1. rows[r][i] \in Row
        BY <1>2, ElementOfSeq
      <3> QED
        BY <1>4, <3>1 DEF Row, El, RowsInv
    <2> QED
      BY <2>1
  <1>6. ASSUME NEW i \in 1..Len(Next1(s)) PROVE Next1(s)[i].el < nextId'
    <2> DEFINE old == rows[s]
               items == source[s]
               N(k) == Cardinality(NewUpTo(old, items, k))
    <2>1. Next1(s) = NextRows(old, items) /\ i \in 1..Len(items) /\ Len(items) \in Nat
      BY <1>1 DEF Next1
    <2>2. nextId' = nextId + N(Len(items))
      BY Reconciled
    <2>3. old \in Seq(Row) /\ items \in Seq(Item)
      BY <1>1
    <2> HIDE DEF old, items
    <2>4. /\ OldIndex(old, items[i].key) # 0 =>
               /\ Next1(s)[i] = old[OldIndex(old, items[i].key)]
               /\ OldIndex(old, items[i].key) \in 1..Len(old)
          /\ OldIndex(old, items[i].key) = 0 => Next1(s)[i].el = nextId - 1 + N(i)
      <3>1. nextId \in Nat \ {0} /\ i \in 1..Len(items)
        BY <1>4, <2>1
      <3>2. /\ OldIndex(old, items[i].key) # 0 =>
                 NextRows(old, items)[i] = old[OldIndex(old, items[i].key)]
            /\ OldIndex(old, items[i].key) = 0 =>
                 NextRows(old, items)[i].el = nextId - 1 + N(i)
        BY <2>3, <3>1, NextRowsFacts
      <3>3. OldIndex(old, items[i].key) # 0 => OldIndex(old, items[i].key) \in 1..Len(old)
        BY <2>3, OldIndexFacts
      <3> HIDE DEF N
      <3> QED
        BY <2>1, <3>2, <3>3
    <2>5. N(i) \in Nat /\ N(Len(items)) \in Nat /\ N(i) <= N(Len(items))
      <3>1. i \in 0..Len(items) /\ Len(items) \in 0..Len(items) /\ i <= Len(items)
        BY <2>1
      <3> QED
        BY <2>3, <3>1, NewUpToFacts
    <2> HIDE DEF N
    <2>6. CASE OldIndex(old, items[i].key) # 0
      BY <1>5, <2>4, <2>6 DEF old
    <2>7. CASE OldIndex(old, items[i].key) = 0
      BY <1>4, <2>2, <2>4, <2>5, <2>7
    <2> QED
      BY <2>6, <2>7
  <1>7. \A r \in Slot :
          /\ template[r] = "if" => Len(rows'[r]) <= 1
          /\ \A i \in 1..Len(rows'[r]) : rows'[r][i].el < nextId'
    BY <1>1, <1>3, <1>5, <1>6 DEF RowsInv
  <1>8. live' \subseteq El
    BY <1>1, <1>2 DEF Made
  <1>9. ASSUME NEW e \in live'
        PROVE  \E r \in Slot : \E i \in 1..Len(rows'[r]) : rows'[r][i].el = e
    <2>1. CASE e \in Made(s)
      BY <1>3, <2>1 DEF Made
    <2>2. CASE e \in live
      <3>1. PICK r \in Slot : \E i \in 1..Len(rows[r]) : rows[r][i].el = e
        BY <2>2 DEF RowsInv, RowEls
      <3>2. CASE r # s
        BY <1>3, <3>1, <3>2
      <3>3. CASE r = s
        <4>1. PICK i \in 1..Len(rows[s]) : rows[s][i].el = e
          BY <3>1, <3>3
        <4>2. \E j \in 1..Len(Next1(s)) : Next1(s)[j].el = e
          BY <1>1, <2>2, <4>1, LiveTakenOrLeft
        <4> QED
          BY <1>3, <4>2
      <3> QED
        BY <3>2, <3>3
    <2> QED
      BY <1>1, <2>1, <2>2
  <1> QED
    BY <1>2, <1>7, <1>8, <1>9 DEF RowsInv, RowEls

LEMMA RunRows ==
  ASSUME TypeInv, RowsInv, template' = template, NEW s \in Slot, RunBlock(s)
  PROVE  RowsInv'
  <1>1. CASE KeepIf(s)
    BY <1>1 DEF KeepIf, block, RowsInv, RowEls, Slot
  <1> QED
    BY <1>1, MountRows, UnmountRows, ReconcileRows DEF RunBlock

-----------------------------------------------------------------------------
(* What is on screen is what lives. *)

LEMMA BodyIsNotStatic == Body # Static
  BY DEF Body, Static

LEMMA MountShows ==
  ASSUME TypeInv, RowsInv, tree' = tree, Shown(Drained) = live,
         NEW s \in Slot, MountElement(s) \/ MountIf(s)
  PROVE  Shown(Drained') = live'
  <1>1. Drained \in Tree /\ nextId \notin live /\ nextId \in El
    BY DrainedType, LiveNumbered DEF MountElement, MountIf
  <1>2. AnchorAfter(slots, s) \in El \cup {NoEl}
    BY TypeInvParts, AnchorType DEF Slot
  <1>3. \E text \in {Static, Body}, before \in El \cup {NoEl} :
          /\ log' = log \o <<Create(nextId, text), Attach(nextId, before)>>
          /\ live' = IF text = Static THEN live ELSE live \cup {nextId}
    <2>1. CASE MountElement(s)
      BY <2>1 DEF MountElement
    <2>2. CASE MountIf(s)
      BY <1>2, <2>2, BodyIsNotStatic DEF MountIf
    <2> QED
      BY <2>1, <2>2
  <1>4. PICK text \in {Static, Body}, before \in El \cup {NoEl} :
          /\ log' = log \o <<Create(nextId, text), Attach(nextId, before)>>
          /\ live' = IF text = Static THEN live ELSE live \cup {nextId}
    BY <1>3
  <1> DEFINE a == Create(nextId, text)
             b == Attach(nextId, before)
             u == ApplyMutation(Drained, a)
  <1>5. a \in Mutation /\ b \in Mutation
    BY <1>1, <1>4, TextTypes, MutationTypes
  <1>6. a.op = "create" /\ a.el = nextId /\ a.text = text /\ b.op = "attach"
    BY DEF Create, Attach
  <1> HIDE DEF a, b
  <1>7. Drained' = ApplyMutation(u, b)
    <2>1. <<a, b>> \in Seq(Mutation)
      BY <1>5
    <2>2. Drained' = Replayed(Drained, <<a, b>>)
      BY <1>4, <2>1, LogGrows DEF a, b
    <2> QED
      BY <1>1, <1>5, <2>2, PairReplayed
  <1>8. u \in Tree /\ Shown(u) = live'
    <2>1. u \in Tree
      BY <1>1, <1>5, AppliedTree
    <2>2. Shown(u) = IF text = Static THEN Shown(Drained) \ {nextId}
                     ELSE Shown(Drained) \cup {nextId}
      BY <1>1, <1>5, <1>6, ShownStep
    <2> QED
      BY <1>1, <1>4, <2>1, <2>2
  <1> HIDE DEF u
  <1>9. Shown(ApplyMutation(u, b)) = Shown(u)
    BY <1>5, <1>6, <1>8, ShownStep
  <1> QED
    BY <1>7, <1>8, <1>9

LEMMA UnmountShows ==
  ASSUME TypeInv, tree' = tree, Shown(Drained) = live, NEW s \in Slot, UnmountIf(s)
  PROVE  Shown(Drained') = live'
  <1> DEFINE el == rows[s][1].el
             a == Delete(el)
  <1>1. log' = Append(log, a) /\ live' = live \ {el} /\ rows[s] \in Seq(Row) /\ rows[s] # <<>>
    BY TypeInvParts DEF UnmountIf
  <1>2. el \in El
    <2>1. rows[s][1] \in Row
      BY <1>1
    <2> QED
      BY <2>1 DEF Row
  <1>3. a \in Mutation /\ a.op = "remove" /\ a.el = el
    BY <1>2, MutationTypes DEF Delete
  <1> HIDE DEF a, el
  <1>4. Drained \in Tree
    BY DrainedType
  <1>5. log' = log \o <<a>> /\ <<a>> \in Seq(Mutation)
    <2>1. log \in Seq(Mutation)
      BY TypeInvParts
    <2> QED
      BY <1>1, <1>3, <2>1
  <1>6. Drained' = Replayed(Drained, <<a>>)
    BY <1>5, LogGrows
  <1>7. Drained' = ApplyMutation(Drained, a)
    BY <1>3, <1>4, <1>6, OneReplayed
  <1> QED
    BY <1>1, <1>3, <1>4, <1>7, ShownStep

\* Whatever is logged keeps the children apart.
LEMMA RunApart ==
  ASSUME TypeInv, tree' = tree, IsInjective(Drained.children), NEW s \in Slot, RunBlock(s)
  PROVE  IsInjective(Drained'.children)
  <1>1. Drained \in Tree /\ log \in Seq(Mutation)
    BY DrainedType, TypeInvParts
  <1>2. \E ms \in Seq(Mutation) : log' = log \o ms
    <2>1. CASE MountElement(s) \/ MountIf(s)
      <3>1. AnchorAfter(slots, s) \in El \cup {NoEl}
        BY TypeInvParts, AnchorType DEF Slot
      <3>2. nextId \in El
        BY <2>1 DEF MountElement, MountIf
      <3>3. /\ Create(nextId, Static) \in Mutation /\ Create(nextId, Body) \in Mutation
            /\ Attach(nextId, NoEl) \in Mutation
            /\ Attach(nextId, AnchorAfter(slots, s)) \in Mutation
        BY <3>1, <3>2, TextTypes, MutationTypes
      <3>4. \/ log' = log \o <<Create(nextId, Static), Attach(nextId, NoEl)>>
            \/ log' = log \o <<Create(nextId, Body), Attach(nextId, AnchorAfter(slots, s))>>
        BY <2>1 DEF MountElement, MountIf
      <3>5. \A x, y \in Mutation : <<x, y>> \in Seq(Mutation)
        OBVIOUS
      <3> QED
        BY <3>3, <3>4, <3>5
    <2>2. CASE UnmountIf(s)
      <3>1. log' = Append(log, Delete(rows[s][1].el)) /\ rows[s] # <<>> /\ rows[s] \in Seq(Row)
        BY <2>2, TypeInvParts DEF UnmountIf
      <3>2. rows[s][1] \in Row
        BY <3>1
      <3>3. Delete(rows[s][1].el) \in Mutation
        BY <3>2, MutationTypes DEF Row
      <3>4. \A x \in Mutation : Append(log, x) = log \o <<x>> /\ <<x>> \in Seq(Mutation)
        BY <1>1
      <3> QED
        BY <3>1, <3>3, <3>4
    <2>3. CASE KeepIf(s)
      <3>1. log' = log \o <<>> /\ <<>> \in Seq(Mutation)
        BY <1>1, <2>3 DEF KeepIf, block
      <3> QED
        BY <3>1
    <2>4. CASE ReconcileEach(s)
      <3> DEFINE a == Patches(Next1(s), source[s])
                 b == Removals(rows[s], Left(s))
                 c == MovesThen(s)
      <3>1. /\ a \in Seq(Mutation) /\ b \in Seq(Mutation) /\ c \in Seq(Mutation)
            /\ log' = ((log \o a) \o b) \o c
        BY <2>4, Reconciled
      <3> HIDE DEF a, b, c
      <3>2. a \o b \in Seq(Mutation)
        BY <3>1, ConcatProperties
      <3>3. (a \o b) \o c \in Seq(Mutation)
        BY <3>1, <3>2, ConcatProperties
      <3>4. ((log \o a) \o b) \o c = log \o ((a \o b) \o c)
        <4> DEFINE d == a \o b
        <4>1. (log \o a) \o b = log \o d
          BY <1>1, <3>1, ConcatAssociative
        <4>2. d \in Seq(Mutation)
          BY <3>2
        <4> HIDE DEF d
        <4>3. (log \o d) \o c = log \o (d \o c)
          BY <1>1, <3>1, <4>2, ConcatAssociative
        <4> QED
          BY <4>1, <4>3 DEF d
      <3> QED
        BY <3>1, <3>3, <3>4
    <2> QED
      BY <2>1, <2>2, <2>3, <2>4 DEF RunBlock
  <1>3. PICK ms \in Seq(Mutation) : log' = log \o ms
    BY <1>2
  <1>4. Drained' = Replayed(Drained, ms)
    BY <1>3, LogGrows
  <1> QED
    BY <1>1, <1>4, ReplayedTree

LEMMA RunView ==
  ASSUME TypeInv, RowsInv, ViewInv, tree' = tree, NEW s \in Slot, RunBlock(s)
  PROVE  ViewInv'
  <1>1. CASE KeepIf(s)
    BY <1>1 DEF KeepIf, block, ViewInv, Drained
  <1>2. CASE ~KeepIf(s)
    <2>1. Shown(Drained') = live'
      BY <1>2, MountShows, UnmountShows, ReconcileShows DEF RunBlock, ViewInv
    <2>2. IsInjective(Drained'.children)
      BY RunApart DEF ViewInv
    <2> QED
      BY <2>1, <2>2 DEF ViewInv
  <1> QED
    BY <1>1, <1>2

LEMMA HandleView ==
  ASSUME TypeInv, RowsInv, ViewInv, HandleBegins \/ HandleReturns
  PROVE  RowsInv' /\ ViewInv' /\ Drained'.children = Drained.children
         /\ Drained'.text = Drained.text
  <1>1. /\ UNCHANGED <<rows, live, nextId, app>>
        /\ \/ tree' = tree /\ log' = log
           \/ log' = <<>> /\ tree' \in {Drained,
                 [Drained EXCEPT !.heard = targets \cap DOMAIN Drained.text]}
    BY DEF HandleBegins, HandleReturns
  <1>2. RowsInv'
    BY <1>1 DEF RowsInv, RowEls, app, Slot
  <1>3. Drained \in Tree /\ tree' \in Tree
    <2>1. TypeInv'
      BY HandleTypes
    <2> QED
      BY <2>1, DrainedType DEF TypeInv
  <1>4. Drained'.children = Drained.children /\ Drained'.text = Drained.text
    <2>1. CASE tree' = tree /\ log' = log
      BY <2>1 DEF Drained
    <2>2. CASE log' = <<>> /\ tree' \in {Drained,
                 [Drained EXCEPT !.heard = targets \cap DOMAIN Drained.text]}
      <3>1. Drained' = tree'
        <4>1. Replayed(tree', <<>>) = tree'
          BY <1>3, ReplayedNothing
        <4> QED
          BY <2>2, <4>1 DEF Drained
      <3> DEFINE d == Drained
      <3>2. d = [children |-> d.children, text |-> d.text, heard |-> d.heard]
        <4> HIDE DEF d
        <4>1. d \in Tree
          BY <1>3 DEF d
        <4> QED
          BY <4>1 DEF Tree
      <3> HIDE DEF d
      <3>3. tree' = d \/ tree' = [d EXCEPT !.heard = targets \cap DOMAIN d.text]
        BY <2>2 DEF d
      <3>4. tree'.children = d.children /\ tree'.text = d.text
        BY <3>2, <3>3
      <3> QED
        BY <3>1, <3>4 DEF d
    <2> QED
      BY <1>1, <2>1, <2>2
  <1>5. ViewInv'
    <2>1. live' = live
      BY <1>1
    <2> QED
      BY <1>4, <2>1 DEF ViewInv, Shown
  <1> QED
    BY <1>2, <1>4, <1>5

LEMMA OrphanInit == Init => RowsInv /\ ViewInv
  <1>1. SUFFICES ASSUME Init PROVE RowsInv /\ ViewInv
    OBVIOUS
  <1>2. rows = [s \in Slot |-> <<>>] /\ live = {} /\ tree = NewTree /\ log = <<>>
    BY <1>1 DEF Init
  <1>3. RowsInv
    BY <1>2 DEF RowsInv
  <1>4. Drained = NewTree
    <2>1. TypeInv
      BY <1>1, TypeInit
    <2>2. NewTree \in Tree
      BY <1>2, <2>1 DEF TypeInv
    <2> QED
      BY <1>2, <2>2, ReplayedNothing DEF Drained
  <1>5. DOMAIN NewTree.text = {} /\ NewTree.children = <<>>
    BY DEF NewTree
  <1>6. IsInjective(<<>>)
    BY DEF IsInjective
  <1> QED
    BY <1>2, <1>3, <1>4, <1>5, <1>6 DEF ViewInv, Shown

LEMMA OrphanStep == TypeInv /\ RowsInv /\ ViewInv /\ [Next]_vars => RowsInv' /\ ViewInv'
  <1>1. SUFFICES ASSUME TypeInv, RowsInv, ViewInv, [Next]_vars PROVE RowsInv' /\ ViewInv'
    OBVIOUS
  <1>2. CASE Build \/ Flush
    <2>1. template' = template /\ tree' = tree /\ \E s \in Slot : RunBlock(s)
      BY <1>1, <1>2 DEF Build, Flush, host, TypeInv, TypeOK
    <2> QED
      BY <1>1, <2>1, RunRows, RunView
  <1>3. CASE HandleBegins \/ HandleReturns
    BY <1>1, <1>3, HandleView
  <1>4. CASE OutsideWrite \/ UserClicks \/ RouteClick \/ UNCHANGED vars
    <2>1. UNCHANGED <<block, template, tree>>
      BY <1>4 DEF OutsideWrite, UserClicks, RouteClick, Write, vars, block, app, host
    <2> QED
      BY <1>1, <2>1 DEF RowsInv, RowEls, ViewInv, Drained, block, Slot
  <1> QED
    BY <1>1, <1>2, <1>3, <1>4 DEF Next

LEMMA OrphansHold == Spec => [](TypeInv /\ RowsInv /\ ViewInv)
  <1>1. Init => TypeInv /\ RowsInv /\ ViewInv
    BY TypeInit, OrphanInit
  <1>2. TypeInv /\ RowsInv /\ ViewInv /\ [Next]_vars => (TypeInv /\ RowsInv /\ ViewInv)'
    BY TypeStep, OrphanStep
  <1> QED
    BY <1>1, <1>2, PTL DEF Spec

\* When handle has returned, the bodies on screen are those whose branch Scope
\* lives, a living Scope has its row, and no element is shown twice: teardown
\* and removal go together whatever the lists were, repeated keys or not
\* (reconcile_each, unmount_if and the drain of app_host.rs).
THEOREM DynamicNoOrphans == Spec => []NoOrphans
  <1>1. TypeInv /\ RowsInv /\ ViewInv => NoOrphans
    <2>1. SUFFICES ASSUME TypeInv, RowsInv, ViewInv, AtRest
                   PROVE  /\ live \subseteq RowEls
                          /\ Shown(tree) = live
                          /\ \A i, j \in 1..Len(tree.children) :
                               tree.children[i] = tree.children[j] => i = j
      BY DEF NoOrphans, RowEls, Shown
    <2>2. tree \in Tree
      BY <2>1 DEF TypeInv
    <2>3. Drained = tree
      BY <2>1, <2>2, ReplayedNothing DEF AtRest, Drained
    <2>4. DOMAIN tree.children = 1..Len(tree.children)
      BY <2>2 DEF Tree
    <2> QED
      BY <2>1, <2>3, <2>4 DEF RowsInv, ViewInv, IsInjective
  <1> QED
    BY <1>1, OrphansHold, PTL

-----------------------------------------------------------------------------
(* Rows are keyed. *)

\* A block that has run has the rows of its list; the rows of one that is to
\* run have different keys while no list has repeated one.
KeyedInv ==
  \A s \in Slot : template[s] = "each" =>
    /\ s \notin pending => Keys(rows[s]) = Keys(source[s])
    /\ s \in pending /\ distinct => Distinct(rows[s])

LEMMA KeysFacts ==
  ASSUME NEW T, NEW a \in Seq(T)
  PROVE  /\ DOMAIN Keys(a) = 1..Len(a)
         /\ \A i \in 1..Len(a) : Keys(a)[i] = a[i].key
         /\ Keys(a) = [i \in 1..Len(a) |-> Keys(a)[i]]
  BY DEF Keys

LEMMA KeysEqual ==
  ASSUME NEW T, NEW a \in Seq(T), NEW U, NEW b \in Seq(U), Keys(a) = Keys(b)
  PROVE  Len(a) = Len(b) /\ \A i \in 1..Len(a) : a[i].key = b[i].key
  <1>1. DOMAIN Keys(a) = DOMAIN Keys(b) /\ Len(a) \in Nat /\ Len(b) \in Nat
    OBVIOUS
  <1>2. 1..Len(a) = 1..Len(b)
    BY <1>1, KeysFacts
  <1>3. Len(a) = Len(b)
    <2> DEFINE m == Len(a)
               n == Len(b)
    <2>1. m \in Nat /\ n \in Nat /\ 1..m = 1..n
      BY <1>1, <1>2
    <2> HIDE DEF m, n
    <2>2. (m \in 1..m \/ m = 0) /\ (n \in 1..n \/ n = 0)
      BY <2>1
    <2>3. (m \in 1..n \/ m = 0) /\ (n \in 1..m \/ n = 0)
      BY <2>1, <2>2
    <2>4. m <= n /\ n <= m
      BY <2>1, <2>3
    <2>5. m = n
      BY <2>1, <2>4
    <2> QED
      BY <2>5 DEF m, n
  <1>4. ASSUME NEW i \in 1..Len(a) PROVE a[i].key = b[i].key
    <2>1. Keys(a)[i] = a[i].key /\ Keys(b)[i] = b[i].key
      BY <1>2, KeysFacts
    <2> QED
      BY <2>1
  <1> QED
    BY <1>3, <1>4

LEMMA KeysOfNext ==
  ASSUME TypeInv, NEW s \in Slot, ReconcileEach(s)
  PROVE  Keys(Next1(s)) = Keys(source[s])
  <1> DEFINE next == Next1(s)
             old == rows[s]
             items == source[s]
  <1>1. /\ items \in Seq(Item) /\ old \in Seq(Row) /\ next \in Seq(Row) /\ Len(next) = Len(items)
        /\ next = NextRows(old, items)
    BY Reconciled DEF Next1
  <1>2. nextId \in Nat \ {0}
    BY TypeInvParts
  <1> HIDE DEF next, old, items
  <1>3. \A i \in 1..Len(items) : NextRows(old, items)[i].key = items[i].key
    BY <1>1, <1>2, NextRowsFacts
  <1>4. Keys(next) = Keys(items)
    BY <1>1, <1>3 DEF Keys
  <1> QED
    BY <1>4 DEF next, items

\* With different keys the row of a key is the only one.
LEMMA KeyedRow ==
  ASSUME TypeInv, NEW s \in Slot, ReconcileEach(s), Distinct(rows[s]),
         NEW i \in 1..Len(rows[s]), NEW j \in 1..Len(Next1(s)),
         rows[s][i].key = Next1(s)[j].key
  PROVE  Next1(s)[j] = rows[s][i] /\ OldIndex(rows[s], source[s][j].key) = i
  <1> DEFINE next == Next1(s)
             old == rows[s]
             items == source[s]
             o == OldIndex(old, items[j].key)
  <1>1. /\ items \in Seq(Item) /\ old \in Seq(Row) /\ Len(next) = Len(items)
        /\ next = NextRows(old, items) /\ nextId \in Nat \ {0} /\ j \in 1..Len(items)
        /\ i \in 1..Len(old) /\ old[i].key = next[j].key /\ Distinct(old)
    BY Reconciled, TypeInvParts DEF Next1
  <1> HIDE DEF next, old, items
  <1>2. /\ NextRows(old, items)[j].key = items[j].key
        /\ OldIndex(old, items[j].key) # 0 =>
             NextRows(old, items)[j] = old[OldIndex(old, items[j].key)]
    BY <1>1, NextRowsFacts
  <1>3. /\ o # 0 => o \in 1..Len(old) /\ old[o].key = items[j].key
        /\ o = 0 => \A k \in 1..Len(old) : old[k].key # items[j].key
    BY <1>1, OldIndexFacts
  <1>4. o # 0 /\ old[i].key = items[j].key
    BY <1>1, <1>2, <1>3
  <1>5. o = i
    BY <1>1, <1>3, <1>4 DEF Distinct
  <1>6. next[j] = old[i]
    BY <1>1, <1>2, <1>4, <1>5
  <1> QED
    BY <1>5, <1>6 DEF next, old, items

LEMMA NothingJoined ==
  ASSUME NEW T, NEW n \in Nat, NEW f, f = [i \in 1..n |-> <<>>]
  PROVE  FlattenSeq(f) = <<>>
  <1>1. Options(f, n, T)
    BY DEF Options
  <1>2. Joins(FlattenSeq(f), f, n, T)
    BY <1>1, JoinedOptions
  <1> DEFINE list == FlattenSeq(f)
  <1>3. list \in Seq(T) /\ \A x : Contains(list, x) => \E i \in 1..n : f[i] = <<x>>
    BY <1>2 DEF Joins
  <1>4. \A x : ~Contains(list, x)
    <2>1. \A i \in 1..n : f[i] = <<>>
      OBVIOUS
    <2>2. \A x : <<x>> # <<>>
      OBVIOUS
    <2> HIDE DEF list
    <2> QED
      BY <1>3, <2>1, <2>2
  <1> HIDE DEF list
  <1>5. Len(list) = 0
    <2>1. CASE Len(list) > 0
      <3>1. 1 \in 1..Len(list)
        BY <1>3, <2>1
      <3>2. Contains(list, list[1])
        BY <3>1 DEF Contains
      <3> QED
        BY <1>4, <3>2
    <2> QED
      BY <1>3, <2>1
  <1> QED
    BY <1>3, <1>5 DEF list

\* A change of values alone patches texts.
LEMMA ValuesPatched ==
  ASSUME TypeInv, RowsInv, NEW s \in Slot, ReconcileEach(s), Distinct(rows[s]),
         Keys(rows[s]) = Keys(source[s]), NEW n \in (Len(log) + 1)..Len(log')
  PROVE  log'[n].op = "text"
  <1> DEFINE a == Patches(Next1(s), source[s])
             b == Removals(rows[s], Left(s))
             c == MovesThen(s)
  <1>1. /\ a \in Seq(Mutation) /\ b \in Seq(Mutation) /\ c \in Seq(Mutation)
        /\ log' = ((log \o a) \o b) \o c /\ log \in Seq(Mutation)
        /\ rows[s] \in Seq(Row) /\ source[s] \in Seq(Item) /\ Next1(s) \in Seq(Row)
        /\ Len(Next1(s)) = Len(source[s])
    BY Reconciled, TypeInvParts
  <1>2. Len(rows[s]) = Len(source[s]) /\ \A i \in 1..Len(rows[s]) : rows[s][i].key = source[s][i].key
    BY <1>1, KeysEqual
  <1>3. \A i \in 1..Len(source[s]) : Next1(s)[i].key = source[s][i].key
    <2>1. Keys(Next1(s)) = Keys(source[s])
      BY KeysOfNext
    <2> QED
      BY <1>1, <2>1, KeysEqual
  <1>4. \A i \in 1..Len(rows[s]) :
          Next1(s)[i] = rows[s][i] /\ OldIndex(rows[s], source[s][i].key) = i
    <2>1. ASSUME NEW i \in 1..Len(rows[s])
          PROVE  Next1(s)[i] = rows[s][i] /\ OldIndex(rows[s], source[s][i].key) = i
      <3>1. i \in 1..Len(Next1(s)) /\ rows[s][i].key = Next1(s)[i].key
        BY <1>1, <1>2, <1>3
      <3> QED
        BY <3>1, KeyedRow
    <2> QED
      BY <2>1
  <1>5. c = <<>>
    BY DEF MovesThen
  <1>6. b = <<>>
    <2>1. Left(s) = {}
      <3>1. Taken(rows[s], source[s]) = 1..Len(rows[s])
        BY <1>2, <1>4 DEF Taken
      <3> QED
        BY <3>1 DEF Left, LeftBehind
    <2>2. b = FlattenSeq([i \in 1..Len(rows[s]) |-> <<>>])
      BY <2>1 DEF Removals
    <2>3. Len(rows[s]) \in Nat
      BY <1>1
    <2> QED
      BY <2>2, <2>3, NothingJoined
  <1>7. \A k \in 1..Len(a) : a[k].op = "text"
    <2>1. Made(s) = {}
      <3>1. \A i \in 1..Len(Next1(s)) : Next1(s)[i].el < nextId /\ Next1(s)[i].el \in Nat
        <4>1. ASSUME NEW i \in 1..Len(Next1(s))
              PROVE  Next1(s)[i].el < nextId /\ Next1(s)[i].el \in Nat
          <5>1. i \in 1..Len(rows[s]) /\ Next1(s)[i] = rows[s][i]
            BY <1>1, <1>2, <1>4
          <5>2. Next1(s)[i] \in Row
            BY <1>1, ElementOfSeq
          <5> QED
            BY <5>1, <5>2 DEF RowsInv, Row, El
        <4> QED
          BY <4>1
      <3>2. nextId \in Nat
        BY TypeInvParts
      <3> QED
        BY <3>1, <3>2 DEF Made
    <2>2. \A k \in 1..Len(a) : (a[k].op = "create" /\ a[k].el \in Made(s)) \/ a[k].op = "text"
      BY PatchKinds
    <2> HIDE DEF a
    <2> QED
      BY <2>1, <2>2
  <1> HIDE DEF a, b, c
  <1>8. log' = log \o a
    <2>1. log \o a \in Seq(Mutation)
      BY <1>1, ConcatProperties
    <2>2. (log \o a) \o <<>> = log \o a
      BY <2>1, ConcatEmptySeq
    <2> QED
      BY <1>1, <1>5, <1>6, <2>2
  <1>9. /\ Len(log \o a) = Len(log) + Len(a)
        /\ \A i \in 1..(Len(log) + Len(a)) :
             (log \o a)[i] = IF i <= Len(log) THEN log[i] ELSE a[i - Len(log)]
    BY <1>1, ConcatProperties
  <1>10. Len(log) \in Nat /\ Len(a) \in Nat
    BY <1>1
  <1>11. /\ n \in 1..(Len(log) + Len(a)) /\ ~(n <= Len(log)) /\ n - Len(log) \in 1..Len(a)
    BY <1>8, <1>9, <1>10
  <1> QED
    BY <1>7, <1>8, <1>9, <1>11

LEMMA KeyedRun ==
  ASSUME TypeInv, KeyedInv, NEW s \in Slot, RunBlock(s), pending' = pending \ {s},
         UNCHANGED <<template, source, distinct>>
  PROVE  KeyedInv'
  <1>1. Slot' = Slot /\ rows \in [Slot -> Seq(Row)]
    BY TypeInvParts DEF Slot
  <1>2. \A r \in Slot : r # s => rows'[r] = rows[r]
    <2>1. rows' = rows \/ \E x : rows' = [rows EXCEPT ![s] = x]
      BY DEF RunBlock, MountElement, MountIf, UnmountIf, KeepIf, ReconcileEach, block
    <2> QED
      BY <1>1, <2>1
  <1>3. ASSUME template[s] = "each" PROVE Keys(rows'[s]) = Keys(source[s])
    <2>1. ReconcileEach(s)
      BY <1>3 DEF RunBlock, MountElement, MountIf, UnmountIf, KeepIf
    <2>2. rows' = [rows EXCEPT ![s] = Next1(s)]
      BY <2>1, Reconciled
    <2>3. rows'[s] = Next1(s)
      BY <1>1, <2>2
    <2> QED
      BY <2>1, <2>3, KeysOfNext
  <1>4. ASSUME NEW r \in Slot, template'[r] = "each"
        PROVE  /\ r \notin pending' => Keys(rows'[r]) = Keys(source'[r])
               /\ r \in pending' /\ distinct' => Distinct(rows'[r])
    <2>1. CASE r = s
      BY <1>3, <1>4, <2>1
    <2>2. CASE r # s
      BY <1>2, <1>4, <2>2 DEF KeyedInv
    <2> QED
      BY <2>1, <2>2
  <1> QED
    BY <1>1, <1>4 DEF KeyedInv

LEMMA KeyedWrite ==
  ASSUME TypeInv, KeyedInv, pending = {}, Write, rows' = rows
  PROVE  KeyedInv'
  <1>1. /\ template' = template /\ Slot' = Slot
        /\ pending' = {s \in Slot : source'[s] # source[s]}
    BY DEF Write, Slot
  <1>2. ASSUME distinct', NEW s \in Slot, template[s] = "each"
        PROVE  Distinct(source[s])
    BY <1>2 DEF Write
  <1>3. ASSUME NEW s \in Slot, template[s] = "each"
        PROVE  /\ s \notin pending' => Keys(rows[s]) = Keys(source'[s])
               /\ s \in pending' /\ distinct' => Distinct(rows[s])
    <2>1. Keys(rows[s]) = Keys(source[s])
      BY <1>3 DEF KeyedInv
    <2>2. s \notin pending' => source'[s] = source[s]
      BY <1>1
    <2>3. rows[s] \in Seq(Row) /\ source[s] \in Seq(Item)
      BY <1>3, TypeInvParts
    <2>4. Len(rows[s]) = Len(source[s]) /\ \A i \in 1..Len(rows[s]) : rows[s][i].key = source[s][i].key
      BY <2>1, <2>3, KeysEqual
    <2>5. Distinct(source[s]) => Distinct(rows[s])
      BY <2>4 DEF Distinct
    <2> QED
      BY <1>2, <1>3, <2>1, <2>2, <2>5
  <1> QED
    BY <1>1, <1>3 DEF KeyedInv

LEMMA KeyedInit == Init => KeyedInv
  <1>1. SUFFICES ASSUME Init PROVE KeyedInv
    OBVIOUS
  <1>2. pending = Slot /\ rows = [s \in Slot |-> <<>>]
    BY <1>1 DEF Init
  <1>3. Distinct(<<>>)
    BY DEF Distinct
  <1> QED
    BY <1>2, <1>3 DEF KeyedInv

LEMMA KeyedStep == TypeInv /\ KeyedInv /\ [Next]_vars => KeyedInv'
  <1>1. SUFFICES ASSUME TypeInv, KeyedInv, [Next]_vars PROVE KeyedInv'
    OBVIOUS
  <1>2. CASE Build \/ Flush
    <2>1. /\ UNCHANGED <<template, source, distinct>>
          /\ \E s \in Slot : RunBlock(s) /\ pending' = pending \ {s}
      BY <1>1, <1>2 DEF Build, Flush, host, TypeInv, TypeOK
    <2> QED
      BY <1>1, <2>1, KeyedRun
  <1>3. CASE pending = {} /\ Write /\ rows' = rows
    BY <1>1, <1>3, KeyedWrite
  <1>4. CASE UNCHANGED app /\ rows' = rows
    BY <1>1, <1>4 DEF KeyedInv, app, Slot
  <1>5. \/ Build \/ Flush \/ (pending = {} /\ Write /\ rows' = rows)
        \/ (UNCHANGED app /\ rows' = rows)
    BY <1>1 DEF Next, OutsideWrite, RouteClick, UserClicks, HandleBegins, HandleReturns,
                vars, block, app
  <1> QED
    BY <1>2, <1>3, <1>4, <1>5

\* A row whose key stays keeps its element and its Scope, and a change of
\* values alone only sets texts: it creates, removes and moves nothing, as
\* long as no list has repeated a key (reconcile_each).
THEOREM DynamicRowsAreKeyed == Spec => RowsAreKeyed
  <1> DEFINE Keyed ==
        \A s \in Slot :
          template[s] = "each" /\ s \in pending \ pending' /\ distinct =>
            /\ \A i \in 1..Len(rows[s]), j \in 1..Len(rows'[s]) :
                 rows[s][i].key = rows'[s][j].key => rows[s][i] = rows'[s][j]
            /\ Keys(rows[s]) = Keys(rows'[s]) =>
                 \A n \in Len(log) + 1..Len(log') : log'[n].op = "text"
  <1>1. TypeInv /\ RowsInv /\ KeyedInv /\ [Next]_vars => Keyed
    <2>1. SUFFICES ASSUME TypeInv, RowsInv, KeyedInv, [Next]_vars, NEW s \in Slot,
                          template[s] = "each", s \in pending \ pending', distinct
                   PROVE  /\ \A i \in 1..Len(rows[s]), j \in 1..Len(rows'[s]) :
                               rows[s][i].key = rows'[s][j].key => rows[s][i] = rows'[s][j]
                          /\ Keys(rows[s]) = Keys(rows'[s]) =>
                               \A n \in (Len(log) + 1)..Len(log') : log'[n].op = "text"
      OBVIOUS
    <2>2. RunBlock(s)
      BY <2>1 DEF Next, Build, Flush, OutsideWrite, RouteClick, Write, UserClicks,
                  HandleBegins, HandleReturns, vars, app
    <2>3. ReconcileEach(s)
      BY <2>1, <2>2 DEF RunBlock, MountElement, MountIf, UnmountIf, KeepIf
    <2>4. rows'[s] = Next1(s)
      <3>1. rows' = [rows EXCEPT ![s] = Next1(s)] /\ rows \in [Slot -> Seq(Row)]
        BY <2>1, <2>3, Reconciled, TypeInvParts
      <3> QED
        BY <3>1
    <2>5. Distinct(rows[s])
      BY <2>1 DEF KeyedInv
    <2>6. ASSUME NEW i \in 1..Len(rows[s]), NEW j \in 1..Len(rows'[s]),
                 rows[s][i].key = rows'[s][j].key
          PROVE  rows[s][i] = rows'[s][j]
      BY <2>1, <2>3, <2>4, <2>5, <2>6, KeyedRow
    <2>7. ASSUME Keys(rows[s]) = Keys(rows'[s]), NEW n \in (Len(log) + 1)..Len(log')
          PROVE  log'[n].op = "text"
      <3>1. Keys(rows[s]) = Keys(source[s])
        BY <2>1, <2>3, <2>4, <2>7, KeysOfNext
      <3> QED
        BY <2>1, <2>3, <2>5, <2>7, <3>1, ValuesPatched
    <2> QED
      BY <2>6, <2>7
  <1>2. Spec => []KeyedInv
    <2>1. TypeInv /\ KeyedInv /\ [Next]_vars => (KeyedInv)'
      BY KeyedStep
    <2> QED
      BY KeyedInit, <2>1, TypesHold, PTL DEF Spec
  <1>3. RowsAreKeyed <=> [][Keyed]_vars
    BY DEF RowsAreKeyed
  <1> HIDE DEF Keyed
  <1> QED
    BY <1>1, <1>2, <1>3, OrphansHold, PTL DEF Spec

-----------------------------------------------------------------------------
(* Lists in parts. *)

LEMMA NoneIsEmpty ==
  ASSUME NEW T, NEW list \in Seq(T), \A x : ~Contains(list, x)
  PROVE  list = <<>>
  <1>1. CASE Len(list) > 0
    <2>1. 1 \in 1..Len(list)
      BY <1>1
    <2> QED
      BY <2>1 DEF Contains
  <1>2. CASE ~(Len(list) > 0)
    BY <1>2
  <1> QED
    BY <1>1, <1>2

\* An element that is not there is not taken out.
LEMMA DetachAbsent ==
  ASSUME NEW T, NEW s \in Seq(T), NEW el, ~Contains(s, el)
  PROVE  Detach(s, el) = s
  <1>1. PICK f \in [0..Len(s) -> Seq(T)] : Detaching(f, s, el)
    BY DetachSteps
  <1>2. /\ f[0] = <<>> /\ f[Len(s)] = Detach(s, el)
        /\ \A i \in 1..Len(s) : f[i] = IF s[i] = el THEN f[i - 1] ELSE Append(f[i - 1], s[i])
    BY <1>1 DEF Detaching
  <1>3. Len(s) \in Nat /\ Len(s) \in 0..Len(s) /\ 0 \in 0..Len(s)
    OBVIOUS
  <1> DEFINE S == {i \in 0..Len(s) : Len(f[i]) = i /\ \A j \in 1..i : f[i][j] = s[j]}
  <1>4. 0 \in S
    BY <1>2, <1>3
  <1>5. ASSUME NEW i \in 1..Len(s), i - 1 \in S PROVE i \in S
    <2>1. /\ i \in 0..Len(s) /\ i - 1 \in 0..Len(s)
          /\ Len(f[i - 1]) = i - 1 /\ \A j \in 1..(i - 1) : f[i - 1][j] = s[j]
      BY <1>5
    <2>2. f[i] = Append(f[i - 1], s[i])
      BY <1>2 DEF Contains
    <2>3. f[i - 1] \in Seq(T) /\ s[i] \in T
      BY <2>1, ElementOfSeq
    <2>4. /\ Len(f[i]) = (i - 1) + 1 /\ f[i][(i - 1) + 1] = s[i]
          /\ \A j \in 1..(i - 1) : f[i][j] = f[i - 1][j]
      <3> DEFINE g == f[i - 1]
                 x == s[i]
      <3>1. g \in Seq(T) /\ x \in T /\ Len(g) = i - 1 /\ f[i] = Append(g, x)
        BY <2>1, <2>2, <2>3
      <3> HIDE DEF g, x
      <3>2. /\ Len(Append(g, x)) = Len(g) + 1 /\ Append(g, x)[Len(g) + 1] = x
            /\ \A j \in 1..Len(g) : Append(g, x)[j] = g[j]
        BY <3>1
      <3> QED
        BY <3>1, <3>2 DEF g, x
    <2>5. \A j : j \in 1..i <=> j \in 1..(i - 1) \/ j = i
      OBVIOUS
    <2>6. (i - 1) + 1 = i
      OBVIOUS
    <2> QED
      BY <2>1, <2>4, <2>5, <2>6
  <1> HIDE DEF S
  <1>6. 0..Len(s) \subseteq S
    BY <1>3, <1>4, <1>5, AlongList
  <1>7. Len(f[Len(s)]) = Len(s) /\ \A j \in 1..Len(s) : f[Len(s)][j] = s[j]
    BY <1>3, <1>6 DEF S
  <1>8. Detach(s, el) \in Seq(T)
    BY <1>2, <1>3
  <1> QED
    BY <1>2, <1>7, <1>8, SeqEqual

LEMMA DetachOne ==
  ASSUME NEW T, NEW el \in T
  PROVE  Detach(<<el>>, el) = <<>>
  <1>1. <<el>> \in Seq(T)
    OBVIOUS
  <1>2. \A x : Contains(<<el>>, x) => x = el
    BY DEF Contains
  <1>3. Detach(<<el>>, el) \in Seq(T) /\ \A x : ~Contains(Detach(<<el>>, el), x)
    BY <1>1, <1>2, DetachList
  <1> QED
    BY <1>3, NoneIsEmpty

AppendsLast(d, x, y) == Append(d \o x, y) = d \o Append(x, y)

LEMMA AppendConcat ==
  ASSUME NEW T, NEW d \in Seq(T), NEW x \in Seq(T), NEW y \in T
  PROVE  AppendsLast(d, x, y)
  <1>1. <<y>> \in Seq(T) /\ Append(x, y) = x \o <<y>>
    OBVIOUS
  <1>2. d \o x \in Seq(T)
    BY ConcatProperties
  <1>3. Append(d \o x, y) = (d \o x) \o <<y>>
    BY <1>2
  <1> DEFINE z == <<y>>
  <1>4. z \in Seq(T)
    BY <1>1
  <1> HIDE DEF z
  <1>5. (d \o x) \o z = d \o (x \o z)
    BY <1>4, ConcatAssociative
  <1> QED
    BY <1>1, <1>3, <1>5 DEF z, AppendsLast

LEMMA DetachConcat ==
  ASSUME NEW T, NEW a \in Seq(T), NEW b \in Seq(T), NEW el
  PROVE  Detach(a \o b, el) = Detach(a, el) \o Detach(b, el)
  <1> DEFINE c == a \o b
  <1>1. /\ c \in Seq(T) /\ Len(c) = Len(a) + Len(b)
        /\ \A i \in 1..(Len(a) + Len(b)) : c[i] = IF i <= Len(a) THEN a[i] ELSE b[i - Len(a)]
    BY ConcatProperties
  <1> HIDE DEF c
  <1>2. PICK f \in [0..Len(c) -> Seq(T)] : Detaching(f, c, el)
    BY <1>1, DetachSteps
  <1>3. PICK g \in [0..Len(a) -> Seq(T)] : Detaching(g, a, el)
    BY DetachSteps
  <1>4. PICK h \in [0..Len(b) -> Seq(T)] : Detaching(h, b, el)
    BY DetachSteps
  <1>5. Len(a) \in Nat /\ Len(b) \in Nat /\ Len(a) \in 0..Len(a) /\ Len(b) \in 0..Len(b)
        /\ 0 \in 0..Len(a) /\ 0 \in 0..Len(b)
    OBVIOUS
  <1>6. /\ g[0] = <<>> /\ g[Len(a)] = Detach(a, el)
        /\ \A i \in 1..Len(a) : g[i] = IF a[i] = el THEN g[i - 1] ELSE Append(g[i - 1], a[i])
    BY <1>3 DEF Detaching
  <1>7. /\ h[0] = <<>> /\ h[Len(b)] = Detach(b, el)
        /\ \A i \in 1..Len(b) : h[i] = IF b[i] = el THEN h[i - 1] ELSE Append(h[i - 1], b[i])
    BY <1>4 DEF Detaching
  <1>8. /\ f[0] = <<>> /\ f[Len(a) + Len(b)] = Detach(c, el)
        /\ \A i \in 1..(Len(a) + Len(b)) :
             f[i] = IF c[i] = el THEN f[i - 1] ELSE Append(f[i - 1], c[i])
    BY <1>1, <1>2 DEF Detaching
  <1> DEFINE S == {i \in 0..Len(a) : f[i] = g[i]}
  <1>10. 0 \in S
    BY <1>5, <1>6, <1>8
  <1>11. ASSUME NEW i \in 1..Len(a), i - 1 \in S PROVE i \in S
    <2>1. i \in 0..Len(a) /\ i \in 1..(Len(a) + Len(b)) /\ i <= Len(a) /\ f[i - 1] = g[i - 1]
      BY <1>5, <1>11
    <2>2. c[i] = a[i]
      BY <1>1, <2>1
    <2> QED
      BY <1>6, <1>8, <2>1, <2>2
  <1> HIDE DEF S
  <1>12. 0..Len(a) \subseteq S
    BY <1>5, <1>10, <1>11, AlongList
  <1>13. f[Len(a)] = Detach(a, el) /\ Detach(a, el) \in Seq(T)
    BY <1>5, <1>6, <1>12 DEF S
  <1> DEFINE d == Detach(a, el)
             R == {i \in 0..Len(b) : f[Len(a) + i] = d \o h[i]}
  <1>14. 0 \in R
    <2>1. Len(a) + 0 = Len(a) /\ d \o <<>> = d
      BY <1>5, <1>13, ConcatEmptySeq
    <2> QED
      BY <1>5, <1>7, <1>13, <2>1
  <1>15. ASSUME NEW i \in 1..Len(b), i - 1 \in R PROVE i \in R
    <2>1. /\ i \in 0..Len(b) /\ i - 1 \in 0..Len(b) /\ f[Len(a) + (i - 1)] = d \o h[i - 1]
          /\ Len(a) + i \in 1..(Len(a) + Len(b)) /\ ~(Len(a) + i <= Len(a))
          /\ (Len(a) + i) - Len(a) = i /\ (Len(a) + i) - 1 = Len(a) + (i - 1)
      BY <1>5, <1>15
    <2>2. c[Len(a) + i] = b[i]
      BY <1>1, <2>1
    <2>3. f[Len(a) + i] = IF b[i] = el THEN d \o h[i - 1] ELSE Append(d \o h[i - 1], b[i])
      BY <1>8, <2>1, <2>2
    <2>4. Append(d \o h[i - 1], b[i]) = d \o Append(h[i - 1], b[i])
      <3>1. h[i - 1] \in Seq(T) /\ b[i] \in T /\ d \in Seq(T)
        BY <1>13, <2>1, ElementOfSeq
      <3> HIDE DEF d
      <3>2. AppendsLast(d, h[i - 1], b[i])
        BY <3>1, AppendConcat
      <3> QED
        BY <3>2 DEF AppendsLast
    <2>5. f[Len(a) + i] = d \o h[i]
      BY <1>7, <2>3, <2>4
    <2> QED
      BY <2>1, <2>5
  <1> HIDE DEF R, d
  <1>16. 0..Len(b) \subseteq R
    BY <1>5, <1>14, <1>15, AlongList
  <1> QED
    BY <1>5, <1>7, <1>8, <1>16 DEF R, c, d

\* An element between two lists, one of which may hold it.
LEMMA ConcatInjective ==
  ASSUME NEW T, NEW a \in Seq(T), NEW b \in Seq(T)
  PROVE  IsInjective(a \o b) <=>
           IsInjective(a) /\ IsInjective(b) /\ \A x : ~(Contains(a, x) /\ Contains(b, x))
  <1> DEFINE c == a \o b
             m == Len(a)
             n == Len(b)
  <1>1. /\ DOMAIN a = 1..m /\ DOMAIN b = 1..n /\ DOMAIN c = 1..(m + n) /\ m \in Nat /\ n \in Nat
        /\ \A i \in 1..(m + n) : c[i] = IF i <= m THEN a[i] ELSE b[i - m]
    <2>1. c \in Seq(T) /\ Len(c) = m + n
      BY ConcatProperties
    <2> QED
      BY <2>1, ConcatProperties
  <1> HIDE DEF c, m, n
  <1>2. /\ \A i \in 1..m : i \in 1..(m + n) /\ c[i] = a[i]
        /\ \A i \in 1..n : m + i \in 1..(m + n) /\ c[m + i] = b[i]
        /\ \A i \in 1..m, j \in 1..n : i # m + j
        /\ \A i, j \in 1..n : m + i = m + j => i = j
        /\ \A i \in 1..(m + n) : i \in 1..m \/ (i - m \in 1..n /\ i = m + (i - m))
    <2>1. \A i \in 1..m : i \in 1..(m + n) /\ i <= m
      BY <1>1
    <2>2. \A i \in 1..n : m + i \in 1..(m + n) /\ ~(m + i <= m) /\ (m + i) - m = i
      BY <1>1
    <2>3. \A i \in 1..m, j \in 1..n : i # m + j
      BY <1>1
    <2>4. \A i, j \in 1..n : m + i = m + j => i = j
      BY <1>1
    <2>5. \A i \in 1..(m + n) : i \in 1..m \/ (i - m \in 1..n /\ i = m + (i - m))
      BY <1>1
    <2> QED
      BY <1>1, <2>1, <2>2, <2>3, <2>4, <2>5
  <1>3. ASSUME IsInjective(c)
        PROVE IsInjective(a) /\ IsInjective(b) /\ \A x : ~(Contains(a, x) /\ Contains(b, x))
    <2>1. \A i, j \in 1..(m + n) : c[i] = c[j] => i = j
      BY <1>1, <1>3 DEF IsInjective
    <2>2. \A i, j \in 1..m : a[i] = a[j] => i = j
      BY <1>2, <2>1
    <2>3. \A i, j \in 1..n : b[i] = b[j] => i = j
      BY <1>2, <2>1
    <2>4. \A i \in 1..m, j \in 1..n : a[i] # b[j]
      BY <1>2, <2>1
    <2> QED
      BY <1>1, <2>2, <2>3, <2>4 DEF IsInjective, Contains, m, n
  <1>4. ASSUME IsInjective(a), IsInjective(b), \A x : ~(Contains(a, x) /\ Contains(b, x))
        PROVE  IsInjective(c)
    <2>1. /\ \A i, j \in 1..m : a[i] = a[j] => i = j
          /\ \A i, j \in 1..n : b[i] = b[j] => i = j
          /\ \A i \in 1..m, j \in 1..n : a[i] # b[j]
      BY <1>1, <1>4 DEF IsInjective, Contains, m, n
    <2>2. ASSUME NEW i \in 1..(m + n), NEW j \in 1..(m + n), c[i] = c[j] PROVE i = j
      <3>1. CASE i \in 1..m /\ j \in 1..m
        BY <1>2, <2>1, <2>2, <3>1
      <3>2. CASE i \in 1..m /\ j \notin 1..m
        BY <1>2, <2>1, <2>2, <3>2
      <3>3. CASE i \notin 1..m /\ j \in 1..m
        BY <1>2, <2>1, <2>2, <3>3
      <3>4. CASE i \notin 1..m /\ j \notin 1..m
        <4>1. i - m \in 1..n /\ i = m + (i - m) /\ j - m \in 1..n /\ j = m + (j - m)
          BY <1>2, <3>4
        <4>2. b[i - m] = b[j - m]
          BY <1>2, <2>2, <4>1
        <4>3. i - m = j - m
          BY <2>1, <4>1, <4>2
        <4> QED
          BY <4>1, <4>3
      <3> QED
        BY <3>1, <3>2, <3>3, <3>4
    <2> QED
      BY <1>1, <2>2 DEF IsInjective
  <1> QED
    BY <1>3, <1>4 DEF c

Associates(a, b, c) == (a \o b) \o c = a \o (b \o c)

LEMMA ConcatTwice ==
  ASSUME NEW T, NEW a \in Seq(T), NEW b \in Seq(T), NEW c \in Seq(T)
  PROVE  Associates(a, b, c)
  BY ConcatAssociative DEF Associates

\* The two parts of a list.
LEMMA ConcatParts ==
  ASSUME NEW T, NEW a \in Seq(T), NEW b \in Seq(T)
  PROVE  /\ SubSeq(a \o b, 1, Len(a)) = a
         /\ SubSeq(a \o b, Len(a) + 1, Len(a \o b)) = b
  <1> DEFINE c == a \o b
             m == Len(a)
             n == Len(b)
             c1 == SubSeq(c, 1, m)
             c2 == SubSeq(c, m + 1, Len(c))
  <1>1. /\ c \in Seq(T) /\ Len(c) = m + n /\ m \in Nat /\ n \in Nat
        /\ \A i \in 1..(m + n) : c[i] = IF i <= m THEN a[i] ELSE b[i - m]
    BY ConcatProperties
  <1> HIDE DEF c
  <1>2. c1 \in Seq(T) /\ Len(c1) = m /\ \A i \in 1..m : c1[i] = c[i]
    BY <1>1
  <1>3. c2 \in Seq(T) /\ Len(c2) = n /\ \A i \in 1..n : c2[i] = c[m + i]
    <2>1. /\ c2 \in Seq(T) /\ Len(c2) = Len(c) - (m + 1) + 1
          /\ \A i \in 1..(Len(c) - (m + 1) + 1) : c2[i] = c[(m + 1) + i - 1]
      BY <1>1
    <2>2. Len(c) - (m + 1) + 1 = n /\ \A i \in 1..n : (m + 1) + i - 1 = m + i
      BY <1>1
    <2> HIDE DEF c2
    <2> QED
      BY <2>1, <2>2
  <1> HIDE DEF c1, c2
  <1>4. \A i \in 1..m : c1[i] = a[i]
    BY <1>1, <1>2
  <1>5. \A i \in 1..n : c2[i] = b[i]
    <2>1. \A i \in 1..n : m + i \in 1..(m + n) /\ ~(m + i <= m) /\ (m + i) - m = i
      BY <1>1
    <2> QED
      BY <1>1, <1>3, <2>1
  <1>6. c1 = a
    BY <1>2, <1>4, SeqEqual
  <1>7. c2 = b
    BY <1>3, <1>5, SeqEqual
  <1> QED
    BY <1>6, <1>7 DEF c1, c2, c

\* What an anchor before a list is.
FirstOf(list) == IF list = <<>> THEN NoEl ELSE Head(list)

LEMMA PlacedBetween ==
  ASSUME NEW t \in Tree, NEW el \in El, NEW a \in Seq(El), NEW b \in Seq(El),
         Detach(t.children, el) = a \o b, IsInjective(a \o b)
  PROVE  Placed(t, el, FirstOf(b)).children = (a \o <<el>>) \o b
  <1> DEFINE others == a \o b
             before == FirstOf(b)
             at == CHOOSE i \in 1..Len(others) : others[i] = before
             list == IF Contains(others, before) THEN InsertAt(others, at, el)
                     ELSE Append(others, el)
  <1>1. Placed(t, el, before).children = list
    <2>1. t = [children |-> t.children, text |-> t.text, heard |-> t.heard]
      BY DEF Tree
    <2>2. Placed(t, el, before) = [t EXCEPT !.children = list]
      BY DEF Placed
    <2> HIDE DEF list, before
    <2> QED
      BY <2>1, <2>2
  <1>2. /\ others \in Seq(El) /\ Len(others) = Len(a) + Len(b) /\ Len(a) \in Nat /\ Len(b) \in Nat
        /\ \A i \in 1..(Len(a) + Len(b)) : others[i] = IF i <= Len(a) THEN a[i] ELSE b[i - Len(a)]
    BY ConcatProperties
  <1>3. IsInjective(others)
    OBVIOUS
  <1>4. SubSeq(others, 1, Len(a)) = a /\ SubSeq(others, Len(a) + 1, Len(others)) = b
    BY ConcatParts
  <1>5. CASE b = <<>>
    <2>1. others = a /\ before = NoEl
      BY <1>5, ConcatEmptySeq DEF FirstOf
    <2>2. ~Contains(others, before)
      <3>1. NoEl \notin El
        BY DEF NoEl, El
      <3> HIDE DEF others, before
      <3> QED
        BY <1>2, <2>1, <3>1, ElementOfSeq DEF Contains
    <2>3. list = Append(a, el)
      BY <2>1, <2>2
    <2>4. (a \o <<el>>) \o b = Append(a, el)
      <3>1. Append(a, el) = a \o <<el>> /\ Append(a, el) \in Seq(El)
        OBVIOUS
      <3> DEFINE d == a \o <<el>>
      <3>2. d \in Seq(El)
        BY <3>1
      <3> HIDE DEF d
      <3>3. d \o <<>> = d
        BY <3>2, ConcatEmptySeq
      <3> QED
        BY <1>5, <3>1, <3>3 DEF d
    <2> QED
      BY <1>1, <2>3, <2>4
  <1>6. CASE b # <<>>
    <2>1. before = b[1] /\ Len(b) > 0
      BY <1>6 DEF FirstOf
    <2> DEFINE k == Len(a) + 1
    <2>2. k \in 1..Len(others) /\ others[k] = before
      <3>1. k \in 1..(Len(a) + Len(b)) /\ ~(k <= Len(a)) /\ k - Len(a) = 1
        BY <1>2, <2>1
      <3> HIDE DEF others, k
      <3> QED
        BY <1>2, <2>1, <3>1
    <2> HIDE DEF others, before
    <2>3. DOMAIN others = 1..Len(others)
      BY <1>2
    <2>4. \A i \in 1..Len(others) : others[i] = before => i = k
      BY <1>3, <2>2, <2>3 DEF IsInjective
    <2>5. at = k
      BY <2>2, <2>4
    <2>6. Contains(others, before)
      BY <2>2 DEF Contains
    <2>7. list = InsertAt(others, k, el)
      BY <2>5, <2>6
    <2>8. InsertAt(others, k, el) = (a \o <<el>>) \o b
      <3>1. k - 1 = Len(a)
        BY <1>2
      <3> QED
        BY <1>4, <3>1 DEF InsertAt
    <2> HIDE DEF list
    <2> QED
      BY <1>1, <2>7, <2>8 DEF before
  <1> QED
    BY <1>5, <1>6

-----------------------------------------------------------------------------
(* Lists of lists in parts. *)

Before(list, s) == FlattenSeq(SubSeq(list, 1, s - 1))
Later(list, s) == FlattenSeq(SubSeq(list, s + 1, Len(list)))

LEMMA AnchorIsFirst ==
  ASSUME NEW list, NEW s
  PROVE  AnchorAfter(list, s) = FirstOf(Later(list, s))
  BY DEF AnchorAfter, FirstOf, Later

Flattens(f, ss) ==
  /\ f[0] = <<>> /\ f[Len(ss)] = FlattenSeq(ss)
  /\ \A i \in 1..Len(ss) : f[i] = f[i - 1] \o ss[i]

LEMMA FlattenRun ==
  ASSUME NEW T, NEW ss \in Seq(Seq(T))
  PROVE  \E f \in [0..Len(ss) -> Seq(T)] : Flattens(f, ss)
  BY FlattenSteps DEF Flattens

LEMMA FlattenPrefix ==
  ASSUME NEW T, NEW ss \in Seq(Seq(T)), NEW f \in [0..Len(ss) -> Seq(T)], Flattens(f, ss),
         NEW k \in 0..Len(ss)
  PROVE  FlattenSeq(SubSeq(ss, 1, k)) = f[k]
  <1> DEFINE r == SubSeq(ss, 1, k)
  <1>1. r \in Seq(Seq(T)) /\ Len(r) = k /\ \A i \in 1..k : r[i] = ss[i]
    OBVIOUS
  <1> HIDE DEF r
  <1>2. PICK g \in [0..Len(r) -> Seq(T)] : Flattens(g, r)
    BY <1>1, FlattenRun
  <1>3. /\ g[0] = <<>> /\ g[k] = FlattenSeq(r)
        /\ \A i \in 1..k : g[i] = g[i - 1] \o ss[i]
    BY <1>1, <1>2 DEF Flattens
  <1>4. f[0] = <<>> /\ \A i \in 1..k : f[i] = f[i - 1] \o ss[i]
    <2>1. \A i \in 1..k : i \in 1..Len(ss)
      OBVIOUS
    <2> QED
      BY <2>1 DEF Flattens
  <1>5. k \in Nat /\ k \in 0..k /\ 0 \in 0..k
    OBVIOUS
  <1> DEFINE S == {i \in 0..k : f[i] = g[i]}
  <1>6. 0 \in S
    BY <1>3, <1>4, <1>5
  <1>7. ASSUME NEW i \in 1..k, i - 1 \in S PROVE i \in S
    <2>1. i \in 0..k /\ f[i - 1] = g[i - 1]
      BY <1>7
    <2> QED
      BY <1>3, <1>4, <2>1
  <1> HIDE DEF S
  <1>8. 0..k \subseteq S
    BY <1>5, <1>6, <1>7, AlongList
  <1> QED
    BY <1>3, <1>5, <1>8 DEF S, r

LEMMA FlattenSuffix ==
  ASSUME NEW T, NEW ss \in Seq(Seq(T)), NEW f \in [0..Len(ss) -> Seq(T)], Flattens(f, ss),
         NEW k \in 0..Len(ss)
  PROVE  FlattenSeq(ss) = f[k] \o FlattenSeq(SubSeq(ss, k + 1, Len(ss)))
  <1> DEFINE r == SubSeq(ss, k + 1, Len(ss))
             m == Len(ss) - k
  <1>1. r \in Seq(Seq(T)) /\ Len(r) = m /\ (\A j \in 1..m : r[j] = ss[k + j]) /\ m \in Nat
    <2>1. k \in Nat /\ Len(ss) \in Nat /\ k <= Len(ss)
      OBVIOUS
    <2>2. r \in Seq(Seq(T)) /\ Len(r) = Len(ss) - (k + 1) + 1
          /\ \A j \in 1..(Len(ss) - (k + 1) + 1) : r[j] = ss[(k + 1) + j - 1]
      BY <2>1
    <2>3. Len(ss) - (k + 1) + 1 = m /\ \A j \in 1..m : (k + 1) + j - 1 = k + j
      BY <2>1
    <2> HIDE DEF r
    <2> QED
      BY <2>1, <2>2, <2>3
  <1>a. k \in Nat /\ Len(ss) = k + m
    OBVIOUS
  <1> HIDE DEF r, m
  <1>2. PICK h \in [0..Len(r) -> Seq(T)] : Flattens(h, r)
    BY <1>1, FlattenRun
  <1>3. /\ h[0] = <<>> /\ h[m] = FlattenSeq(r)
        /\ \A j \in 1..m : h[j] = h[j - 1] \o ss[k + j]
        /\ \A j \in 0..m : h[j] \in Seq(T)
    BY <1>1, <1>2 DEF Flattens
  <1>4. /\ \A i \in 1..(k + m) : f[i] = f[i - 1] \o ss[i]
        /\ f[k + m] = FlattenSeq(ss) /\ f[k] \in Seq(T)
    BY <1>a DEF Flattens
  <1>5. 0 \in 0..m /\ m \in 0..m
    BY <1>1
  <1> DEFINE S == {j \in 0..m : f[k + j] = f[k] \o h[j]}
  <1>6. 0 \in S
    <2>1. k + 0 = k /\ f[k] \o <<>> = f[k]
      BY <1>a, <1>4, ConcatEmptySeq
    <2> QED
      BY <1>3, <1>5, <2>1
  <1>7. ASSUME NEW j \in 1..m, j - 1 \in S PROVE j \in S
    <2>1. /\ j \in 0..m /\ j - 1 \in 0..m /\ f[k + (j - 1)] = f[k] \o h[j - 1]
          /\ k + j \in 1..(k + m) /\ (k + j) - 1 = k + (j - 1)
      <3>1. f[k + (j - 1)] = f[k] \o h[j - 1]
        BY <1>7
      <3>2. k \in Nat /\ m \in Nat
        BY <1>1, <1>a
      <3>3. j \in 0..m /\ j - 1 \in 0..m
        BY <3>2
      <3>4. k + j \in 1..(k + m) /\ (k + j) - 1 = k + (j - 1)
        BY <3>2
      <3> QED
        BY <3>1, <3>3, <3>4
    <2>2. ss[k + j] \in Seq(T)
      BY <1>a, <2>1, ElementOfSeq
    <2>3. f[k + j] = (f[k] \o h[j - 1]) \o ss[k + j]
      BY <1>4, <2>1
    <2>4. Associates(f[k], h[j - 1], ss[k + j])
      BY <1>3, <1>4, <2>1, <2>2, ConcatTwice
    <2>5. f[k + j] = f[k] \o h[j]
      BY <1>3, <2>3, <2>4 DEF Associates
    <2> QED
      BY <2>1, <2>5
  <1> HIDE DEF S
  <1>8. 0..m \subseteq S
    BY <1>1, <1>6, <1>7, AlongList
  <1> QED
    BY <1>3, <1>4, <1>5, <1>8 DEF S, r

LEMMA FlattenSplit ==
  ASSUME NEW T, NEW ss \in Seq(Seq(T)), NEW s \in 1..Len(ss)
  PROVE  /\ Before(ss, s) \in Seq(T) /\ Later(ss, s) \in Seq(T) /\ ss[s] \in Seq(T)
         /\ FlattenSeq(ss) = (Before(ss, s) \o ss[s]) \o Later(ss, s)
  <1>1. PICK f \in [0..Len(ss) -> Seq(T)] : Flattens(f, ss)
    BY FlattenRun
  <1>2. s \in 0..Len(ss) /\ s - 1 \in 0..Len(ss)
    OBVIOUS
  <1>3. Before(ss, s) = f[s - 1]
    BY <1>1, <1>2, FlattenPrefix DEF Before
  <1>4. f[s] = f[s - 1] \o ss[s]
    BY <1>1 DEF Flattens
  <1>5. FlattenSeq(ss) = f[s] \o Later(ss, s)
    BY <1>1, <1>2, FlattenSuffix DEF Later
  <1>6. ss[s] \in Seq(T) /\ f[s - 1] \in Seq(T)
    BY <1>2, ElementOfSeq
  <1>7. Later(ss, s) \in Seq(T)
    <2>1. SubSeq(ss, s + 1, Len(ss)) \in Seq(Seq(T))
      OBVIOUS
    <2> QED
      BY <2>1, FlattenEntries DEF Later
  <1> QED
    BY <1>3, <1>4, <1>5, <1>6, <1>7

LEMMA SplitKept ==
  ASSUME NEW T, NEW ss \in Seq(T), NEW s \in 1..Len(ss), NEW x \in T
  PROVE  /\ Before([ss EXCEPT ![s] = x], s) = Before(ss, s)
         /\ Later([ss EXCEPT ![s] = x], s) = Later(ss, s)
  <1> DEFINE r == [ss EXCEPT ![s] = x]
  <1>1. r \in Seq(T) /\ Len(r) = Len(ss) /\ \A i \in 1..Len(ss) : i # s => r[i] = ss[i]
    OBVIOUS
  <1>2. Len(ss) \in Nat
    OBVIOUS
  <1> HIDE DEF r
  <1>3. SubSeq(r, 1, s - 1) = SubSeq(ss, 1, s - 1)
    <2> DEFINE p == SubSeq(r, 1, s - 1)
               q == SubSeq(ss, 1, s - 1)
    <2>1. p \in Seq(T) /\ Len(p) = s - 1 /\ \A i \in 1..(s - 1) : p[i] = r[i]
      BY <1>1
    <2>2. q \in Seq(T) /\ Len(q) = s - 1 /\ \A i \in 1..(s - 1) : q[i] = ss[i]
      OBVIOUS
    <2> HIDE DEF p, q
    <2>3. \A i \in 1..(s - 1) : i \in 1..Len(ss) /\ i # s
      BY <1>2
    <2>4. p = q
      BY <1>1, <2>1, <2>2, <2>3, SeqEqual
    <2> QED
      BY <2>4 DEF p, q
  <1>4. SubSeq(r, s + 1, Len(r)) = SubSeq(ss, s + 1, Len(ss))
    <2> DEFINE p == SubSeq(r, s + 1, Len(ss))
               q == SubSeq(ss, s + 1, Len(ss))
               m == Len(ss) - s
    <2>0. /\ m \in Nat /\ Len(ss) - (s + 1) + 1 = m
          /\ \A j \in 1..m : (s + 1) + j - 1 = s + j /\ s + j \in 1..Len(ss) /\ s + j # s
      BY <1>2
    <2>1. p \in Seq(T) /\ Len(p) = m /\ \A j \in 1..m : p[j] = r[s + j]
      <3>1. p \in Seq(T) /\ Len(p) = Len(ss) - (s + 1) + 1
            /\ \A j \in 1..(Len(ss) - (s + 1) + 1) : p[j] = r[(s + 1) + j - 1]
        BY <1>1
      <3> HIDE DEF p, m
      <3> QED
        BY <2>0, <3>1
    <2>2. q \in Seq(T) /\ Len(q) = m /\ \A j \in 1..m : q[j] = ss[s + j]
      <3>1. q \in Seq(T) /\ Len(q) = Len(ss) - (s + 1) + 1
            /\ \A j \in 1..(Len(ss) - (s + 1) + 1) : q[j] = ss[(s + 1) + j - 1]
        OBVIOUS
      <3> HIDE DEF q, m
      <3> QED
        BY <2>0, <3>1
    <2> HIDE DEF p, q, m
    <2>3. p = q
      BY <1>1, <2>0, <2>1, <2>2, SeqEqual
    <2> QED
      BY <1>1, <2>3 DEF p, q
  <1> QED
    BY <1>1, <1>3, <1>4 DEF Before, Later, r

\* Lists that agree part by part agree when joined.
MapsTo(g, x, y) == [i \in 1..Len(x) |-> g[x[i]]] = y

LEMMA FlattenMapped ==
  ASSUME NEW T, NEW U, NEW a \in Seq(Seq(T)), NEW b \in Seq(Seq(U)), NEW g,
         Len(a) = Len(b), \A s \in 1..Len(a) : Len(a[s]) = Len(b[s]),
         \A s \in 1..Len(a) : \A i \in 1..Len(a[s]) : g[a[s][i]] = b[s][i]
  PROVE  MapsTo(g, FlattenSeq(a), FlattenSeq(b))
  <1>1. PICK f \in [0..Len(a) -> Seq(T)] : Flattens(f, a)
    BY FlattenRun
  <1>2. PICK h \in [0..Len(b) -> Seq(U)] : Flattens(h, b)
    BY FlattenRun
  <1> DEFINE n == Len(a)
  <1>3. n \in Nat /\ 0 \in 0..n /\ n \in 0..n
    OBVIOUS
  <1>4. /\ f[0] = <<>> /\ f[n] = FlattenSeq(a) /\ \A i \in 0..n : f[i] \in Seq(T)
        /\ \A i \in 1..n : f[i] = f[i - 1] \o a[i]
    BY <1>1 DEF Flattens
  <1>5. /\ h[0] = <<>> /\ h[n] = FlattenSeq(b) /\ \A i \in 0..n : h[i] \in Seq(U)
        /\ \A i \in 1..n : h[i] = h[i - 1] \o b[i]
    BY <1>2 DEF Flattens
  <1> DEFINE Same(x, y) == Len(x) = Len(y) /\ \A i \in 1..Len(x) : g[x[i]] = y[i]
             S == {k \in 0..n : Same(f[k], h[k])}
  <1>6. \A k \in 1..n : Same(a[k], b[k]) /\ a[k] \in Seq(T) /\ b[k] \in Seq(U)
    BY ElementOfSeq
  <1>7. ASSUME NEW x \in Seq(T), NEW y \in Seq(T), NEW z \in Seq(U), NEW w \in Seq(U),
               Same(x, z), Same(y, w)
        PROVE  Same(x \o y, z \o w)
    <2>1. /\ Len(x \o y) = Len(x) + Len(y)
          /\ \A i \in 1..(Len(x) + Len(y)) :
               (x \o y)[i] = IF i <= Len(x) THEN x[i] ELSE y[i - Len(x)]
      BY ConcatProperties
    <2>2. /\ Len(z \o w) = Len(z) + Len(w)
          /\ \A i \in 1..(Len(z) + Len(w)) :
               (z \o w)[i] = IF i <= Len(z) THEN z[i] ELSE w[i - Len(z)]
      BY ConcatProperties
    <2>3. Len(x) = Len(z) /\ Len(y) = Len(w) /\ Len(x) \in Nat /\ Len(y) \in Nat
      BY <1>7
    <2> DEFINE p == x \o y
               q == z \o w
    <2> HIDE DEF p, q
    <2>4. ASSUME NEW i \in 1..(Len(x) + Len(y)) PROVE g[p[i]] = q[i]
      <3>1. CASE i <= Len(x)
        <4>1. i \in 1..Len(x) /\ i \in 1..(Len(z) + Len(w)) /\ i <= Len(z)
          BY <2>3, <3>1
        <4>2. p[i] = x[i] /\ q[i] = z[i]
          BY <2>1, <2>2, <4>1, <3>1 DEF p, q
        <4> QED
          BY <1>7, <4>1, <4>2
      <3>2. CASE ~(i <= Len(x))
        <4>1. i - Len(x) \in 1..Len(y) /\ i \in 1..(Len(z) + Len(w)) /\ ~(i <= Len(z))
              /\ i - Len(x) = i - Len(z)
          BY <2>3, <3>2
        <4>2. p[i] = y[i - Len(x)] /\ q[i] = w[i - Len(x)]
          BY <2>1, <2>2, <4>1, <3>2 DEF p, q
        <4> QED
          BY <1>7, <4>1, <4>2
      <3> QED
        BY <3>1, <3>2
    <2>5. Len(p) = Len(q) /\ Len(p) = Len(x) + Len(y)
      BY <2>1, <2>2, <2>3 DEF p, q
    <2> QED
      BY <2>4, <2>5 DEF p, q
  <1>8. 0 \in S
    BY <1>3, <1>4, <1>5
  <1> HIDE DEF Same, n
  <1>9. ASSUME NEW k \in 1..n, k - 1 \in S PROVE k \in S
    <2>1. k \in 0..n /\ k - 1 \in 0..n
      BY <1>3
    <2>2. Same(f[k - 1], h[k - 1])
      BY <1>9
    <2>3. Same(f[k - 1] \o a[k], h[k - 1] \o b[k])
      BY <1>4, <1>5, <1>6, <1>7, <2>1, <2>2
    <2> QED
      BY <1>4, <1>5, <2>1, <2>3
  <1> HIDE DEF S
  <1>10. 0..n \subseteq S
    BY <1>3, <1>8, <1>9, AlongList
  <1>11. Same(FlattenSeq(a), FlattenSeq(b)) /\ FlattenSeq(b) \in Seq(U)
    BY <1>3, <1>4, <1>5, <1>10 DEF S
  <1> DEFINE x == FlattenSeq(a)
             y == FlattenSeq(b)
  <1> HIDE DEF x, y
  <1>12. y = [i \in 1..Len(y) |-> y[i]]
    BY <1>11 DEF y
  <1>13. Len(x) = Len(y) /\ \A i \in 1..Len(x) : g[x[i]] = y[i]
    BY <1>11 DEF Same, x, y
  <1>14. [i \in 1..Len(x) |-> g[x[i]]] = y
    BY <1>12, <1>13
  <1> QED
    BY <1>14 DEF x, y, MapsTo

-----------------------------------------------------------------------------
(* Following a log. *)

\* A log whose n-th mutation leads from the n-th set of trees to the next.
LEMMA ReplayFollows ==
  ASSUME NEW ms \in Seq(Mutation), NEW Good, \A n \in 0..Len(ms) : Good[n] \subseteq Tree,
         NEW t \in Good[0],
         \A n \in 1..Len(ms) : \A u \in Good[n - 1] : ApplyMutation(u, ms[n]) \in Good[n]
  PROVE  Replayed(t, ms) \in Good[Len(ms)]
  <1>1. Len(ms) \in Nat /\ Len(ms) \in 0..Len(ms) /\ 0 \in 0..Len(ms)
    OBVIOUS
  <1>2. t \in Tree
    BY <1>1
  <1>3. PICK f \in [0..Len(ms) -> Tree] : Replays(f, t, ms)
    BY <1>2, ReplaySteps
  <1>4. /\ f[0] = t /\ f[Len(ms)] = Replayed(t, ms)
        /\ \A i \in 1..Len(ms) : f[i] = ApplyMutation(f[i - 1], ms[i])
    BY <1>3 DEF Replays
  <1> DEFINE S == {i \in 0..Len(ms) : f[i] \in Good[i]}
  <1>5. 0 \in S
    BY <1>1, <1>4
  <1>6. ASSUME NEW i \in 1..Len(ms), i - 1 \in S PROVE i \in S
    <2>1. i \in 0..Len(ms) /\ f[i - 1] \in Good[i - 1]
      BY <1>6
    <2> QED
      BY <1>4, <2>1
  <1> HIDE DEF S
  <1>7. 0..Len(ms) \subseteq S
    BY <1>1, <1>5, <1>6, AlongList
  <1> QED
    BY <1>1, <1>4, <1>7 DEF S

Has(t, e, x) == e \in DOMAIN t.text /\ t.text[e] = x

\* What a mutation of another element, or of this one to the same text, keeps.
LEMMA HasKept ==
  ASSUME NEW t \in Tree, NEW m \in Mutation, NEW e, NEW x, Has(t, e, x),
         m.el = e => m.op = "attach" \/ (m.op \in {"create", "text"} /\ m.text = x)
  PROVE  Has(ApplyMutation(t, m), e, x)
  <1> DEFINE r == ApplyMutation(t, m)
  <1>1. /\ m.op = "create" => Retexted(t, r, m.el, m.text)
        /\ m.op = "text" =>
              IF Exists(t, m.el) THEN Retexted(t, r, m.el, m.text) ELSE r = t
        /\ m.op = "attach" => r.text = t.text
        /\ m.op = "remove" =>
              /\ DOMAIN r.text = DOMAIN t.text \ {m.el}
              /\ \A y \in DOMAIN t.text : y # m.el => r.text[y] = t.text[y]
    BY AppliedTexts
  <1>2. m.op \in {"create", "text", "attach", "remove"}
    BY MutationKinds
  <1> HIDE DEF r
  <1>3. e \in DOMAIN t.text /\ t.text[e] = x
    BY DEF Has
  <1>4. CASE m.op = "remove"
    <2>1. m.el # e
      BY <1>4
    <2>2. e \in DOMAIN r.text /\ r.text[e] = t.text[e]
      BY <1>1, <1>3, <1>4, <2>1
    <2> QED
      BY <1>3, <2>2 DEF Has, r
  <1>5. CASE m.op = "attach"
    <2>1. r.text = t.text
      BY <1>1, <1>5
    <2> QED
      BY <1>3, <2>1 DEF Has, r
  <1>6. CASE m.op \in {"create", "text"}
    <2>1. CASE Retexted(t, r, m.el, m.text)
      <3>1. CASE m.el = e
        <4>1. m.text = x
          BY <1>6, <3>1
        <4>2. e \in DOMAIN r.text /\ r.text[e] = x
          BY <2>1, <3>1, <4>1 DEF Retexted
        <4> QED
          BY <4>2 DEF Has, r
      <3>2. CASE m.el # e
        <4>1. e \in DOMAIN r.text /\ r.text[e] = t.text[e]
          BY <1>3, <2>1, <3>2 DEF Retexted
        <4> QED
          BY <1>3, <4>1 DEF Has, r
      <3> QED
        BY <3>1, <3>2
    <2>2. CASE r = t
      BY <2>2 DEF r
    <2> QED
      BY <1>1, <1>6, <2>1, <2>2
  <1> QED
    BY <1>2, <1>4, <1>5, <1>6

LEMMA HasAfter ==
  ASSUME NEW t \in Tree, NEW ms \in Seq(Mutation), NEW e, NEW x, Has(t, e, x),
         \A k \in 1..Len(ms) : ms[k].el = e =>
           ms[k].op = "attach" \/ (ms[k].op \in {"create", "text"} /\ ms[k].text = x)
  PROVE  Has(Replayed(t, ms), e, x)
  <1> DEFINE G == {u \in Tree : Has(u, e, x)}
  <1>1. G \subseteq Tree /\ t \in G
    OBVIOUS
  <1>2. ASSUME NEW k \in 1..Len(ms), NEW u \in G PROVE ApplyMutation(u, ms[k]) \in G
    <2>1. ms[k] \in Mutation /\ u \in Tree /\ Has(u, e, x)
      BY ElementOfSeq
    <2>2. ApplyMutation(u, ms[k]) \in Tree
      BY <2>1, AppliedTree
    <2>3. Has(ApplyMutation(u, ms[k]), e, x)
      BY <2>1, HasKept
    <2> QED
      BY <2>2, <2>3
  <1> HIDE DEF G
  <1>3. Replayed(t, ms) \in G
    BY <1>1, <1>2, ReplayKeeps
  <1> QED
    BY <1>3 DEF G

LEMMA HasReached ==
  ASSUME NEW t \in Tree, NEW ms \in Seq(Mutation), NEW e, NEW x,
         \A k \in 1..Len(ms) : ms[k].el = e => ms[k].op \in {"create", "text"} /\ ms[k].text = x,
         NEW j \in 1..Len(ms), ms[j].el = e, ms[j].op = "create" \/ e \in DOMAIN t.text
  PROVE  Has(Replayed(t, ms), e, x)
  <1> DEFINE U == {u \in Tree : ms[j].op = "create" \/ e \in DOMAIN u.text}
             G == {u \in Tree : Has(u, e, x)}
  <1>1. U \subseteq Tree /\ t \in U
    OBVIOUS
  <1>2. \A k \in 1..Len(ms) : ms[k] \in Mutation /\ ms[k].op \in {"create", "text", "attach", "remove"}
    BY ElementOfSeq, MutationKinds
  <1>3. ASSUME NEW k \in 1..Len(ms), NEW u \in U PROVE ApplyMutation(u, ms[k]) \in U
    <2> DEFINE r == ApplyMutation(u, ms[k])
    <2>1. u \in Tree /\ ms[k] \in Mutation
      BY <1>2
    <2>2. r \in Tree
      BY <2>1, AppliedTree
    <2>3. CASE ms[j].op = "create"
      BY <2>2, <2>3
    <2>4. CASE e \in DOMAIN u.text
      <3>1. CASE ms[k].el = e
        <4>1. Has(u, e, u.text[e])
          BY <2>4 DEF Has
        <4>2. Exists(u, ms[k].el)
          BY <2>4, <3>1 DEF Exists
        <4>3. Retexted(u, r, ms[k].el, ms[k].text)
          BY <2>1, <3>1, <4>2, AppliedTexts
        <4>4. e \in DOMAIN r.text
          <5> HIDE DEF r
          <5> QED
            BY <4>3, <3>1 DEF Retexted
        <4> QED
          BY <2>2, <4>4
      <3>2. CASE ms[k].el # e
        <4>1. Has(u, e, u.text[e])
          BY <2>4 DEF Has
        <4>2. Has(r, e, u.text[e])
          BY <2>1, <3>2, <4>1, HasKept
        <4> QED
          BY <2>2, <4>2 DEF Has
      <3> QED
        BY <3>1, <3>2
    <2> QED
      BY <2>3, <2>4
  <1>4. ASSUME NEW u \in U PROVE ApplyMutation(u, ms[j]) \in G
    <2> DEFINE r == ApplyMutation(u, ms[j])
    <2>1. u \in Tree /\ ms[j] \in Mutation /\ ms[j].text = x /\ ms[j].op \in {"create", "text"}
      BY <1>2
    <2>2. r \in Tree
      BY <2>1, AppliedTree
    <2>3. ms[j].op = "create" \/ Exists(u, ms[j].el)
      BY DEF Exists
    <2>4. Retexted(u, r, ms[j].el, ms[j].text)
      BY <2>1, <2>3, AppliedTexts
    <2> HIDE DEF r
    <2>5. Has(r, e, x)
      BY <2>1, <2>4 DEF Retexted, Has
    <2> QED
      BY <2>2, <2>5 DEF r
  <1>5. ASSUME NEW k \in 1..Len(ms), NEW u \in G PROVE ApplyMutation(u, ms[k]) \in G
    <2>1. ms[k] \in Mutation /\ u \in Tree /\ Has(u, e, x)
      BY <1>2
    <2>2. ApplyMutation(u, ms[k]) \in Tree
      BY <2>1, AppliedTree
    <2>3. Has(ApplyMutation(u, ms[k]), e, x)
      BY <2>1, HasKept
    <2> QED
      BY <2>2, <2>3
  <1> HIDE DEF U, G
  <1>6. Replayed(t, ms) \in G
    <2>1. \A u \in U : ApplyMutation(u, ms[j]) \in G
      BY <1>4
    <2>2. \A k \in 1..Len(ms) : k > j => \A u \in U : u \in G => ApplyMutation(u, ms[k]) \in G
      BY <1>5
    <2>3. \A k \in 1..Len(ms) : \A u \in U : ApplyMutation(u, ms[k]) \in U
      BY <1>3
    <2> QED
      BY <1>1, <2>1, <2>2, <2>3, ReplayReaches
  <1> QED
    BY <1>6 DEF G

-----------------------------------------------------------------------------
(* What the slots hold. *)

SlotsInv ==
  /\ \A s \in Slot :
       /\ template[s] # "element" => slots[s] = Els(rows[s])
       /\ template[s] = "element" =>
            IF s \in pending THEN slots[s] = <<>>
            ELSE Len(slots[s]) = 1 /\ slots[s][1] < nextId
       /\ template[s] = "if" /\ s \notin pending => (rows[s] = <<>> <=> source[s] = <<>>)
  /\ phase = "build" =>
       \A p \in pending : \A r \in Slot : p <= r => r \in pending /\ slots[r] = <<>>
  /\ phase # "build" => \A p \in pending : template[p] # "element"

LEMMA ElsFacts ==
  ASSUME NEW rs \in Seq(Row)
  PROVE  /\ Els(rs) \in Seq(El) /\ Len(Els(rs)) = Len(rs)
         /\ \A i \in 1..Len(rs) : Els(rs)[i] = rs[i].el
  <1>1. \A i \in 1..Len(rs) : rs[i].el \in El
    <2>1. \A i \in 1..Len(rs) : rs[i] \in Row
      BY ElementOfSeq
    <2> QED
      BY <2>1 DEF Row
  <1>2. Len(rs) \in Nat
    OBVIOUS
  <1> QED
    BY <1>1, <1>2 DEF Els

LEMMA ElsOfFew ==
  /\ Els(<<>>) = <<>>
  /\ \A k : \A e : Els(<<[key |-> k, el |-> e]>>) = <<e>>
  <1>1. Els(<<>>) = <<>>
    BY DEF Els
  <1>2. ASSUME NEW k, NEW e PROVE Els(<<[key |-> k, el |-> e]>>) = <<e>>
    <2> DEFINE r == <<[key |-> k, el |-> e]>>
    <2>1. Len(r) = 1 /\ r[1].el = e
      OBVIOUS
    <2> HIDE DEF r
    <2>2. Els(r) = [i \in 1..1 |-> r[i].el]
      BY <2>1 DEF Els
    <2>3. \A i \in 1..1 : i = 1
      OBVIOUS
    <2>4. Els(r) = [i \in 1..1 |-> e]
      BY <2>1, <2>2, <2>3
    <2>5. [i \in 1..1 |-> e] = <<e>>
      OBVIOUS
    <2> QED
      BY <2>4, <2>5 DEF r
  <1> QED
    BY <1>1, <1>2

LEMMA SlotNumbers ==
  ASSUME TypeInv, RowsInv, SlotsInv, NEW s \in Slot, NEW i \in 1..Len(slots[s])
  PROVE  slots[s][i] \in El /\ slots[s][i] < nextId
  <1>1. slots[s] \in Seq(El) /\ rows[s] \in Seq(Row)
    BY TypeInvParts
  <1>2. slots[s][i] \in El
    BY <1>1, ElementOfSeq
  <1>3. CASE template[s] = "element"
    <2>1. Len(<<>>) = 0
      OBVIOUS
    <2>2. CASE s \in pending
      BY <1>3, <2>1, <2>2 DEF SlotsInv
    <2>3. CASE s \notin pending
      <3>1. Len(slots[s]) = 1 /\ slots[s][1] < nextId
        BY <1>3, <2>3 DEF SlotsInv
      <3>2. i = 1
        BY <3>1
      <3> QED
        BY <1>2, <3>1, <3>2
    <2> QED
      BY <2>2, <2>3
  <1>4. CASE template[s] # "element"
    <2>1. slots[s] = Els(rows[s])
      BY <1>4 DEF SlotsInv
    <2>2. Len(Els(rows[s])) = Len(rows[s]) /\ \A j \in 1..Len(rows[s]) : Els(rows[s])[j] = rows[s][j].el
      BY <1>1, ElsFacts
    <2>3. i \in 1..Len(rows[s]) /\ slots[s][i] = rows[s][i].el
      BY <2>1, <2>2
    <2> QED
      BY <1>2, <2>3 DEF RowsInv
  <1> QED
    BY <1>3, <1>4

\* What a run leaves in its slot, and that it leaves the others alone.
LEMMA RunSlots ==
  ASSUME TypeInv, NEW s \in Slot, RunBlock(s),
         template[s] # "element" => slots[s] = Els(rows[s])
  PROVE  /\ \A r \in Slot : r # s => slots'[r] = slots[r] /\ rows'[r] = rows[r]
         /\ nextId' \in Nat /\ nextId' >= nextId
         /\ template[s] # "element" => slots'[s] = Els(rows'[s])
         /\ template[s] = "element" => Len(slots'[s]) = 1 /\ slots'[s][1] < nextId'
         /\ template[s] = "if" => (rows'[s] = <<>> <=> source[s] = <<>>)
  <1>1. /\ rows \in [Slot -> Seq(Row)] /\ slots \in [Slot -> Seq(El)] /\ nextId \in Nat
        /\ template[s] \in {"element", "if", "each"}
    BY TypeInvParts
  <1>2. CASE MountElement(s)
    <2>1. /\ slots' = [slots EXCEPT ![s] = <<nextId>>] /\ rows' = rows
          /\ nextId' = nextId + 1 /\ template[s] = "element"
      BY <1>2 DEF MountElement
    <2>2. slots'[s] = <<nextId>> /\ \A r \in Slot : r # s => slots'[r] = slots[r]
      BY <1>1, <2>1
    <2>3. Len(<<nextId>>) = 1 /\ <<nextId>>[1] = nextId
      OBVIOUS
    <2> QED
      BY <1>1, <2>1, <2>2, <2>3
  <1>3. CASE MountIf(s)
    <2> DEFINE new == <<[key |-> "body", el |-> nextId]>>
    <2>1. /\ slots' = [slots EXCEPT ![s] = <<nextId>>] /\ rows' = [rows EXCEPT ![s] = new]
          /\ nextId' = nextId + 1 /\ template[s] = "if" /\ source[s] # <<>>
      BY <1>3 DEF MountIf
    <2>2. /\ slots'[s] = <<nextId>> /\ rows'[s] = new
          /\ \A r \in Slot : r # s => slots'[r] = slots[r] /\ rows'[r] = rows[r]
      BY <1>1, <2>1
    <2>3. Els(new) = <<nextId>> /\ new # <<>>
      BY ElsOfFew
    <2> HIDE DEF new
    <2> QED
      BY <1>1, <2>1, <2>2, <2>3
  <1>4. CASE UnmountIf(s)
    <2>1. /\ slots' = [slots EXCEPT ![s] = <<>>] /\ rows' = [rows EXCEPT ![s] = <<>>]
          /\ nextId' = nextId /\ template[s] = "if" /\ source[s] = <<>>
      BY <1>4 DEF UnmountIf
    <2>2. /\ slots'[s] = <<>> /\ rows'[s] = <<>>
          /\ \A r \in Slot : r # s => slots'[r] = slots[r] /\ rows'[r] = rows[r]
      BY <1>1, <2>1
    <2> QED
      BY <1>1, <2>1, <2>2, ElsOfFew
  <1>5. CASE KeepIf(s)
    <2>1. slots' = slots /\ rows' = rows /\ nextId' = nextId /\ template[s] = "if"
      BY <1>5 DEF KeepIf, block
    <2>2. rows[s] = <<>> <=> source[s] = <<>>
      BY <1>5, Zenon DEF KeepIf
    <2> QED
      BY <1>1, <2>1, <2>2
  <1>6. CASE ReconcileEach(s)
    <2>1. /\ rows' = [rows EXCEPT ![s] = Next1(s)] /\ slots' = [slots EXCEPT ![s] = Els(Next1(s))]
          /\ template[s] = "each"
      BY <1>6, Reconciled DEF SlotsThen
    <2>2. /\ slots'[s] = Els(Next1(s)) /\ rows'[s] = Next1(s)
          /\ \A r \in Slot : r # s => slots'[r] = slots[r] /\ rows'[r] = rows[r]
      BY <1>1, <2>1
    <2>3. nextId' \in 1..(MaxElements + 1) /\ nextId' >= nextId
      BY <1>6, NumbersSuffice
    <2> QED
      BY <2>1, <2>2, <2>3, BoundsAssumption
  <1> QED
    BY <1>2, <1>3, <1>4, <1>5, <1>6 DEF RunBlock

LEMMA SlotsInit == Init => SlotsInv
  <1>1. SUFFICES ASSUME Init PROVE SlotsInv
    OBVIOUS
  <1>2. /\ pending = Slot /\ rows = [s \in Slot |-> <<>>] /\ slots = [s \in Slot |-> <<>>]
        /\ phase = "build"
    BY <1>1 DEF Init
  <1> QED
    BY <1>2, ElsOfFew DEF SlotsInv

LEMMA SlotsRun ==
  ASSUME TypeInv, SlotsInv, NEW s \in pending, RunBlock(s), pending' = pending \ {s},
         UNCHANGED <<template, source>>,
         \/ phase = "build" /\ \A r \in pending : s <= r
         \/ phase # "build",
         phase' = phase \/ (phase = "build" /\ pending' = {})
  PROVE  SlotsInv'
  <1>1. /\ s \in Slot /\ Slot' = Slot /\ pending \subseteq Slot /\ Slot \subseteq Nat
        /\ slots \in [Slot -> Seq(El)] /\ nextId \in Nat
    BY TypeInvParts DEF Slot
  <1>2. /\ \A r \in Slot : r # s => slots'[r] = slots[r] /\ rows'[r] = rows[r]
        /\ nextId' \in Nat /\ nextId' >= nextId
        /\ template[s] # "element" => slots'[s] = Els(rows'[s])
        /\ template[s] = "element" => Len(slots'[s]) = 1 /\ slots'[s][1] < nextId'
        /\ template[s] = "if" => (rows'[s] = <<>> <=> source[s] = <<>>)
    BY <1>1, RunSlots DEF SlotsInv
  <1>3. ASSUME NEW r \in Slot
        PROVE  /\ template[r] # "element" => slots'[r] = Els(rows'[r])
               /\ template[r] = "element" =>
                    IF r \in pending' THEN slots'[r] = <<>>
                    ELSE Len(slots'[r]) = 1 /\ slots'[r][1] < nextId'
               /\ template[r] = "if" /\ r \notin pending' => (rows'[r] = <<>> <=> source[r] = <<>>)
    <2>1. CASE r = s
      BY <1>2, <2>1
    <2>2. CASE r # s
      <3>1. slots'[r] = slots[r] /\ rows'[r] = rows[r] /\ (r \in pending' <=> r \in pending)
        BY <1>2, <2>2
      <3>2. template[r] = "element" /\ r \notin pending => Len(slots[r]) = 1 /\ slots[r][1] < nextId'
        <4>1. ASSUME template[r] = "element", r \notin pending
              PROVE  Len(slots[r]) = 1 /\ slots[r][1] < nextId'
          <5>1. Len(slots[r]) = 1 /\ slots[r][1] < nextId
            BY <4>1 DEF SlotsInv
          <5>2. slots[r] \in Seq(El)
            BY <1>1
          <5>3. slots[r][1] \in El
            BY <5>1, <5>2, ElementOfSeq
          <5> QED
            BY <1>1, <1>2, <5>1, <5>3 DEF El
        <4> QED
          BY <4>1
      <3> QED
        BY <3>1, <3>2 DEF SlotsInv
    <2> QED
      BY <2>1, <2>2
  <1>4. ASSUME phase' = "build", NEW p \in pending', NEW r \in Slot, p <= r
        PROVE  r \in pending' /\ slots'[r] = <<>>
    <2>1. phase = "build" /\ p \in pending /\ p # s /\ s <= p
      BY <1>4
    <2>2. r # s
      BY <1>1, <1>4, <2>1
    <2>3. r \in pending /\ slots[r] = <<>>
      BY <1>4, <2>1 DEF SlotsInv
    <2> QED
      BY <1>2, <2>2, <2>3
  <1>5. ASSUME phase' # "build", NEW p \in pending' PROVE template[p] # "element"
    BY <1>5 DEF SlotsInv
  <1> QED
    BY <1>1, <1>3, <1>4, <1>5 DEF SlotsInv

LEMMA SlotsWrite ==
  ASSUME TypeInv, TypeInv', SlotsInv, pending = {}, phase # "build", Write,
         UNCHANGED <<rows, slots, nextId>>, phase' # "build"
  PROVE  SlotsInv'
  <1>1. /\ template' = template /\ Slot' = Slot
        /\ pending' = {s \in Slot : source'[s] # source[s]}
    BY DEF Write, Slot
  <1>2. \A s \in Slot : template[s] = "element" => source'[s] = source[s]
    <2>1. \A s \in Slot : template[s] = "element" => source[s] = <<Static>>
      BY TypeInvParts
    <2>2. source' \in Sources'
      BY DEF TypeInv
    <2>3. \A s \in Slot : source'[s] \in Source(template[s])
      BY <1>1, <2>2 DEF Sources
    <2>4. Source("element") = {<<Static>>}
      BY DEF Source, Branches
    <2> QED
      BY <2>1, <2>3, <2>4
  <1> QED
    BY <1>1, <1>2 DEF SlotsInv

LEMMA SlotsStep == TypeInv /\ TypeInv' /\ SlotsInv /\ [Next]_vars => SlotsInv'
  <1>1. SUFFICES ASSUME TypeInv, TypeInv', SlotsInv, [Next]_vars PROVE SlotsInv'
    OBVIOUS
  <1>2. CASE Build
    <2>1. /\ UNCHANGED <<template, source>> /\ phase = "build"
          /\ \E s \in pending : /\ RunBlock(s) /\ pending' = pending \ {s}
                                /\ \A r \in pending : s <= r
          /\ phase' = phase \/ pending' = {}
      BY <1>2 DEF Build
    <2> QED
      BY <1>1, <2>1, SlotsRun
  <1>3. CASE Flush
    <2>1. /\ UNCHANGED <<template, source>> /\ phase # "build" /\ phase' = phase
          /\ \E s \in pending : RunBlock(s) /\ pending' = pending \ {s}
      BY <1>3 DEF Flush, host
    <2> QED
      BY <1>1, <2>1, SlotsRun
  <1>4. CASE /\ pending = {} /\ phase # "build" /\ Write /\ UNCHANGED <<rows, slots, nextId>>
             /\ phase' # "build"
    BY <1>1, <1>4, SlotsWrite
  <1>5. CASE /\ UNCHANGED <<app, rows, slots, nextId>>
             /\ phase' = phase \/ (phase # "build" /\ phase' # "build")
    BY <1>1, <1>5 DEF SlotsInv, app, Slot
  <1>6. \/ Build \/ Flush
        \/ /\ pending = {} /\ phase # "build" /\ Write /\ UNCHANGED <<rows, slots, nextId>>
           /\ phase' # "build"
        \/ /\ UNCHANGED <<app, rows, slots, nextId>>
           /\ phase' = phase \/ (phase # "build" /\ phase' # "build")
    <2>1. CASE OutsideWrite \/ RouteClick
      BY <2>1 DEF OutsideWrite, RouteClick, block, host
    <2>2. CASE UserClicks \/ HandleBegins \/ HandleReturns \/ UNCHANGED vars
      BY <2>2 DEF UserClicks, HandleBegins, HandleReturns, vars, block, app, host
    <2> QED
      BY <1>1, <2>1, <2>2 DEF Next
  <1> QED
    BY <1>2, <1>3, <1>4, <1>5, <1>6
-----------------------------------------------------------------------------
(* What a log does to the children, one slot of which is rebuilt. *)

LEMMA AppliedChildren ==
  ASSUME NEW t \in Tree, NEW m \in Mutation
  PROVE  /\ m.op \in {"create", "text"} => ApplyMutation(t, m).children = t.children
         /\ m.op = "remove" /\ Exists(t, m.el) =>
              ApplyMutation(t, m).children = Detach(t.children, m.el)
         /\ m.op = "attach" /\ Exists(t, m.el) /\ (m.before = NoEl \/ Exists(t, m.before)) =>
              ApplyMutation(t, m) = Placed(t, m.el, m.before)
  <1>1. m.el \in El /\ m.op \in {"create", "text", "attach", "remove"}
        /\ (m.op \in {"create", "text"} => m.text \in Texts)
    BY MutationKinds
  <1>2. CASE m.op = "create"
    <2>1. ApplyMutation(t, m) = Written(t, m.el, m.text)
      BY <1>2 DEF ApplyMutation
    <2>2. Written(t, m.el, m.text).children = t.children
      BY <1>1, <1>2, WrittenTree
    <2> QED
      BY <1>2, <2>1, <2>2
  <1>3. CASE m.op = "text"
    <2>1. Exists(t, m.el) => ApplyMutation(t, m) = Written(t, m.el, m.text)
      BY <1>3 DEF ApplyMutation
    <2>2. ~Exists(t, m.el) => ApplyMutation(t, m) = t
      BY <1>3 DEF ApplyMutation
    <2>3. Written(t, m.el, m.text).children = t.children
      BY <1>1, <1>3, WrittenTree
    <2> QED
      BY <1>3, <2>1, <2>2, <2>3
  <1>4. CASE m.op = "remove"
    <2>1. Exists(t, m.el) => ApplyMutation(t, m) = Without(t, m.el)
      BY <1>4 DEF ApplyMutation
    <2>2. Without(t, m.el).children = Detach(t.children, m.el)
      BY <1>1, WithoutTree
    <2> QED
      BY <1>4, <2>1, <2>2
  <1>5. CASE m.op = "attach"
    BY <1>5 DEF ApplyMutation
  <1> QED
    BY <1>1, <1>2, <1>3, <1>4, <1>5

\* What the slots hold when one of them is rebuilt.
LEMMA SlotReplaced ==
  ASSUME TypeInv, NEW s \in Slot, NEW x \in Seq(El)
  PROVE  /\ Before(slots, s) \in Seq(El) /\ Later(slots, s) \in Seq(El) /\ slots[s] \in Seq(El)
         /\ FlattenSeq(slots) = (Before(slots, s) \o slots[s]) \o Later(slots, s)
         /\ FlattenSeq([slots EXCEPT ![s] = x]) = (Before(slots, s) \o x) \o Later(slots, s)
         /\ Later([slots EXCEPT ![s] = x], s) = Later(slots, s)
  <1>1. slots \in Seq(Seq(El)) /\ s \in 1..Len(slots)
    BY TypeInvParts DEF Slot
  <1> DEFINE r == [slots EXCEPT ![s] = x]
  <1>2. r \in Seq(Seq(El)) /\ s \in 1..Len(r) /\ r[s] = x
    BY <1>1
  <1>3. Before(r, s) = Before(slots, s) /\ Later(r, s) = Later(slots, s)
    BY <1>1, SplitKept
  <1>4. /\ Before(slots, s) \in Seq(El) /\ Later(slots, s) \in Seq(El) /\ slots[s] \in Seq(El)
        /\ FlattenSeq(slots) = (Before(slots, s) \o slots[s]) \o Later(slots, s)
    BY <1>1, FlattenSplit
  <1> HIDE DEF r
  <1>5. FlattenSeq(r) = (Before(r, s) \o r[s]) \o Later(r, s)
    BY <1>2, FlattenSplit
  <1> QED
    BY <1>2, <1>3, <1>4, <1>5 DEF r

\* The three parts hold different elements.
Apart(p, k, q) ==
  /\ IsInjective(p) /\ IsInjective(k) /\ IsInjective(q)
  /\ \A x : /\ ~(Contains(p, x) /\ Contains(k, x))
            /\ ~(Contains(p, x) /\ Contains(q, x))
            /\ ~(Contains(k, x) /\ Contains(q, x))

DetachesInParts(p, k, q, el) ==
  Detach((p \o k) \o q, el) = (Detach(p, el) \o Detach(k, el)) \o Detach(q, el)

LEMMA ThreeParts ==
  ASSUME NEW T, NEW p \in Seq(T), NEW k \in Seq(T), NEW q \in Seq(T)
  PROVE  /\ (p \o k) \o q \in Seq(T)
         /\ \A x : Contains((p \o k) \o q, x) <=> Contains(p, x) \/ Contains(k, x) \/ Contains(q, x)
         /\ IsInjective((p \o k) \o q) <=> Apart(p, k, q)
         /\ \A el : DetachesInParts(p, k, q, el)
  <1> DEFINE c == p \o k
  <1>1. c \in Seq(T)
    BY ConcatProperties
  <1>2. \A x : Contains(c, x) <=> Contains(p, x) \/ Contains(k, x)
    BY ConcatEntries
  <1>3. IsInjective(c) <=>
           IsInjective(p) /\ IsInjective(k) /\ \A x : ~(Contains(p, x) /\ Contains(k, x))
    BY ConcatInjective
  <1>4. \A el : Detach(c, el) = Detach(p, el) \o Detach(k, el)
    BY DetachConcat
  <1> HIDE DEF c
  <1>5. c \o q \in Seq(T)
    BY <1>1, ConcatProperties
  <1>6. \A x : Contains(c \o q, x) <=> Contains(c, x) \/ Contains(q, x)
    BY <1>1, ConcatEntries
  <1>7. IsInjective(c \o q) <=>
           IsInjective(c) /\ IsInjective(q) /\ \A x : ~(Contains(c, x) /\ Contains(q, x))
    BY <1>1, ConcatInjective
  <1>8. \A el : Detach(c \o q, el) = Detach(c, el) \o Detach(q, el)
    BY <1>1, DetachConcat
  <1>9. IsInjective(c \o q) <=> Apart(p, k, q)
    BY <1>2, <1>3, <1>7, Zenon DEF Apart
  <1>10. \A x : Contains(c \o q, x) <=> Contains(p, x) \/ Contains(k, x) \/ Contains(q, x)
    BY <1>2, <1>6
  <1>11. \A el : Detach(c \o q, el) = (Detach(p, el) \o Detach(k, el)) \o Detach(q, el)
    BY <1>4, <1>8
  <1> QED
    BY <1>5, <1>9, <1>10, <1>11 DEF c, DetachesInParts

\* Trees in which the elements of k are being removed from between p and q.
Thinning(p, k, q) ==
  {u \in Tree :
     /\ IsInjective(u.children)
     /\ \A x : Contains(u.children, x) => Exists(u, x)
     /\ \E r \in Seq(El) : /\ u.children = (p \o r) \o q
                           /\ \A x : Contains(r, x) => Contains(k, x)}

LEMMA RemovalThins ==
  ASSUME NEW p \in Seq(El), NEW k \in Seq(El), NEW q \in Seq(El), Apart(p, k, q),
         NEW m \in Mutation, m.op = "remove", Contains(k, m.el), NEW u \in Thinning(p, k, q)
  PROVE  /\ ApplyMutation(u, m) \in Thinning(p, k, q)
         /\ \A x : Contains(ApplyMutation(u, m).children, x) <=>
                     Contains(u.children, x) /\ x # m.el
  <1>1. PICK r \in Seq(El) : /\ u.children = (p \o r) \o q
                             /\ \A x : Contains(r, x) => Contains(k, x)
    BY DEF Thinning
  <1>2. u \in Tree /\ IsInjective(u.children) /\ \A x : Contains(u.children, x) => Exists(u, x)
    BY DEF Thinning
  <1> DEFINE v == ApplyMutation(u, m)
             el == m.el
  <1>3. v \in Tree /\ IsInjective(v.children) /\ u.children \in Seq(El) /\ el \in El
    BY <1>2, AppliedTree, MutationKinds DEF Tree
  <1>4. CASE Exists(u, el)
    <2>1. v.children = Detach(u.children, el)
      BY <1>2, <1>4, AppliedChildren
    <2>2. \A x : Contains(v.children, x) <=> Contains(u.children, x) /\ x # el
      BY <1>3, <2>1, DetachList
    <2>3. DOMAIN v.text = DOMAIN u.text \ {el}
      BY <1>2, AppliedTexts
    <2>4. Detach(p, el) = p /\ Detach(q, el) = q
      <3>1. ~Contains(p, el) /\ ~Contains(q, el)
        BY DEF Apart
      <3> QED
        BY <3>1, DetachAbsent
    <2>5. Detach(u.children, el) = (p \o Detach(r, el)) \o q
      <3>1. DetachesInParts(p, r, q, el)
        BY ThreeParts
      <3> HIDE DEF el
      <3> QED
        BY <1>1, <2>4, <3>1 DEF DetachesInParts
    <2>6. Detach(r, el) \in Seq(El) /\ \A x : Contains(Detach(r, el), x) => Contains(k, x)
      BY <1>1, DetachList
    <2> HIDE DEF v, el
    <2>7. \A x : Contains(v.children, x) => Exists(v, x)
      BY <1>2, <2>2, <2>3 DEF Exists
    <2>8. v \in Thinning(p, k, q)
      BY <1>3, <2>1, <2>5, <2>6, <2>7 DEF Thinning
    <2> QED
      BY <2>2, <2>8 DEF v, el
  <1>5. CASE ~Exists(u, el)
    <2>1. v = u
      BY <1>5 DEF ApplyMutation
    <2>2. ~Contains(u.children, el)
      BY <1>2, <1>5
    <2> QED
      BY <2>1, <2>2
  <1> QED
    BY <1>4, <1>5

Between(list, p, k, q) == list = (p \o k) \o q

\* A run of removals takes them from between p and q, and nothing else.
LEMMA RemovalsPlace ==
  ASSUME NEW p \in Seq(El), NEW k \in Seq(El), NEW q \in Seq(El), Apart(p, k, q),
         NEW t \in Tree, Between(t.children, p, k, q),
         \A x : Contains(t.children, x) => Exists(t, x),
         NEW ms \in Seq(Mutation),
         \A i \in 1..Len(ms) : ms[i].op = "remove" /\ Contains(k, ms[i].el)
  PROVE  /\ Replayed(t, ms) \in Thinning(p, k, q)
         /\ \A i \in 1..Len(ms) : ~Contains(Replayed(t, ms).children, ms[i].el)
  <1> DEFINE G == Thinning(p, k, q)
  <1>1. G \subseteq Tree /\ t \in G
    <2>1. IsInjective(t.children)
      BY ThreeParts DEF Between
    <2> QED
      BY <2>1 DEF Thinning, Between
  <1>2. \A i \in 1..Len(ms) : ms[i] \in Mutation
    BY ElementOfSeq
  <1>3. \A i \in 1..Len(ms) : \A u \in G : ApplyMutation(u, ms[i]) \in G
    BY <1>2, RemovalThins
  <1>4. ASSUME NEW i \in 1..Len(ms) PROVE ~Contains(Replayed(t, ms).children, ms[i].el)
    <2> DEFINE el == ms[i].el
               H == {u \in G : ~Contains(u.children, el)}
    <2>0. ASSUME NEW j \in 1..Len(ms), NEW u \in G
          PROVE  \A x : Contains(ApplyMutation(u, ms[j]).children, x) <=>
                          Contains(u.children, x) /\ x # ms[j].el
      <3>1. ms[j] \in Mutation /\ ms[j].op = "remove" /\ Contains(k, ms[j].el)
        BY <1>2
      <3> QED
        BY <3>1, RemovalThins
    <2>1. \A u \in G : ApplyMutation(u, ms[i]) \in H
      BY <1>3, <2>0
    <2>2. \A j \in 1..Len(ms) : j > i => \A u \in G : u \in H => ApplyMutation(u, ms[j]) \in H
      BY <1>3, <2>0
    <2> HIDE DEF H, G
    <2>3. Replayed(t, ms) \in H
      BY <1>1, <1>3, <2>1, <2>2, ReplayReaches
    <2> QED
      BY <2>3 DEF H
  <1> HIDE DEF G
  <1>5. Replayed(t, ms) \in G
    BY <1>1, <1>3, ReplayKeeps
  <1> QED
    BY <1>4, <1>5 DEF G
-----------------------------------------------------------------------------
(* The moves put a slot's elements in place from the last one back. *)

Latter(els, n) == SubSeq(els, Len(els) + 1 - n, Len(els))

LEMMA LatterFacts ==
  ASSUME NEW T, NEW els \in Seq(T)
  PROVE  /\ Latter(els, 0) = <<>> /\ Latter(els, Len(els)) = els
         /\ \A n \in 0..Len(els) :
              /\ Latter(els, n) \in Seq(T) /\ Len(Latter(els, n)) = n
              /\ \A i \in 1..n : Latter(els, n)[i] = els[Len(els) - n + i]
         /\ \A n \in 1..Len(els) :
              Latter(els, n) = <<els[Len(els) + 1 - n]>> \o Latter(els, n - 1)
  <1> DEFINE L == Len(els)
  <1>0. L \in Nat /\ L \in 0..L /\ 0 \in 0..L
    OBVIOUS
  <1>1. ASSUME NEW n \in 0..L
        PROVE  /\ Latter(els, n) \in Seq(T) /\ Len(Latter(els, n)) = n
               /\ \A i \in 1..n : Latter(els, n)[i] = els[L - n + i]
    <2> DEFINE r == SubSeq(els, L + 1 - n, L)
    <2>1. /\ r \in Seq(T) /\ Len(r) = L - (L + 1 - n) + 1
          /\ \A i \in 1..(L - (L + 1 - n) + 1) : r[i] = els[(L + 1 - n) + i - 1]
      OBVIOUS
    <2>2. L - (L + 1 - n) + 1 = n /\ \A i \in 1..n : (L + 1 - n) + i - 1 = L - n + i
      BY <1>0
    <2>3. Latter(els, n) = r
      BY DEF Latter
    <2> HIDE DEF r, L
    <2> QED
      BY <2>1, <2>2, <2>3
  <1> HIDE DEF L
  <1>2. Latter(els, 0) = <<>>
    <2> DEFINE r == Latter(els, 0)
    <2>1. r \in Seq(T) /\ Len(r) = 0
      BY <1>0, <1>1
    <2> HIDE DEF r
    <2> QED
      BY <2>1 DEF r
  <1>3. Latter(els, L) = els
    <2> DEFINE r == Latter(els, L)
    <2>1. r \in Seq(T) /\ Len(r) = L /\ \A i \in 1..L : r[i] = els[L - L + i]
      BY <1>0, <1>1
    <2>2. \A i \in 1..L : L - L + i = i
      BY <1>0
    <2> HIDE DEF r
    <2>3. \A i \in 1..Len(r) : r[i] = els[i]
      BY <2>1, <2>2
    <2>4. r = els
      BY <2>1, <2>3, SeqEqual DEF L
    <2> QED
      BY <2>4 DEF r
  <1>4. ASSUME NEW n \in 1..L
        PROVE  Latter(els, n) = <<els[L + 1 - n]>> \o Latter(els, n - 1)
    <2> DEFINE r == Latter(els, n)
               q == Latter(els, n - 1)
               e == els[L + 1 - n]
               o == <<e>>
    <2>1. n \in 0..L /\ n - 1 \in 0..L /\ L + 1 - n \in 1..L /\ L - n + 1 = L + 1 - n
      BY <1>0
    <2>2. r \in Seq(T) /\ Len(r) = n /\ \A i \in 1..n : r[i] = els[L - n + i]
      BY <1>1, <2>1
    <2>3. q \in Seq(T) /\ Len(q) = n - 1 /\ \A i \in 1..(n - 1) : q[i] = els[L - (n - 1) + i]
      BY <1>1, <2>1
    <2>4. e \in T
      BY <2>1, ElementOfSeq DEF L
    <2>5. o \in Seq(T) /\ Len(o) = 1 /\ o[1] = e
      BY <2>4
    <2>a. e = els[L + 1 - n]
      OBVIOUS
    <2> HIDE DEF r, q, o, e
    <2>6. /\ o \o q \in Seq(T) /\ Len(o \o q) = Len(o) + Len(q)
          /\ \A i \in 1..(Len(o) + Len(q)) : (o \o q)[i] = IF i <= Len(o) THEN o[i] ELSE q[i - Len(o)]
      BY <2>3, <2>5, ConcatProperties
    <2> DEFINE c == o \o q
    <2>7. c \in Seq(T) /\ Len(c) = n /\ \A i \in 1..n : c[i] = IF i <= 1 THEN o[i] ELSE q[i - 1]
      BY <2>3, <2>5, <2>6
    <2> HIDE DEF c
    <2>8. \A i \in 1..n : r[i] = c[i]
      <3>1. ASSUME NEW i \in 1..n PROVE r[i] = c[i]
        <4>1. CASE i = 1
          BY <2>1, <2>2, <2>5, <2>7, <2>a, <4>1
        <4>2. CASE i # 1
          <5>1. i - 1 \in 1..(n - 1) /\ L - (n - 1) + (i - 1) = L - n + i /\ ~(i <= 1)
            BY <1>0, <4>2
          <5>2. q[i - 1] = els[L - n + i]
            BY <2>3, <5>1
          <5> QED
            BY <2>2, <2>7, <5>1, <5>2
        <4> QED
          BY <4>1, <4>2
      <3> QED
        BY <3>1
    <2>9. r = c
      BY <2>2, <2>7, <2>8, SeqEqual
    <2> QED
      BY <2>9 DEF r, c, o, q, e
  <1> QED
    BY <1>1, <1>2, <1>3, <1>4 DEF L

\* Trees in which the last n of els are in place between p and q.
Placing(p, els, q, text, n) ==
  {u \in Tree :
     /\ u.text = text /\ IsInjective(u.children)
     /\ \E r \in Seq(El) :
          /\ u.children = (p \o r) \o (Latter(els, n) \o q)
          /\ \A x : Contains(r, x) => \E i \in 1..(Len(els) - n) : els[i] = x}

LEMMA MovePlaces ==
  ASSUME NEW p \in Seq(El), NEW els \in Seq(El), NEW q \in Seq(El), Apart(p, els, q),
         NEW text, \A x : Contains(els, x) \/ Contains(q, x) => x \in DOMAIN text,
         NEW n \in 1..Len(els), NEW u \in Placing(p, els, q, text, n - 1),
         NEW m, m = Attach(els[Len(els) + 1 - n],
                           IF n = 1 THEN FirstOf(q) ELSE els[Len(els) + 2 - n])
  PROVE  ApplyMutation(u, m) \in Placing(p, els, q, text, n)
  <1> DEFINE L == Len(els)
             el == els[L + 1 - n]
             before == IF n = 1 THEN FirstOf(q) ELSE els[L + 2 - n]
             y == Latter(els, n - 1)
  <1>1. PICK r \in Seq(El) : /\ u.children = (p \o r) \o (y \o q)
                             /\ \A x : Contains(r, x) => \E i \in 1..(L - (n - 1)) : els[i] = x
    BY DEF Placing
  <1>2. u \in Tree /\ u.text = text /\ IsInjective(u.children) /\ u.children \in Seq(El)
    BY DEF Placing, Tree
  <1>3. /\ L \in Nat /\ n \in 0..L /\ n - 1 \in 0..L /\ L + 1 - n \in 1..L
        /\ L - (n - 1) = L + 1 - n
    OBVIOUS
  <1>4. el \in El /\ Contains(els, el)
    BY <1>3, ElementOfSeq DEF Contains
  <1>5. y \in Seq(El) /\ Len(y) = n - 1 /\ \A i \in 1..(n - 1) : y[i] = els[L - (n - 1) + i]
    BY <1>3, LatterFacts
  <1>6. y \o q \in Seq(El) /\ \A x : Contains(y \o q, x) <=> Contains(y, x) \/ Contains(q, x)
    BY <1>5, ConcatProperties, ConcatEntries
  <1>a. m = Attach(el, before)
    OBVIOUS
  <1>b. DOMAIN els = 1..L
    OBVIOUS
  <1> DEFINE b == y \o q
  <1>7. FirstOf(b) = before
    <2>1. CASE n = 1
      <3>1. y = <<>>
        BY <2>1, LatterFacts
      <3>2. b = q
        BY <3>1, ConcatEmptySeq
      <3> QED
        BY <2>1, <3>2
    <2>2. CASE n # 1
      <3>1. 1 \in 1..(n - 1) /\ L - (n - 1) + 1 = L + 2 - n /\ before = els[L + 2 - n]
        BY <1>3, <2>2
      <3>2. y[1] = els[L + 2 - n]
        BY <1>5, <3>1
      <3>3. Len(y) \in Nat /\ Len(y) >= 1 /\ Len(q) \in Nat
        BY <1>5, <3>1
      <3> HIDE DEF y, L, before
      <3>4. /\ b \in Seq(El) /\ Len(b) = Len(y) + Len(q)
            /\ \A i \in 1..(Len(y) + Len(q)) : b[i] = IF i <= Len(y) THEN y[i] ELSE q[i - Len(y)]
        BY <1>5, ConcatProperties
      <3>5. 1 \in 1..(Len(y) + Len(q)) /\ 1 <= Len(y)
        BY <3>3
      <3>6. b[1] = y[1] /\ Len(b) >= 1
        BY <3>3, <3>4, <3>5
      <3> HIDE DEF b
      <3>7. b # <<>> /\ Head(b) = b[1]
        BY <3>4, <3>6
      <3> QED
        BY <3>1, <3>2, <3>6, <3>7 DEF FirstOf
    <2> QED
      BY <2>1, <2>2
  <1>8. ~Contains(p, el) /\ ~Contains(q, el)
    BY <1>4 DEF Apart
  <1>9. ~Contains(y, el)
    <2>1. ASSUME NEW i \in 1..(n - 1), y[i] = el PROVE FALSE
      <3>1. /\ L - (n - 1) + i \in 1..L /\ L - (n - 1) + i # L + 1 - n
        BY <1>3
      <3>2. els[L - (n - 1) + i] = els[L + 1 - n]
        BY <1>5, <2>1
      <3>3. \A i1, i2 \in 1..L : els[i1] = els[i2] => i1 = i2
        BY <1>b DEF Apart, IsInjective
      <3> HIDE DEF L
      <3> QED
        BY <1>3, <3>1, <3>2, <3>3
    <2> HIDE DEF y
    <2> QED
      BY <1>5, <2>1 DEF Contains
  <1>10. \A x : Contains(y, x) => Contains(els, x)
    <2>1. \A i \in 1..(n - 1) : L - (n - 1) + i \in 1..L
      BY <1>3
    <2> HIDE DEF y
    <2> QED
      BY <1>5, <2>1 DEF Contains
  <1> HIDE DEF y, b, L, el, before
  <1>11. b \in Seq(El) /\ u.children = (p \o r) \o b /\ ~Contains(b, el)
         /\ \A x : Contains(b, x) => x \in DOMAIN text
    BY <1>1, <1>6, <1>8, <1>9, <1>10 DEF b
  <1> DEFINE rr == Detach(r, el)
             a == p \o rr
  <1>12. rr \in Seq(El) /\ \A x : Contains(rr, x) <=> Contains(r, x) /\ x # el
    BY DetachList
  <1>13. a \in Seq(El)
    BY <1>12, ConcatProperties
  <1>14. Detach(u.children, el) = a \o b
    <2>1. DetachesInParts(p, r, b, el)
      BY <1>11, ThreeParts
    <2>2. Detach(p, el) = p /\ Detach(b, el) = b
      BY <1>8, <1>11, DetachAbsent
    <2> HIDE DEF rr
    <2> QED
      BY <1>11, <2>1, <2>2 DEF DetachesInParts, rr
  <1>15. IsInjective(a \o b)
    BY <1>2, <1>14, DetachList
  <1> HIDE DEF rr, a
  <1>16. Placed(u, el, before).children = (a \o <<el>>) \o b
    <2>1. Placed(u, el, FirstOf(b)).children = (a \o <<el>>) \o b
      BY <1>2, <1>4, <1>11, <1>13, <1>14, <1>15, PlacedBetween
    <2> QED
      BY <1>7, <2>1
  <1>17. before \in El \cup {NoEl} /\ (before = NoEl \/ before \in DOMAIN text)
    <2>1. CASE b = <<>>
      BY <1>7, <2>1 DEF FirstOf
    <2>2. CASE b # <<>>
      <3>1. before = b[1] /\ 1 \in 1..Len(b)
        BY <1>7, <1>11, <2>2 DEF FirstOf
      <3>2. Contains(b, before) /\ before \in El
        BY <1>11, <3>1, ElementOfSeq DEF Contains
      <3> QED
        BY <1>11, <3>2
    <2> QED
      BY <2>1, <2>2
  <1>18. ApplyMutation(u, m) = Placed(u, el, before)
    <2>1. m \in Mutation /\ m.op = "attach" /\ m.el = el /\ m.before = before
      <3>1. Attach(el, before) \in Mutation
        BY <1>4, <1>17, MutationTypes
      <3> QED
        BY <1>a, <3>1 DEF Attach
    <2>2. Exists(u, el)
      BY <1>2, <1>4 DEF Exists
    <2>3. before = NoEl \/ Exists(u, before)
      BY <1>2, <1>17 DEF Exists
    <2> QED
      BY <1>2, <2>1, <2>2, <2>3, AppliedChildren
  <1> DEFINE v == Placed(u, el, before)
  <1>19. v \in Tree /\ v.text = text /\ IsInjective(v.children)
    BY <1>2, <1>4, PlacedTree
  <1>20. v.children = (p \o rr) \o (Latter(els, n) \o q)
    <2> DEFINE o == <<el>>
    <2>1. o \in Seq(El)
      BY <1>4
    <2>2. Latter(els, n) = o \o y
      BY LatterFacts DEF y, el, L
    <2> HIDE DEF o
    <2>3. Associates(a, o, b)
      BY <1>11, <1>13, <2>1, ConcatTwice
    <2>4. Associates(o, y, q)
      BY <1>5, <2>1, ConcatTwice
    <2>5. v.children = (a \o o) \o b
      BY <1>16 DEF o
    <2> HIDE DEF v
    <2> QED
      BY <2>2, <2>3, <2>4, <2>5 DEF Associates, a, b
  <1>21. \A x : Contains(rr, x) => \E i \in 1..(L - n) : els[i] = x
    <2>1. ASSUME NEW x, Contains(r, x), x # el PROVE \E i \in 1..(L - n) : els[i] = x
      <3>1. PICK i \in 1..(L - (n - 1)) : els[i] = x
        BY <1>1, <2>1
      <3>2. i # L + 1 - n
        BY <2>1, <3>1 DEF el
      <3>3. i \in 1..(L - n)
        BY <1>3, <3>2
      <3> QED
        BY <3>1, <3>3
    <2> QED
      BY <1>12, <2>1
  <1> HIDE DEF v
  <1>22. v \in Placing(p, els, q, text, n)
    BY <1>12, <1>19, <1>20, <1>21 DEF Placing, L
  <1> QED
    BY <1>18, <1>22 DEF v

LEMMA MovesPlace ==
  ASSUME NEW p \in Seq(El), NEW els \in Seq(El), NEW q \in Seq(El), Apart(p, els, q),
         NEW t \in Tree, \A x : Contains(els, x) \/ Contains(q, x) => Exists(t, x),
         IsInjective(t.children), NEW r \in Seq(El), Between(t.children, p, r, q),
         \A x : Contains(r, x) => Contains(els, x)
  PROVE  Between(Replayed(t, Moves(els, FirstOf(q))).children, p, els, q)
  <1> DEFINE ms == Moves(els, FirstOf(q))
             L == Len(els)
             Good == [n \in 0..L |-> Placing(p, els, q, t.text, n)]
  <1>0. FirstOf(q) \in El \cup {NoEl}
    <2>1. CASE q = <<>>
      BY <2>1 DEF FirstOf
    <2>2. CASE q # <<>>
      <3>1. Head(q) \in El
        BY <2>2
      <3> QED
        BY <2>2, <3>1 DEF FirstOf
    <2> QED
      BY <2>1, <2>2
  <1>1. /\ ms \in Seq(Mutation) /\ Len(ms) = L
        /\ \A n \in 1..L : ms[n] = Attach(els[L + 1 - n],
                                          IF n = 1 THEN FirstOf(q) ELSE els[L + 2 - n])
    BY <1>0, MoveEntries
  <1>2. L \in Nat /\ 0 \in 0..L /\ L \in 0..L
    OBVIOUS
  <1>3. \A n \in 0..L : Good[n] = Placing(p, els, q, t.text, n)
    OBVIOUS
  <1>4. \A x : Contains(els, x) \/ Contains(q, x) => x \in DOMAIN t.text
    BY DEF Exists
  <1> HIDE DEF Good, ms, L
  <1>5. t \in Good[0]
    <2>1. Latter(els, 0) \o q = q
      BY LatterFacts, ConcatEmptySeq
    <2>2. \A x : Contains(r, x) => \E i \in 1..(Len(els) - 0) : els[i] = x
      <3>1. Len(els) - 0 = Len(els)
        BY <1>2 DEF L
      <3> QED
        BY <3>1 DEF Contains
    <2>3. t.children = (p \o r) \o (Latter(els, 0) \o q)
      BY <2>1 DEF Between
    <2>4. t \in Placing(p, els, q, t.text, 0)
      BY <2>2, <2>3 DEF Placing
    <2> QED
      BY <1>2, <1>3, <2>4
  <1>6. \A n \in 0..L : Good[n] \subseteq Tree
    BY <1>3 DEF Placing
  <1>7. ASSUME NEW n \in 1..L, NEW u \in Good[n - 1] PROVE ApplyMutation(u, ms[n]) \in Good[n]
    <2>1. n \in 0..L /\ n - 1 \in 0..L /\ n \in 1..Len(els)
      BY <1>2 DEF L
    <2>2. u \in Placing(p, els, q, t.text, n - 1)
      BY <1>3, <2>1
    <2> DEFINE m == ms[n]
               text == t.text
    <2>3. m = Attach(els[Len(els) + 1 - n], IF n = 1 THEN FirstOf(q) ELSE els[Len(els) + 2 - n])
      BY <1>1 DEF L
    <2> HIDE DEF m, text
    <2>4. ApplyMutation(u, m) \in Placing(p, els, q, text, n)
      BY <1>4, <2>1, <2>2, <2>3, MovePlaces DEF text
    <2> QED
      BY <1>3, <2>1, <2>4 DEF m, text
  <1>8. Replayed(t, ms) \in Good[L]
    BY <1>1, <1>5, <1>6, <1>7, ReplayFollows
  <1>9. Replayed(t, ms) \in Placing(p, els, q, t.text, L)
    BY <1>2, <1>3, <1>8
  <1>10. PICK z \in Seq(El) :
           /\ Replayed(t, ms).children = (p \o z) \o (Latter(els, L) \o q)
           /\ \A x : Contains(z, x) => \E i \in 1..(Len(els) - L) : els[i] = x
    BY <1>9 DEF Placing
  <1>11. z = <<>>
    <2>1. Len(els) - L = 0
      BY <1>2 DEF L
    <2>2. \A x : ~Contains(z, x)
      BY <1>10, <2>1
    <2> QED
      BY <2>2, NoneIsEmpty
  <1>12. p \o z = p /\ Latter(els, L) = els
    BY <1>11, ConcatEmptySeq, LatterFacts DEF L
  <1>13. Associates(p, els, q)
    BY ConcatTwice
  <1> QED
    BY <1>10, <1>12, <1>13 DEF Associates, Between, ms
-----------------------------------------------------------------------------
(* The blocks' mutations rebuild their slot. *)

\* The children of the drained tree are the slots' elements, which exist.
ChildrenInv ==
  /\ Drained.children = FlattenSeq(slots)
  /\ \A x : Contains(Drained.children, x) => Exists(Drained, x)

LEMMA ChildrenOfSlots ==
  ASSUME TypeInv, ChildrenInv
  PROVE  \A x : Contains(Drained.children, x) <=> \E s \in Slot : Contains(slots[s], x)
  <1>1. slots \in Seq(Seq(El)) /\ Slot = 1..Len(slots)
    BY TypeInvParts DEF Slot
  <1> QED
    BY <1>1, FlattenEntries DEF ChildrenInv

LEMMA NewIsNoChild ==
  ASSUME TypeInv, RowsInv, SlotsInv, ChildrenInv
  PROVE  ~Contains(Drained.children, nextId)
  <1>1. ASSUME NEW s \in Slot, Contains(slots[s], nextId) PROVE FALSE
    <2>1. PICK i \in 1..Len(slots[s]) : slots[s][i] = nextId
      BY <1>1 DEF Contains
    <2>2. nextId < nextId /\ nextId \in Nat
      BY <2>1, SlotNumbers, TypeInvParts
    <2> QED
      BY <2>2
  <1> QED
    BY <1>1, ChildrenOfSlots

\* The parts of the children around a slot.
LEMMA SlotParts ==
  ASSUME TypeInv, ViewInv, ChildrenInv, NEW s \in Slot
  PROVE  /\ Before(slots, s) \in Seq(El) /\ Later(slots, s) \in Seq(El) /\ slots[s] \in Seq(El)
         /\ Drained.children = (Before(slots, s) \o slots[s]) \o Later(slots, s)
         /\ Apart(Before(slots, s), slots[s], Later(slots, s))
         /\ \A x : Contains(Drained.children, x) <=>
              \/ Contains(Before(slots, s), x) \/ Contains(slots[s], x)
              \/ Contains(Later(slots, s), x)
  <1> DEFINE p == Before(slots, s)
             k == slots[s]
             q == Later(slots, s)
  <1>1. p \in Seq(El) /\ q \in Seq(El) /\ k \in Seq(El) /\ FlattenSeq(slots) = (p \o k) \o q
    <2>1. <<>> \in Seq(El)
      OBVIOUS
    <2> QED
      BY <2>1, SlotReplaced
  <1> HIDE DEF p, k, q
  <1>2. Drained.children = (p \o k) \o q /\ IsInjective(Drained.children)
    BY <1>1 DEF ChildrenInv, ViewInv
  <1>3. \A x : Contains((p \o k) \o q, x) <=> Contains(p, x) \/ Contains(k, x) \/ Contains(q, x)
    BY <1>1, ThreeParts
  <1>4. IsInjective((p \o k) \o q) <=> Apart(p, k, q)
    BY <1>1, ThreeParts
  <1> QED
    BY <1>1, <1>2, <1>3, <1>4 DEF p, k, q

FirstExists(t, q) == FirstOf(q) \in El \cup {NoEl} /\ (FirstOf(q) = NoEl \/ Exists(t, FirstOf(q)))

LEMMA FirstIsThere ==
  ASSUME NEW q \in Seq(El), NEW t, \A x : Contains(q, x) => Exists(t, x)
  PROVE  FirstExists(t, q)
  <1>1. CASE q = <<>>
    BY <1>1 DEF FirstOf, FirstExists
  <1>2. CASE q # <<>>
    <2>1. FirstOf(q) = q[1] /\ 1 \in 1..Len(q)
      BY <1>2 DEF FirstOf
    <2>2. Contains(q, FirstOf(q)) /\ FirstOf(q) \in El
      BY <2>1, ElementOfSeq DEF Contains
    <2> QED
      BY <2>2 DEF FirstExists
  <1> QED
    BY <1>1, <1>2

LEMMA MountPlaces ==
  ASSUME TypeInv, RowsInv, ViewInv, SlotsInv, ChildrenInv, tree' = tree,
         NEW s \in Slot, slots[s] = <<>>,
         MountIf(s) \/ (MountElement(s) /\ Later(slots, s) = <<>>)
  PROVE  /\ Drained'.children = FlattenSeq(slots')
         /\ \A e, x : e # nextId /\ Has(Drained, e, x) => Has(Drained', e, x)
         /\ template[s] = "if" => Has(Drained', nextId, Body)
         /\ template[s] = "element" => Has(Drained', nextId, Static)
  <1> DEFINE p == Before(slots, s)
             q == Later(slots, s)
             text == IF template[s] = "if" THEN Body ELSE Static
             before == FirstOf(q)
             a == Create(nextId, text)
             b == Attach(nextId, before)
             d == Drained
             u == ApplyMutation(d, a)
             v == ApplyMutation(u, b)
  <1>1. /\ nextId \in El /\ slots' = [slots EXCEPT ![s] = <<nextId>>]
        /\ log' = log \o <<a, b>>
        /\ text = IF template[s] = "if" THEN Body ELSE Static
        /\ template[s] \in {"if", "element"}
    <2>1. CASE MountIf(s)
      <3>1. AnchorAfter(slots, s) = before
        BY AnchorIsFirst
      <3> HIDE DEF before
      <3> QED
        BY <2>1, <3>1 DEF MountIf
    <2>2. CASE MountElement(s) /\ q = <<>>
      <3>1. before = NoEl
        BY <2>2 DEF FirstOf
      <3> HIDE DEF before
      <3> QED
        BY <2>2, <3>1 DEF MountElement
    <2> QED
      BY <2>1, <2>2
  <1>2. p \in Seq(El) /\ q \in Seq(El) /\ <<nextId>> \in Seq(El)
    BY <1>1, SlotParts
  <1>3. FlattenSeq(slots') = (p \o <<nextId>>) \o q
    BY <1>1, <1>2, SlotReplaced
  <1>4. d.children = p \o q
    <2>1. d.children = (p \o <<>>) \o q
      BY SlotParts
    <2> QED
      BY <1>2, <2>1, ConcatEmptySeq
  <1>5. d \in Tree /\ IsInjective(d.children) /\ d.children \in Seq(El)
    BY DrainedType DEF ViewInv, Tree
  <1>6. ~Contains(d.children, nextId) /\ \A x : Contains(d.children, x) => Exists(d, x)
    BY NewIsNoChild DEF ChildrenInv
  <1>7. FirstExists(d, q)
    <2>1. \A x : Contains(q, x) => Contains(d.children, x)
      BY SlotParts
    <2> HIDE DEF q, d
    <2> QED
      BY <1>2, <1>6, <2>1, FirstIsThere
  <1>8. text \in Texts
    BY TextTypes
  <1>9. /\ a \in Mutation /\ a.op = "create" /\ a.el = nextId /\ a.text = text
        /\ b \in Mutation /\ b.op = "attach" /\ b.el = nextId /\ b.before = before
    <2>1. before \in El \cup {NoEl}
      BY <1>7 DEF FirstExists
    <2> HIDE DEF before, text
    <2> QED
      BY <1>1, <1>8, <2>1, MutationTypes DEF Create, Attach
  <1> HIDE DEF a, b, p, q, d, before, text
  <1>10. u \in Tree /\ v \in Tree
    BY <1>5, <1>9, AppliedTree
  <1>11. Drained' = v
    <2>1. <<a, b>> \in Seq(Mutation)
      BY <1>9
    <2>2. Drained' = Replayed(d, <<a, b>>)
      BY <1>1, <2>1, LogGrows DEF d
    <2> QED
      BY <1>5, <1>9, <2>2, PairReplayed
  <1>12. u.children = d.children /\ Retexted(d, u, nextId, text)
    BY <1>5, <1>9, AppliedChildren, AppliedTexts
  <1>13. v = Placed(u, nextId, before)
    <2>1. Exists(u, nextId)
      BY <1>12 DEF Retexted, Exists
    <2>2. before = NoEl \/ Exists(u, before)
      BY <1>7, <1>12 DEF Retexted, Exists, FirstExists, before
    <2> HIDE DEF u
    <2> QED
      BY <1>9, <1>10, <2>1, <2>2, AppliedChildren
  <1>14. v.children = (p \o <<nextId>>) \o q
    <2>1. Detach(u.children, nextId) = p \o q
      BY <1>4, <1>5, <1>6, <1>12, DetachAbsent
    <2>2. IsInjective(p \o q)
      BY <1>4, <1>5
    <2> HIDE DEF u, v
    <2>3. Placed(u, nextId, FirstOf(q)).children = (p \o <<nextId>>) \o q
      BY <1>1, <1>2, <1>10, <2>1, <2>2, PlacedBetween
    <2> QED
      BY <1>13, <2>3 DEF before
  <1>15. ASSUME NEW e, NEW x, e # nextId, Has(d, e, x) PROVE Has(v, e, x)
    <2>1. Has(u, e, x)
      BY <1>5, <1>9, <1>15, HasKept
    <2> HIDE DEF u
    <2> QED
      BY <1>9, <1>10, <1>15, <2>1, HasKept
  <1>16. Has(v, nextId, text)
    <2>1. Has(u, nextId, text)
      BY <1>12 DEF Retexted, Has
    <2> HIDE DEF u
    <2> QED
      BY <1>9, <1>10, <2>1, HasKept
  <1> HIDE DEF v
  <1> QED
    BY <1>1, <1>3, <1>11, <1>14, <1>15, <1>16 DEF d

LEMMA UnmountPlaces ==
  ASSUME TypeInv, RowsInv, ViewInv, SlotsInv, ChildrenInv, tree' = tree,
         NEW s \in Slot, UnmountIf(s)
  PROVE  /\ Drained'.children = FlattenSeq(slots')
         /\ \A e, x : ~Contains(slots[s], e) /\ Has(Drained, e, x) => Has(Drained', e, x)
  <1> DEFINE p == Before(slots, s)
             q == Later(slots, s)
             el == rows[s][1].el
             a == Delete(el)
             d == Drained
             v == ApplyMutation(d, a)
  <1>1. /\ log' = Append(log, a) /\ slots' = [slots EXCEPT ![s] = <<>>]
        /\ template[s] = "if" /\ rows[s] # <<>> /\ rows[s] \in Seq(Row)
    BY TypeInvParts DEF UnmountIf
  <1>2. slots[s] = <<el>> /\ el \in El
    <2>1. Len(rows[s]) = 1
      <3>1. Len(rows[s]) <= 1
        BY <1>1 DEF RowsInv
      <3>2. Len(rows[s]) \in Nat /\ Len(rows[s]) # 0
        BY <1>1
      <3> QED
        BY <3>1, <3>2, OnlyOne
    <2>2. slots[s] = Els(rows[s])
      BY <1>1 DEF SlotsInv
    <2>3. slots[s] \in Seq(El) /\ Len(slots[s]) = 1 /\ slots[s][1] = el
      BY <1>1, <2>1, <2>2, ElsFacts
    <2> DEFINE k == slots[s]
    <2> HIDE DEF k, el
    <2>4. k = <<el>> /\ el \in El
      BY <2>3, ElementOfSeq DEF k
    <2> QED
      BY <2>4 DEF k, el
  <1>3. /\ p \in Seq(El) /\ q \in Seq(El) /\ d.children = (p \o <<el>>) \o q
        /\ Apart(p, <<el>>, q)
    BY <1>2, SlotParts
  <1>4. FlattenSeq(slots') = (p \o <<>>) \o q
    <2>1. <<>> \in Seq(El)
      OBVIOUS
    <2> QED
      BY <1>1, <2>1, SlotReplaced
  <1>5. a \in Mutation /\ a.op = "remove" /\ a.el = el
    BY <1>2, MutationTypes DEF Delete
  <1>6. d \in Tree
    BY DrainedType
  <1>7. Contains(<<el>>, el) /\ <<el>> \in Seq(El)
    <2> DEFINE k == <<el>>
    <2>1. Len(k) = 1 /\ k[1] = el /\ k \in Seq(El)
      BY <1>2
    <2> HIDE DEF k, el
    <2> QED
      BY <2>1 DEF Contains, k
  <1>8. Exists(d, el)
    <2>1. Contains(d.children, el)
      BY <1>2, <1>7, SlotParts
    <2> QED
      BY <2>1 DEF ChildrenInv
  <1>9. Drained' = v
    <2>1. log' = log \o <<a>> /\ <<a>> \in Seq(Mutation)
      <3>1. log \in Seq(Mutation)
        BY TypeInvParts
      <3> HIDE DEF a
      <3> QED
        BY <1>1, <1>5, <3>1
    <2>2. Drained' = Replayed(d, <<a>>)
      BY <2>1, LogGrows
    <2> HIDE DEF a, d
    <2> QED
      BY <1>5, <1>6, <2>2, OneReplayed
  <1>a. Contains(slots[s], el)
    BY <1>2, <1>7
  <1> HIDE DEF a, d, p, q, el
  <1>10. v.children = (p \o <<>>) \o q
    <2>1. v.children = Detach(d.children, el)
      BY <1>5, <1>6, <1>8, AppliedChildren
    <2> DEFINE k == <<el>>
    <2>2. k \in Seq(El) /\ Contains(k, el) /\ Detach(k, el) = <<>>
      BY <1>2, <1>7, DetachOne
    <2> HIDE DEF k
    <2>3. DetachesInParts(p, k, q, el)
      BY <1>3, <2>2, ThreeParts
    <2>4. ~Contains(p, el) /\ ~Contains(q, el)
      BY <1>3, <2>2 DEF Apart, k
    <2>5. Detach(p, el) = p /\ Detach(q, el) = q
      BY <1>3, <2>4, DetachAbsent
    <2> HIDE DEF v
    <2> QED
      BY <1>3, <2>1, <2>2, <2>3, <2>5 DEF DetachesInParts, k
  <1>11. ASSUME NEW e, NEW x, e # el, Has(d, e, x) PROVE Has(v, e, x)
    BY <1>5, <1>6, <1>11, HasKept
  <1> HIDE DEF v
  <1>12. ASSUME NEW e, NEW x, ~Contains(slots[s], e), Has(d, e, x) PROVE Has(v, e, x)
    <2>1. e # el
      BY <1>a, <1>12
    <2> QED
      BY <1>11, <1>12, <2>1
  <1> QED
    BY <1>4, <1>9, <1>10, <1>12 DEF d
-----------------------------------------------------------------------------
(* The rows of an :each and the elements they get. *)

\* No key is repeated, or there was nothing to find.
Tidy(s) == rows[s] = <<>> \/ (Distinct(rows[s]) /\ Distinct(source[s]))

LEMMA RowElements ==
  ASSUME TypeInv, RowsInv, ViewInv, SlotsInv, ChildrenInv, NEW s \in Slot, template[s] = "each"
  PROVE  /\ rows[s] \in Seq(Row) /\ Len(slots[s]) = Len(rows[s])
         /\ \A i \in 1..Len(rows[s]) :
              /\ slots[s][i] = rows[s][i].el /\ rows[s][i].el < nextId
              /\ Contains(slots[s], rows[s][i].el)
         /\ \A i, j \in 1..Len(rows[s]) : rows[s][i].el = rows[s][j].el => i = j
  <1>1. rows[s] \in Seq(Row) /\ slots[s] = Els(rows[s])
    BY TypeInvParts DEF SlotsInv
  <1>2. Len(slots[s]) = Len(rows[s]) /\ \A i \in 1..Len(rows[s]) : slots[s][i] = rows[s][i].el
    BY <1>1, ElsFacts
  <1>3. DOMAIN slots[s] = 1..Len(rows[s])
    BY <1>1, <1>2, ElsFacts
  <1>4. IsInjective(slots[s])
    BY SlotParts DEF Apart
  <1>5. \A i, j \in 1..Len(rows[s]) : slots[s][i] = slots[s][j] => i = j
    BY <1>3, <1>4 DEF IsInjective
  <1>6. \A i \in 1..Len(rows[s]) : Contains(slots[s], rows[s][i].el)
    BY <1>2 DEF Contains
  <1>7. \A i \in 1..Len(rows[s]) : rows[s][i].el < nextId
    BY DEF RowsInv
  <1> QED
    BY <1>1, <1>2, <1>5, <1>6, <1>7

\* Where the row of an item comes from.
FromOld(s, i, o) ==
  /\ o \in 1..Len(rows[s]) /\ o \in Taken(rows[s], source[s])
  /\ o = OldIndex(rows[s], source[s][i].key) /\ Next1(s)[i] = rows[s][o]
  /\ rows[s][o].key = source[s][i].key

Fresh(s, i) ==
  /\ OldIndex(rows[s], source[s][i].key) = 0
  /\ Next1(s)[i].el = nextId - 1 + Cardinality(NewUpTo(rows[s], source[s], i))
  /\ Next1(s)[i].el >= nextId

LEMMA NextFrom ==
  ASSUME TypeInv, NEW s \in Slot, ReconcileEach(s), NEW i \in 1..Len(source[s])
  PROVE  Fresh(s, i) \/ \E o : FromOld(s, i, o)
  <1> DEFINE old == rows[s]
             items == source[s]
             o == OldIndex(old, items[i].key)
  <1>1. /\ items \in Seq(Item) /\ old \in Seq(Row) /\ nextId \in Nat \ {0}
        /\ Next1(s) = NextRows(old, items)
    BY Reconciled, TypeInvParts DEF Next1
  <1>2. i \in 1..Len(items)
    OBVIOUS
  <1> HIDE DEF old, items
  <1>3. /\ o # 0 => NextRows(old, items)[i] = old[o]
        /\ o = 0 => /\ NextRows(old, items)[i].el =
                          nextId - 1 + Cardinality(NewUpTo(old, items, i))
                    /\ NextRows(old, items)[i].el >= nextId
    BY <1>1, <1>2, NextRowsFacts
  <1>4. o # 0 => o \in 1..Len(old) /\ old[o].key = items[i].key
    BY <1>1, OldIndexFacts
  <1>5. o \in Taken(old, items)
    BY <1>2 DEF Taken
  <1>6. CASE o = 0
    BY <1>1, <1>3, <1>6 DEF Fresh, old, items
  <1>7. CASE o # 0
    BY <1>1, <1>3, <1>4, <1>5, <1>7 DEF FromOld, old, items
  <1> QED
    BY <1>6, <1>7

\* No two items get the same element.
LEMMA NextApart ==
  ASSUME TypeInv, RowsInv, ViewInv, SlotsInv, ChildrenInv, NEW s \in Slot, ReconcileEach(s), Tidy(s),
         NEW i \in 1..Len(source[s]), NEW j \in 1..Len(source[s]),
         Next1(s)[i].el = Next1(s)[j].el
  PROVE  i = j
  <1> DEFINE N(k) == Cardinality(NewUpTo(rows[s], source[s], k))
  <1>1. /\ source[s] \in Seq(Item) /\ rows[s] \in Seq(Row) /\ nextId \in Nat \ {0}
        /\ template[s] = "each" /\ Len(source[s]) \in Nat
    <2>1. template[s] = "each" /\ source[s] \in Seq(Item) /\ rows[s] \in Seq(Row)
      BY Reconciled
    <2>2. nextId \in Nat \ {0}
      BY TypeInvParts
    <2> HIDE DEF N
    <2>3. Len(source[s]) \in Nat
      BY <2>1
    <2> QED
      BY <2>1, <2>2, <2>3
  <1>2. /\ \A k \in 1..Len(rows[s]) : rows[s][k].el < nextId
        /\ \A k, l \in 1..Len(rows[s]) : rows[s][k].el = rows[s][l].el => k = l
    BY <1>1, RowElements
  <1>3. \A k \in 1..Len(rows[s]) : rows[s][k].el \in Nat
    <2>1. \A k \in 1..Len(rows[s]) : rows[s][k] \in Row
      BY <1>1, ElementOfSeq
    <2> QED
      BY <2>1 DEF Row, El
  <1>4. Fresh(s, i) \/ \E o : FromOld(s, i, o)
    BY NextFrom
  <1>5. Fresh(s, j) \/ \E o : FromOld(s, j, o)
    BY NextFrom
  <1>6. \A k : Fresh(s, k) => Next1(s)[k].el >= nextId /\ Next1(s)[k].el = nextId - 1 + N(k)
    BY DEF Fresh
  <1>7. \A k, o : FromOld(s, k, o) => Next1(s)[k].el \in Nat /\ Next1(s)[k].el < nextId
    BY <1>2, <1>3 DEF FromOld
  <1>8. CASE \E o : FromOld(s, i, o)
    <2>1. PICK o : FromOld(s, i, o)
      BY <1>8
    <2>2. ~Fresh(s, j)
      <3>1. Next1(s)[i].el \in Nat /\ Next1(s)[i].el < nextId
        BY <1>7, <2>1
      <3>2. Fresh(s, j) => Next1(s)[j].el >= nextId
        BY <1>6
      <3> QED
        BY <1>1, <3>1, <3>2
    <2>3. PICK o2 : FromOld(s, j, o2)
      BY <1>5, <2>2
    <2>4. o = o2
      BY <1>2, <2>1, <2>3 DEF FromOld
    <2>5. source[s][i].key = source[s][j].key
      BY <2>1, <2>3, <2>4 DEF FromOld
    <2>6. Distinct(source[s])
      <3>1. rows[s] # <<>>
        <4>1. Len(<<>>) = 0
          OBVIOUS
        <4> QED
          BY <2>1, <4>1 DEF FromOld
      <3> QED
        BY <3>1 DEF Tidy
    <2> QED
      BY <2>5, <2>6 DEF Distinct
  <1>9. CASE Fresh(s, i)
    <2>1. Fresh(s, j)
      <3>1. ASSUME NEW o, FromOld(s, j, o) PROVE FALSE
        <4>1. Next1(s)[j].el \in Nat /\ Next1(s)[j].el < nextId
          BY <1>7, <3>1
        <4>2. Next1(s)[i].el >= nextId
          BY <1>6, <1>9
        <4> QED
          BY <1>1, <4>1, <4>2
      <3> QED
        BY <1>5, <3>1
    <2>2. /\ i \in 0..Len(source[s]) /\ j \in 0..Len(source[s])
          /\ i - 1 \in 0..Len(source[s]) /\ j - 1 \in 0..Len(source[s])
      BY <1>1
    <2>3. /\ \A k \in 0..Len(source[s]) : N(k) \in Nat
          /\ \A k \in 1..Len(source[s]) :
               N(k) = N(k - 1) + (IF OldIndex(rows[s], source[s][k].key) = 0 THEN 1 ELSE 0)
          /\ \A k, l \in 0..Len(source[s]) : k <= l => N(k) <= N(l)
      BY <1>1, NewUpToFacts
    <2>4. Next1(s)[i].el = nextId - 1 + N(i) /\ Next1(s)[j].el = nextId - 1 + N(j)
      BY <1>6, <1>9, <2>1
    <2>5. OldIndex(rows[s], source[s][i].key) = 0 /\ OldIndex(rows[s], source[s][j].key) = 0
      BY <1>9, <2>1 DEF Fresh
    <2> HIDE DEF N
    <2>a. N(i) \in Nat /\ N(j) \in Nat /\ N(i - 1) \in Nat /\ N(j - 1) \in Nat
      BY <2>2, <2>3
    <2>b. \A x, y, z \in Nat : z - 1 + x = z - 1 + y => x = y
      OBVIOUS
    <2>c. nextId - 1 + N(i) = nextId - 1 + N(j)
      BY <2>4
    <2>6. N(i) = N(j)
      BY <1>1, <2>a, <2>b, <2>c
    <2>7. N(i) = N(i - 1) + 1 /\ N(j) = N(j - 1) + 1
      BY <2>3, <2>5
    <2>8. (i <= j - 1 => N(i) <= N(j - 1)) /\ (j <= i - 1 => N(j) <= N(i - 1))
      BY <2>2, <2>3
    <2>d. \A x \in Nat : ~(x + 1 <= x)
      OBVIOUS
    <2>9. ~(i <= j - 1)
      BY <2>6, <2>7, <2>8, <2>a, <2>d
    <2>10. ~(j <= i - 1)
      BY <2>6, <2>7, <2>8, <2>a, <2>d
    <2> QED
      BY <1>1, <2>9, <2>10
  <1> QED
    BY <1>4, <1>8, <1>9

LEMMA NextBetween ==
  ASSUME TypeInv, RowsInv, ViewInv, SlotsInv, ChildrenInv, NEW s \in Slot, ReconcileEach(s), Tidy(s)
  PROVE  Apart(Before(slots, s), Els(Next1(s)), Later(slots, s))
  <1> DEFINE p == Before(slots, s)
             q == Later(slots, s)
             els == Els(Next1(s))
             n == Len(source[s])
  <1>1. /\ template[s] = "each" /\ Next1(s) \in Seq(Row) /\ Len(Next1(s)) = n
    BY Reconciled
  <1>2. els \in Seq(El) /\ Len(els) = n /\ \A i \in 1..n : els[i] = Next1(s)[i].el
    BY <1>1, ElsFacts
  <1>3. Apart(p, slots[s], q) /\ \A x : Contains(p, x) \/ Contains(q, x) => Contains(Drained.children, x)
    BY SlotParts
  <1>4. \A x : Contains(Drained.children, x) => x \in Nat /\ x < nextId
    <2>1. ASSUME NEW x, Contains(Drained.children, x) PROVE x \in Nat /\ x < nextId
      <3>1. PICK r \in Slot : Contains(slots[r], x)
        BY <2>1, ChildrenOfSlots
      <3>2. PICK i \in 1..Len(slots[r]) : slots[r][i] = x
        BY <3>1 DEF Contains
      <3>3. x \in El /\ x < nextId
        BY <3>2, SlotNumbers
      <3> QED
        BY <3>3 DEF El
    <2> QED
      BY <2>1
  <1>5. ASSUME NEW x, Contains(els, x) PROVE Contains(slots[s], x) \/ x >= nextId
    <2>1. PICK i \in 1..Len(els) : els[i] = x
      BY <1>5 DEF Contains
    <2>2. i \in 1..n /\ Next1(s)[i].el = x
      BY <1>2, <2>1
    <2>3. Fresh(s, i) \/ \E o : FromOld(s, i, o)
      BY <2>2, NextFrom
    <2>4. CASE Fresh(s, i)
      BY <2>2, <2>4 DEF Fresh
    <2>5. CASE \E o : FromOld(s, i, o)
      <3>1. PICK o \in 1..Len(rows[s]) : x = rows[s][o].el
        BY <2>2, <2>5 DEF FromOld
      <3> QED
        BY <1>1, <3>1, RowElements
    <2> QED
      BY <2>3, <2>4, <2>5
  <1>6. IsInjective(els)
    <2>1. DOMAIN els = 1..n
      BY <1>2
    <2>2. \A i, j \in 1..n : Next1(s)[i].el = Next1(s)[j].el => i = j
      BY NextApart
    <2> HIDE DEF els
    <2> QED
      BY <1>2, <2>1, <2>2 DEF IsInjective
  <1>7. nextId \in Nat
    BY TypeInvParts
  <1> HIDE DEF p, q, els
  <1>8. ASSUME NEW x, Contains(p, x) \/ Contains(q, x), Contains(els, x) PROVE FALSE
    <2>1. x \in Nat /\ x < nextId
      BY <1>3, <1>4, <1>8
    <2>2. Contains(slots[s], x)
      BY <1>5, <1>7, <1>8, <2>1
    <2> QED
      BY <1>3, <1>8, <2>2 DEF Apart
  <1>9. Apart(p, els, q)
    BY <1>3, <1>6, <1>8 DEF Apart
  <1> QED
    BY <1>9 DEF p, q, els
-----------------------------------------------------------------------------
(* What a run of an :each shows. *)

EachShown(s) ==
  \A i \in 1..Len(rows[s]) :
    rows[s][i].el \in live /\ Has(Drained, rows[s][i].el, item[rows[s][i].el])

\* The tree after the patches, and after the removals too.
Patched(s) == Replayed(Drained, Patches(Next1(s), source[s]))
Thinned(s) == Replayed(Patched(s), Removals(rows[s], Left(s)))

LEMMA ReconcileDrained ==
  ASSUME TypeInv, tree' = tree, NEW s \in Slot, ReconcileEach(s)
  PROVE  /\ Patched(s) \in Tree /\ Thinned(s) \in Tree
         /\ Drained' = Replayed(Thinned(s), MovesThen(s))
  <1> DEFINE a == Patches(Next1(s), source[s])
             b == Removals(rows[s], Left(s))
             c == MovesThen(s)
  <1>1. /\ a \in Seq(Mutation) /\ b \in Seq(Mutation) /\ c \in Seq(Mutation)
        /\ log' = ((log \o a) \o b) \o c /\ log \in Seq(Mutation) /\ tree \in Tree
    BY Reconciled, TypeInvParts
  <1>2. Drained \in Tree
    BY DrainedType
  <1> HIDE DEF a, b, c
  <1>3. Replayed(Drained, a) \in Tree
    BY <1>1, <1>2, ReplayedTree
  <1>4. Replayed(Replayed(Drained, a), b) \in Tree
    BY <1>1, <1>3, ReplayedTree
  <1>5. log \o a \in Seq(Mutation)
    BY <1>1, ConcatProperties
  <1>6. (log \o a) \o b \in Seq(Mutation)
    BY <1>1, <1>5, ConcatProperties
  <1>7. Drained' = Replayed(tree, ((log \o a) \o b) \o c)
    BY <1>1 DEF Drained
  <1>8. Replayed(tree, ((log \o a) \o b) \o c) = Replayed(Replayed(tree, (log \o a) \o b), c)
    BY <1>1, <1>6, ReplayedTwice
  <1>9. Replayed(tree, (log \o a) \o b) = Replayed(Replayed(tree, log \o a), b)
    BY <1>1, <1>5, ReplayedTwice
  <1>10. Replayed(tree, log \o a) = Replayed(Drained, a)
    BY <1>1, ReplayedTwice DEF Drained
  <1> QED
    BY <1>3, <1>4, <1>7, <1>8, <1>9, <1>10 DEF Patched, Thinned, a, b, c

\* Each patch sets the element of one item to that item.
PatchesItem(s, i, m) ==
  /\ m.op \in {"create", "text"} /\ m.el = Next1(s)[i].el /\ m.text = source[s][i]

LEMMA PatchesOfItems ==
  ASSUME TypeInv, NEW s \in Slot, ReconcileEach(s),
         NEW ms, ms = Patches(Next1(s), source[s])
  PROVE  /\ ms \in Seq(Mutation)
         /\ \A k \in 1..Len(ms) : \E i \in 1..Len(source[s]) : PatchesItem(s, i, ms[k])
         /\ \A i \in 1..Len(source[s]) : \A m : PatchOf(Next1(s), source[s], i) = <<m>> =>
              \E k \in 1..Len(ms) : ms[k] = m
  <1> DEFINE next == Next1(s)
             items == source[s]
  <1>1. /\ items \in Seq(Item) /\ Len(next) = Len(items) /\ ms \in Seq(Mutation)
        /\ \A i \in 1..Len(items) : next[i].el \in El
    BY Reconciled
  <1> HIDE DEF next, items
  <1>2. \A m : Contains(ms, m) <=> \E i \in 1..Len(items) : PatchOf(next, items, i) = <<m>>
    BY <1>1, PatchEntries DEF next, items
  <1>3. ASSUME NEW k \in 1..Len(ms) PROVE \E i \in 1..Len(items) : PatchesItem(s, i, ms[k])
    <2>1. Contains(ms, ms[k])
      BY DEF Contains
    <2>2. PICK i \in 1..Len(items) : PatchOf(next, items, i) = <<ms[k]>>
      BY <1>2, <2>1
    <2>3. (\A x, y : <<x>> = <<y>> => x = y) /\ \A x : <<x>> # <<>>
      OBVIOUS
    <2>4. ms[k] = Create(next[i].el, items[i]) \/ ms[k] = SetText(next[i].el, items[i])
      BY <2>2, <2>3 DEF PatchOf
    <2>5. PatchesItem(s, i, ms[k])
      BY <2>4 DEF PatchesItem, Create, SetText, next, items
    <2> QED
      BY <2>5
  <1>4. ASSUME NEW i \in 1..Len(items), NEW m, PatchOf(next, items, i) = <<m>>
        PROVE  \E k \in 1..Len(ms) : ms[k] = m
    <2>1. Contains(ms, m)
      BY <1>2, <1>4
    <2> QED
      BY <2>1 DEF Contains
  <1> QED
    BY <1>1, <1>3, <1>4 DEF next, items

LEMMA PatchesText ==
  ASSUME TypeInv, RowsInv, ViewInv, SlotsInv, ChildrenInv, NEW s \in Slot, ReconcileEach(s), Tidy(s),
         EachShown(s)
  PROVE  /\ \A i \in 1..Len(source[s]) : Has(Patched(s), Next1(s)[i].el, source[s][i])
         /\ \A e, x : (\A i \in 1..Len(source[s]) : Next1(s)[i].el # e) /\ Has(Drained, e, x) =>
              Has(Patched(s), e, x)
  <1> DEFINE ms == Patches(Next1(s), source[s])
             n == Len(source[s])
  <1>1. /\ ms \in Seq(Mutation)
        /\ \A k \in 1..Len(ms) : \E i \in 1..n : PatchesItem(s, i, ms[k])
        /\ \A i \in 1..n : \A m : PatchOf(Next1(s), source[s], i) = <<m>> =>
              \E k \in 1..Len(ms) : ms[k] = m
    BY PatchesOfItems
  <1>2. \A i, j \in 1..n : Next1(s)[i].el = Next1(s)[j].el => i = j
    BY NextApart
  <1>3. Drained \in Tree /\ Patched(s) = Replayed(Drained, ms)
    BY DrainedType DEF Patched
  <1> HIDE DEF ms, n
  <1>4. ASSUME NEW i \in 1..n PROVE Has(Patched(s), Next1(s)[i].el, source[s][i])
    <2> DEFINE e == Next1(s)[i].el
               x == source[s][i]
    <2>1. \A k \in 1..Len(ms) : ms[k].el = e => ms[k].op \in {"create", "text"} /\ ms[k].text = x
      BY <1>1, <1>2 DEF PatchesItem
    <2>2. Fresh(s, i) \/ \E o : FromOld(s, i, o)
      BY NextFrom DEF n
    <2>3. CASE Fresh(s, i)
      <3>1. PatchOf(Next1(s), source[s], i) = <<Create(e, x)>>
        BY <2>3 DEF Fresh, PatchOf
      <3>2. PICK j \in 1..Len(ms) : ms[j] = Create(e, x)
        BY <1>1, <3>1
      <3>3. ms[j].el = e /\ ms[j].op = "create"
        BY <3>2 DEF Create
      <3> HIDE DEF e, x
      <3>4. Has(Replayed(Drained, ms), e, x)
        BY <1>1, <1>3, <2>1, <3>3, HasReached
      <3> QED
        BY <1>3, <3>4 DEF e, x
    <2>4. CASE \E o : FromOld(s, i, o)
      <3>1. PICK o \in 1..Len(rows[s]) : Next1(s)[i] = rows[s][o]
        BY <2>4 DEF FromOld
      <3>2. e \in live /\ Has(Drained, e, item[e])
        BY <3>1 DEF EachShown
      <3>3. ~(e >= nextId)
        <4>1. rows[s][o] \in Row /\ nextId \in Nat
          <5>1. rows[s] \in Seq(Row) /\ nextId \in Nat
            BY TypeInvParts
          <5> QED
            BY <5>1, ElementOfSeq
        <4>2. e \in Nat /\ e < nextId
          BY <3>1, <4>1 DEF Row, El, RowsInv
        <4> HIDE DEF e
        <4> QED
          BY <4>1, <4>2
      <3>4. ItemAt(Next1(s), source[s], i) = item[e]
        <4>1. \A j \in 1..i - 1 : j \in 1..n /\ j # i
          <5>1. n \in Nat
            BY Reconciled DEF n
          <5> QED
            BY <5>1
        <4>2. {j \in 1..i - 1 : Next1(s)[j].el = Next1(s)[i].el} = {}
          BY <1>2, <4>1
        <4> QED
          BY <4>2 DEF ItemAt
      <3>5. CASE item[e] # x
        <4>1. PatchOf(Next1(s), source[s], i) = <<SetText(e, x)>>
          BY <3>2, <3>3, <3>4, <3>5 DEF PatchOf
        <4>2. PICK j \in 1..Len(ms) : ms[j] = SetText(e, x)
          BY <1>1, <4>1
        <4>3. ms[j].el = e /\ e \in DOMAIN Drained.text
          BY <3>2, <4>2 DEF SetText, Has
        <4> HIDE DEF e, x
        <4>4. Has(Replayed(Drained, ms), e, x)
          BY <1>1, <1>3, <2>1, <4>3, HasReached
        <4> QED
          BY <1>3, <4>4 DEF e, x
      <3>6. CASE item[e] = x
        <4>1. Has(Drained, e, x)
          BY <3>2, <3>6
        <4> HIDE DEF e, x
        <4>2. Has(Replayed(Drained, ms), e, x)
          BY <1>1, <1>3, <2>1, <4>1, HasAfter
        <4> QED
          BY <1>3, <4>2 DEF e, x
      <3> QED
        BY <3>5, <3>6
    <2> QED
      BY <2>2, <2>3, <2>4
  <1>5. ASSUME NEW e, NEW x, \A i \in 1..n : Next1(s)[i].el # e, Has(Drained, e, x)
        PROVE  Has(Patched(s), e, x)
    <2>1. \A k \in 1..Len(ms) : ms[k].el # e
      BY <1>1, <1>5 DEF PatchesItem
    <2>2. Has(Replayed(Drained, ms), e, x)
      BY <1>1, <1>3, <1>5, <2>1, HasAfter
    <2> QED
      BY <1>3, <2>2
  <1> QED
    BY <1>4, <1>5 DEF n

LEMMA PatchesPlace ==
  ASSUME TypeInv, ChildrenInv, NEW s \in Slot, ReconcileEach(s)
  PROVE  /\ Patched(s).children = Drained.children
         /\ \A x : Contains(Drained.children, x) => Exists(Patched(s), x)
  <1> DEFINE ms == Patches(Next1(s), source[s])
             d == Drained
             G == {u \in Tree : u.children = d.children /\ DOMAIN d.text \subseteq DOMAIN u.text}
  <1>1. /\ ms \in Seq(Mutation)
        /\ \A k \in 1..Len(ms) : \E i \in 1..Len(source[s]) : PatchesItem(s, i, ms[k])
    BY PatchesOfItems
  <1>2. d \in Tree /\ Patched(s) = Replayed(d, ms)
    BY DrainedType DEF Patched
  <1>3. G \subseteq Tree /\ d \in G
    BY <1>2
  <1> HIDE DEF ms, d
  <1>4. ASSUME NEW k \in 1..Len(ms), NEW u \in G PROVE ApplyMutation(u, ms[k]) \in G
    <2> DEFINE m == ms[k]
               v == ApplyMutation(u, m)
    <2>1. m \in Mutation /\ m.op \in {"create", "text"} /\ u \in Tree
          /\ u.children = d.children /\ DOMAIN d.text \subseteq DOMAIN u.text
      BY <1>1, ElementOfSeq DEF PatchesItem
    <2> HIDE DEF m
    <2>2. v \in Tree /\ v.children = u.children
      BY <2>1, AppliedTree, AppliedChildren
    <2>3. Retexted(u, v, m.el, m.text) \/ v = u
      BY <2>1, AppliedTexts
    <2> HIDE DEF v
    <2>4. DOMAIN u.text \subseteq DOMAIN v.text
      BY <2>3 DEF Retexted
    <2> QED
      BY <2>1, <2>2, <2>4 DEF v, m
  <1> HIDE DEF G
  <1>5. Replayed(d, ms) \in G
    BY <1>1, <1>3, <1>4, ReplayKeeps
  <1> QED
    BY <1>2, <1>5 DEF G, d, ChildrenInv, Exists

\* What is taken over is not torn down.
LEMMA NextNotGone ==
  ASSUME TypeInv, RowsInv, ViewInv, SlotsInv, ChildrenInv, NEW s \in Slot, ReconcileEach(s),
         NEW i \in 1..Len(source[s]), NEW j \in Left(s)
  PROVE  Next1(s)[i].el # rows[s][j].el
  <1>1. template[s] = "each" /\ rows[s] \in Seq(Row) /\ nextId \in Nat
        /\ j \in 1..Len(rows[s])
    BY Reconciled, TypeInvParts
  <1>2. j \notin Taken(rows[s], source[s])
    BY DEF Left, LeftBehind
  <1>3. rows[s][j].el \in Nat /\ rows[s][j].el < nextId
    <2>1. rows[s][j] \in Row
      BY <1>1, ElementOfSeq
    <2> QED
      BY <1>1, <2>1 DEF Row, El, RowsInv
  <1>4. CASE Fresh(s, i)
    <2>1. Next1(s)[i].el >= nextId
      BY <1>4 DEF Fresh
    <2> QED
      BY <1>1, <1>3, <2>1
  <1>5. CASE \E o : FromOld(s, i, o)
    <2>1. PICK o : FromOld(s, i, o)
      BY <1>5
    <2>2. o \in 1..Len(rows[s]) /\ o # j /\ Next1(s)[i] = rows[s][o]
      BY <1>2, <2>1 DEF FromOld
    <2>3. \A k, l \in 1..Len(rows[s]) : rows[s][k].el = rows[s][l].el => k = l
      BY <1>1, RowElements
    <2> QED
      BY <1>1, <2>2, <2>3
  <1> QED
    BY <1>4, <1>5, NextFrom

RemovesRows(ms, old, left) ==
  /\ \A k \in 1..Len(ms) : ms[k].op = "remove" /\ \E j \in left : ms[k].el = old[j].el
  /\ \A j \in left : \E k \in 1..Len(ms) : ms[k].el = old[j].el

LEMMA RemovalsOfRows ==
  ASSUME NEW old \in Seq(Row), NEW left \in SUBSET (1..Len(old)),
         NEW ms, ms = Removals(old, left)
  PROVE  ms \in Seq(Mutation) /\ RemovesRows(ms, old, left)
  <1>1. ms \in Seq(Mutation) /\ \A m : Contains(ms, m) <=> \E i \in left : m = Delete(old[i].el)
    BY RemovalEntries
  <1>2. ASSUME NEW k \in 1..Len(ms)
        PROVE  ms[k].op = "remove" /\ \E j \in left : ms[k].el = old[j].el
    <2>1. Contains(ms, ms[k])
      BY DEF Contains
    <2> QED
      BY <1>1, <2>1 DEF Delete
  <1>3. ASSUME NEW j \in left PROVE \E k \in 1..Len(ms) : ms[k].el = old[j].el
    <2>1. Contains(ms, Delete(old[j].el))
      BY <1>1
    <2> QED
      BY <2>1 DEF Contains, Delete
  <1> QED
    BY <1>1, <1>2, <1>3 DEF RemovesRows

LEMMA RemovalsText ==
  ASSUME TypeInv, tree' = tree, NEW s \in Slot, ReconcileEach(s), NEW e, NEW x,
         Has(Patched(s), e, x), \A j \in Left(s) : rows[s][j].el # e
  PROVE  Has(Thinned(s), e, x)
  <1> DEFINE ms == Removals(rows[s], Left(s))
  <1>1. rows[s] \in Seq(Row) /\ Left(s) \in SUBSET (1..Len(rows[s])) /\ Patched(s) \in Tree
    BY Reconciled, ReconcileDrained
  <1>2. ms \in Seq(Mutation) /\ \A k \in 1..Len(ms) : \E j \in Left(s) : ms[k].el = rows[s][j].el
    <2> DEFINE old == rows[s]
               left == Left(s)
    <2>1. old \in Seq(Row) /\ left \in SUBSET (1..Len(old)) /\ ms = Removals(old, left)
      BY <1>1
    <2> HIDE DEF ms, old, left
    <2>2. ms \in Seq(Mutation) /\ RemovesRows(ms, old, left)
      BY <2>1, RemovalsOfRows
    <2> QED
      BY <2>2 DEF RemovesRows, old, left
  <1> HIDE DEF ms
  <1>3. \A k \in 1..Len(ms) : ms[k].el # e
    BY <1>2
  <1>4. Has(Replayed(Patched(s), ms), e, x)
    BY <1>1, <1>2, <1>3, HasAfter
  <1> QED
    BY <1>4 DEF Thinned, ms

LEMMA MovesText ==
  ASSUME TypeInv, tree' = tree, NEW s \in Slot, ReconcileEach(s), NEW e, NEW x,
         Has(Thinned(s), e, x)
  PROVE  Has(Drained', e, x)
  <1> DEFINE ms == MovesThen(s)
  <1>1. ms \in Seq(Mutation) /\ SlotsThen(s) \in Seq(Seq(El)) /\ Els(Next1(s)) \in Seq(El)
        /\ s \in 1..Len(SlotsThen(s))
    BY Reconciled, TypeInvParts DEF SlotsThen, Slot
  <1>2. \A k \in 1..Len(ms) : ms[k].op = "attach"
    <2>1. CASE ms = <<>>
      BY <2>1
    <2>2. CASE ms # <<>>
      <3>1. ms = Moves(Els(Next1(s)), AnchorAfter(SlotsThen(s), s))
        BY <2>2 DEF MovesThen
      <3>2. AnchorAfter(SlotsThen(s), s) \in El \cup {NoEl}
        BY <1>1, AnchorType
      <3> HIDE DEF ms
      <3>3. \A m : Contains(ms, m) => m.op = "attach"
        BY <1>1, <3>1, <3>2, MoveEntries
      <3> QED
        BY <3>3 DEF Contains
    <2> QED
      BY <2>1, <2>2
  <1> HIDE DEF ms
  <1>3. Thinned(s) \in Tree /\ Drained' = Replayed(Thinned(s), ms)
    BY ReconcileDrained DEF ms
  <1>4. Has(Replayed(Thinned(s), ms), e, x)
    BY <1>1, <1>2, <1>3, HasAfter
  <1> QED
    BY <1>3, <1>4
-----------------------------------------------------------------------------
(* Where a run of an :each leaves its elements. *)

\* With the keys as they were, every item finds its row where it was.
LEMMA SameRows ==
  ASSUME TypeInv, NEW s \in Slot, ReconcileEach(s), Tidy(s), Keys(rows[s]) = Keys(source[s])
  PROVE  Next1(s) = rows[s] /\ Removals(rows[s], Left(s)) = <<>>
  <1>1. /\ rows[s] \in Seq(Row) /\ source[s] \in Seq(Item) /\ Next1(s) \in Seq(Row)
        /\ Len(Next1(s)) = Len(source[s])
    BY Reconciled
  <1>2. Len(rows[s]) = Len(source[s]) /\ \A i \in 1..Len(rows[s]) : rows[s][i].key = source[s][i].key
    BY <1>1, KeysEqual
  <1>3. \A i \in 1..Len(source[s]) : Next1(s)[i].key = source[s][i].key
    <2>1. Keys(Next1(s)) = Keys(source[s])
      BY KeysOfNext
    <2> QED
      BY <1>1, <2>1, KeysEqual
  <1>4. Distinct(rows[s])
    <2>1. Distinct(<<>>)
      BY DEF Distinct
    <2> QED
      BY <2>1 DEF Tidy
  <1>5. \A i \in 1..Len(rows[s]) :
          Next1(s)[i] = rows[s][i] /\ OldIndex(rows[s], source[s][i].key) = i
    <2>1. ASSUME NEW i \in 1..Len(rows[s])
          PROVE  Next1(s)[i] = rows[s][i] /\ OldIndex(rows[s], source[s][i].key) = i
      <3>1. i \in 1..Len(Next1(s)) /\ rows[s][i].key = Next1(s)[i].key
        BY <1>1, <1>2, <1>3
      <3> QED
        BY <1>4, <3>1, KeyedRow
    <2> QED
      BY <2>1
  <1>6. Next1(s) = rows[s]
    <2>1. Len(Next1(s)) = Len(rows[s]) /\ \A i \in 1..Len(Next1(s)) : Next1(s)[i] = rows[s][i]
      BY <1>1, <1>2, <1>5
    <2> QED
      BY <1>1, <2>1, SeqEqual
  <1>7. Removals(rows[s], Left(s)) = <<>>
    <2>1. Left(s) = {}
      <3>1. Taken(rows[s], source[s]) = 1..Len(rows[s])
        BY <1>2, <1>5 DEF Taken
      <3> QED
        BY <3>1 DEF Left, LeftBehind
    <2>2. Removals(rows[s], Left(s)) = FlattenSeq([i \in 1..Len(rows[s]) |-> <<>>])
      BY <2>1 DEF Removals
    <2>3. Len(rows[s]) \in Nat
      BY <1>1
    <2> QED
      BY <2>2, <2>3, NothingJoined
  <1> QED
    BY <1>6, <1>7

\* What the removals leave of the slot is taken over.
LEMMA ThinnedPlace ==
  ASSUME TypeInv, RowsInv, ViewInv, SlotsInv, ChildrenInv, tree' = tree, NEW s \in Slot,
         ReconcileEach(s), EachShown(s)
  PROVE  /\ IsInjective(Thinned(s).children)
         /\ \A x : Contains(Thinned(s).children, x) => Exists(Thinned(s), x)
         /\ \E r \in Seq(El) :
              /\ Thinned(s).children = (Before(slots, s) \o r) \o Later(slots, s)
              /\ \A x : Contains(r, x) => Contains(Els(Next1(s)), x)
  <1> DEFINE p == Before(slots, s)
             k == slots[s]
             q == Later(slots, s)
             t == Patched(s)
             v == Thinned(s)
             old == rows[s]
             left == Left(s)
             ms == Removals(old, left)
  <1>1. /\ p \in Seq(El) /\ k \in Seq(El) /\ q \in Seq(El) /\ Apart(p, k, q)
        /\ Drained.children = (p \o k) \o q
    BY SlotParts
  <1>2. t \in Tree /\ t.children = (p \o k) \o q /\ \A x : Contains(t.children, x) => Exists(t, x)
    BY <1>1, ReconcileDrained, PatchesPlace
  <1>3. /\ old \in Seq(Row) /\ left \in SUBSET (1..Len(old)) /\ template[s] = "each"
        /\ Next1(s) \in Seq(Row) /\ v = Replayed(t, ms)
    BY Reconciled DEF Thinned
  <1>4. Len(k) = Len(old) /\ \A j \in 1..Len(old) : k[j] = old[j].el /\ Contains(k, old[j].el)
    BY <1>3, RowElements
  <1>5. /\ ms \in Seq(Mutation)
        /\ \A i \in 1..Len(ms) : ms[i].op = "remove" /\ \E j \in left : ms[i].el = old[j].el
        /\ \A j \in left : \E i \in 1..Len(ms) : ms[i].el = old[j].el
    <2> HIDE DEF old, left
    <2>1. ms = Removals(old, left)
      OBVIOUS
    <2> HIDE DEF ms
    <2>2. ms \in Seq(Mutation) /\ RemovesRows(ms, old, left)
      BY <1>3, <2>1, RemovalsOfRows
    <2> QED
      BY <2>2 DEF RemovesRows
  <1>6. \A j \in 1..Len(old) : old[j].el \in live
    BY DEF EachShown
  <1>7. \A j \in 1..Len(old) : old[j].el \notin {old[i].el : i \in left} =>
          \E i \in 1..Len(Next1(s)) : Next1(s)[i].el = old[j].el
    BY <1>6, LiveTakenOrLeft
  <1> HIDE DEF p, k, q, t, v, old, left, ms
  <1>8. \A i \in 1..Len(ms) : ms[i].op = "remove" /\ Contains(k, ms[i].el)
    BY <1>3, <1>4, <1>5
  <1>a. Between(t.children, p, k, q)
    BY <1>2 DEF Between
  <1>9. v \in Thinning(p, k, q) /\ \A i \in 1..Len(ms) : ~Contains(v.children, ms[i].el)
    BY <1>1, <1>2, <1>3, <1>5, <1>8, <1>a, RemovalsPlace
  <1>10. PICK r \in Seq(El) : v.children = (p \o r) \o q /\ \A x : Contains(r, x) => Contains(k, x)
    BY <1>9 DEF Thinning
  <1>11. ASSUME NEW x, Contains(r, x) PROVE Contains(Els(Next1(s)), x)
    <2>1. Contains(k, x)
      BY <1>10, <1>11
    <2>2. PICK j \in 1..Len(old) : old[j].el = x
      BY <1>4, <2>1 DEF Contains
    <2>3. Contains(v.children, x)
      BY <1>1, <1>10, <1>11, ThreeParts
    <2>4. x \notin {old[i].el : i \in left}
      BY <1>5, <1>9, <2>3
    <2>5. PICK i \in 1..Len(Next1(s)) : Next1(s)[i].el = x
      BY <1>7, <2>2, <2>4
    <2>6. Len(Els(Next1(s))) = Len(Next1(s)) /\ Els(Next1(s))[i] = x
      BY <1>3, <2>5, ElsFacts
    <2> QED
      BY <2>6 DEF Contains
  <1>12. IsInjective(v.children) /\ \A x : Contains(v.children, x) => Exists(v, x)
    BY <1>9 DEF Thinning
  <1> QED
    BY <1>10, <1>11, <1>12 DEF p, q, v

LEMMA ReconcilePlaces ==
  ASSUME TypeInv, RowsInv, ViewInv, SlotsInv, ChildrenInv, tree' = tree, NEW s \in Slot,
         ReconcileEach(s), Tidy(s), EachShown(s)
  PROVE  Drained'.children = FlattenSeq(slots')
  <1> DEFINE p == Before(slots, s)
             q == Later(slots, s)
             els == Els(Next1(s))
             t == Thinned(s)
  <1>1. /\ els \in Seq(El) /\ slots' = [slots EXCEPT ![s] = els] /\ template[s] = "each"
        /\ Next1(s) \in Seq(Row) /\ Len(Next1(s)) = Len(source[s])
    BY Reconciled DEF SlotsThen
  <1>2. /\ p \in Seq(El) /\ q \in Seq(El) /\ FlattenSeq(slots') = (p \o els) \o q
    BY <1>1, SlotReplaced
  <1>3. t \in Tree /\ Drained' = Replayed(t, MovesThen(s))
    BY ReconcileDrained
  <1>4. CASE Keys(rows[s]) = Keys(source[s])
    <2>1. MovesThen(s) = <<>>
      BY <1>4 DEF MovesThen
    <2>2. Drained' = t
      BY <1>3, <2>1, ReplayedNothing
    <2>3. Removals(rows[s], Left(s)) = <<>> /\ Next1(s) = rows[s]
      BY <1>4, SameRows
    <2>4. t = Patched(s)
      <3>1. Patched(s) \in Tree
        BY ReconcileDrained
      <3>2. Replayed(Patched(s), <<>>) = Patched(s)
        BY <3>1, ReplayedNothing
      <3> QED
        BY <2>3, <3>2 DEF Thinned
    <2>5. els = slots[s]
      BY <1>1, <2>3 DEF SlotsInv
    <2>6. Patched(s).children = (p \o slots[s]) \o q
      BY PatchesPlace, SlotParts
    <2> QED
      BY <1>2, <2>2, <2>4, <2>5, <2>6
  <1>5. CASE Keys(rows[s]) # Keys(source[s])
    <2>1. MovesThen(s) = Moves(els, FirstOf(q))
      <3>1. Later(SlotsThen(s), s) = q
        BY <1>1, SlotReplaced DEF SlotsThen
      <3>2. AnchorAfter(SlotsThen(s), s) = FirstOf(q)
        BY <3>1, AnchorIsFirst
      <3> QED
        BY <1>5, <3>2 DEF MovesThen
    <2>2. Apart(p, els, q)
      BY NextBetween
    <2>3. IsInjective(t.children) /\ \A x : Contains(t.children, x) => Exists(t, x)
      BY ThinnedPlace
    <2>4. PICK r \in Seq(El) : /\ t.children = (p \o r) \o q
                               /\ \A x : Contains(r, x) => Contains(els, x)
      BY ThinnedPlace
    <2>5. ASSUME NEW x, Contains(els, x) PROVE Exists(t, x)
      <3>1. PICK i \in 1..Len(source[s]) : Next1(s)[i].el = x
        <4>1. Len(els) = Len(source[s]) /\ \A i \in 1..Len(source[s]) : els[i] = Next1(s)[i].el
          BY <1>1, ElsFacts
        <4> HIDE DEF els
        <4> QED
          BY <2>5, <4>1 DEF Contains
      <3>2. Has(Patched(s), x, source[s][i])
        BY <3>1, PatchesText
      <3>3. \A j \in Left(s) : rows[s][j].el # x
        BY <3>1, NextNotGone
      <3>4. Has(t, x, source[s][i])
        BY <3>2, <3>3, RemovalsText
      <3> QED
        BY <3>4 DEF Has, Exists
    <2> HIDE DEF p, q, els, t
    <2>6. \A x : Contains(q, x) => Contains(t.children, x)
      BY <1>2, <2>4, ThreeParts
    <2>7. \A x : Contains(els, x) \/ Contains(q, x) => Exists(t, x)
      BY <2>3, <2>5, <2>6
    <2>a. els \in Seq(El)
      BY <1>1
    <2>b. Between(t.children, p, r, q) /\ \A x : Contains(r, x) => Contains(els, x)
      BY <2>4 DEF Between
    <2>8. Between(Replayed(t, Moves(els, FirstOf(q))).children, p, els, q)
      BY <2>a, <1>2, <1>3, <2>2, <2>3, <2>b, <2>7, MovesPlace
    <2> QED
      BY <1>2, <1>3, <2>1, <2>8 DEF Between
  <1> QED
    BY <1>4, <1>5
-----------------------------------------------------------------------------
(* The slots show what the signals denote. *)

TextsInv ==
  \A s \in Slot :
    /\ template[s] = "element" =>
         \A i \in 1..Len(slots[s]) : Has(Drained, slots[s][i], Static)
    /\ template[s] = "if" =>
         \A i \in 1..Len(slots[s]) : Has(Drained, slots[s][i], Body)
    /\ template[s] = "each" =>
         /\ EachShown(s)
         /\ s \in pending => Tidy(s)
         /\ s \notin pending =>
              \A i \in 1..Len(rows[s]) : item[rows[s][i].el] = source[s][i]

ShowsInv == distinct => Drained.children = FlattenSeq(slots) /\ TextsInv

LEMMA ShownExist ==
  ASSUME TypeInv, SlotsInv, Drained.children = FlattenSeq(slots), TextsInv
  PROVE  ChildrenInv
  <1>1. slots \in Seq(Seq(El)) /\ Slot = 1..Len(slots)
    BY TypeInvParts DEF Slot
  <1>2. ASSUME NEW s \in Slot, NEW x, Contains(slots[s], x) PROVE Exists(Drained, x)
    <2>1. PICK i \in 1..Len(slots[s]) : slots[s][i] = x
      BY <1>2 DEF Contains
    <2>2. template[s] \in {"element", "if", "each"} /\ rows[s] \in Seq(Row)
      BY TypeInvParts
    <2>3. CASE template[s] = "each"
      <3>1. slots[s] = Els(rows[s])
        BY <2>3 DEF SlotsInv
      <3>2. i \in 1..Len(rows[s]) /\ rows[s][i].el = x
        BY <2>1, <2>2, <3>1, ElsFacts
      <3>3. Has(Drained, x, item[x])
        BY <2>3, <3>2 DEF TextsInv, EachShown
      <3> QED
        BY <3>3 DEF Has, Exists
    <2>4. CASE template[s] # "each"
      <3>1. Has(Drained, x, Static) \/ Has(Drained, x, Body)
        BY <2>1, <2>2, <2>4 DEF TextsInv
      <3> QED
        BY <3>1 DEF Has, Exists
    <2> QED
      BY <2>3, <2>4
  <1>3. \A x : Contains(FlattenSeq(slots), x) => \E s \in Slot : Contains(slots[s], x)
    BY <1>1, FlattenEntries
  <1> QED
    BY <1>2, <1>3 DEF ChildrenInv

\* The other slots' elements are before or after this slot's.
LEMMA OtherSlots ==
  ASSUME TypeInv, NEW s \in Slot, NEW r \in Slot, r # s, NEW x, Contains(slots[r], x)
  PROVE  Contains(Before(slots, s), x) \/ Contains(Later(slots, s), x)
  <1>1. /\ slots \in Seq(Seq(El)) /\ s \in 1..Len(slots) /\ r \in 1..Len(slots)
        /\ Len(slots) \in Nat
    BY TypeInvParts DEF Slot
  <1>2. CASE r < s
    <2> DEFINE f == SubSeq(slots, 1, s - 1)
    <2>1. f \in Seq(Seq(El)) /\ Len(f) = s - 1 /\ \A i \in 1..(s - 1) : f[i] = slots[i]
      BY <1>1
    <2>2. r \in 1..(s - 1)
      BY <1>1, <1>2
    <2> HIDE DEF f
    <2>3. r \in 1..Len(f) /\ Contains(f[r], x)
      BY <2>1, <2>2
    <2>4. Contains(FlattenSeq(f), x)
      BY <2>1, <2>3, FlattenEntries
    <2> QED
      BY <2>4 DEF Before, f
  <1>3. CASE r > s
    <2> DEFINE f == SubSeq(slots, s + 1, Len(slots))
               m == Len(slots) - s
    <2>0. Len(slots) - (s + 1) + 1 = m /\ \A i \in 1..m : (s + 1) + i - 1 = s + i
      BY <1>1
    <2>1. /\ f \in Seq(Seq(El)) /\ Len(f) = Len(slots) - (s + 1) + 1
          /\ \A i \in 1..(Len(slots) - (s + 1) + 1) : f[i] = slots[(s + 1) + i - 1]
      BY <1>1
    <2>2. r - s \in 1..m /\ s + (r - s) = r
      BY <1>1, <1>3
    <2> HIDE DEF f, m
    <2>3. Len(f) = m /\ \A i \in 1..m : f[i] = slots[s + i]
      BY <2>0, <2>1
    <2>4. r - s \in 1..Len(f) /\ Contains(f[r - s], x)
      BY <2>2, <2>3
    <2>5. Contains(FlattenSeq(f), x)
      BY <2>1, <2>4, FlattenEntries
    <2> QED
      BY <2>5 DEF Later, f
  <1> QED
    BY <1>1, <1>2, <1>3

\* The next value of each item signal.
LEMMA ItemsThen ==
  ASSUME TypeInv, RowsInv, ViewInv, SlotsInv, ChildrenInv, NEW s \in Slot, ReconcileEach(s), Tidy(s)
  PROVE  /\ \A i \in 1..Len(source[s]) : item'[Next1(s)[i].el] = source[s][i]
         /\ \A e \in El : (\A i \in 1..Len(source[s]) : Next1(s)[i].el # e) => item'[e] = item[e]
  <1> DEFINE next == Next1(s)
             items == source[s]
             mine(e) == {i \in 1..Len(next) : next[i].el = e}
  <1>1. item' = [e \in El |-> IF mine(e) = {} THEN item[e]
                              ELSE items[CHOOSE i \in mine(e) : \A j \in mine(e) : j <= i]]
    BY DEF ReconcileEach, Next1
  <1>2. /\ Len(next) = Len(items) /\ Len(items) \in Nat
        /\ \A i \in 1..Len(items) : next[i].el \in El
    BY Reconciled
  <1>3. ASSUME NEW i \in 1..Len(items) PROVE item'[next[i].el] = items[i]
    <2> DEFINE e == next[i].el
               it == CHOOSE k \in mine(e) : \A j \in mine(e) : j <= k
    <2>1. \A j \in 1..Len(items) : next[j].el = next[i].el => i = j
      BY NextApart
    <2>2. mine(e) = {i}
      BY <1>2, <2>1
    <2>3. i \in mine(e) /\ \A j \in mine(e) : j <= i
      BY <1>2, <2>2
    <2>4. it \in mine(e)
      BY <2>3
    <2>5. it = i
      BY <2>2, <2>4
    <2>6. e \in El
      BY <1>2
    <2>7. item'[e] = IF mine(e) = {} THEN item[e] ELSE items[it]
      BY <1>1, <2>6
    <2> HIDE DEF it
    <2> QED
      BY <2>2, <2>5, <2>7
  <1>4. ASSUME NEW e \in El, \A i \in 1..Len(items) : next[i].el # e PROVE item'[e] = item[e]
    <2>1. mine(e) = {}
      BY <1>2, <1>4
    <2> QED
      BY <1>1, <2>1
  <1> QED
    BY <1>3, <1>4

\* A run leaves alone what the other slots show.
LEMMA RunKeeps ==
  ASSUME TypeInv, RowsInv, ViewInv, SlotsInv, ChildrenInv, tree' = tree,
         NEW s \in Slot, RunBlock(s), template[s] = "each" => Tidy(s) /\ EachShown(s),
         MountElement(s) => Later(slots, s) = <<>>,
         NEW r \in Slot, r # s, NEW e, Contains(slots[r], e)
  PROVE  /\ \A x : Has(Drained, e, x) => Has(Drained', e, x)
         /\ item'[e] = item[e] /\ (e \in live => e \in live')
  <1>1. e \in El /\ e < nextId /\ nextId \in Nat
    <2>1. PICK i \in 1..Len(slots[r]) : slots[r][i] = e
      BY DEF Contains
    <2> QED
      BY <2>1, SlotNumbers, TypeInvParts
  <1>2. e # nextId
    BY <1>1
  <1>3. Contains(Before(slots, s), e) \/ Contains(Later(slots, s), e)
    BY OtherSlots
  <1>4. ~Contains(slots[s], e)
    <2>1. Apart(Before(slots, s), slots[s], Later(slots, s))
      BY SlotParts
    <2> QED
      BY <1>3, <2>1 DEF Apart
  <1>5. CASE MountElement(s) \/ MountIf(s)
    <2>1. item' = item /\ live \subseteq live'
      BY <1>5 DEF MountElement, MountIf
    <2>2. slots[s] = <<>>
      <3>1. CASE MountElement(s)
        BY <3>1 DEF MountElement
      <3>2. CASE MountIf(s)
        BY <3>2, ElsOfFew DEF MountIf, SlotsInv
      <3> QED
        BY <1>5, <3>1, <3>2
    <2>3. \A x : Has(Drained, e, x) => Has(Drained', e, x)
      BY <1>2, <1>5, <2>2, MountPlaces
    <2> QED
      BY <2>1, <2>3
  <1>6. CASE UnmountIf(s)
    <2>1. item' = item /\ live' = live \ {rows[s][1].el} /\ template[s] = "if"
          /\ rows[s] # <<>> /\ rows[s] \in Seq(Row)
      BY <1>6, TypeInvParts DEF UnmountIf
    <2>2. Contains(slots[s], rows[s][1].el)
      <3>1. slots[s] = Els(rows[s]) /\ 1 \in 1..Len(rows[s])
        BY <2>1 DEF SlotsInv
      <3>2. Len(slots[s]) = Len(rows[s]) /\ slots[s][1] = rows[s][1].el
        BY <2>1, <3>1, ElsFacts
      <3> QED
        BY <3>1, <3>2 DEF Contains
    <2>3. \A x : Has(Drained, e, x) => Has(Drained', e, x)
      BY <1>4, <1>6, UnmountPlaces
    <2> QED
      BY <1>4, <2>1, <2>2, <2>3
  <1>7. CASE KeepIf(s)
    BY <1>7 DEF KeepIf, block, Drained
  <1>8. CASE ReconcileEach(s)
    <2>1. /\ template[s] = "each" /\ Next1(s) \in Seq(Row) /\ Len(Next1(s)) = Len(source[s])
          /\ Left(s) \in SUBSET (1..Len(rows[s]))
          /\ live' = (live \cup Made(s)) \ {rows[s][i].el : i \in Left(s)}
      BY <1>8, Reconciled
    <2>2. Tidy(s) /\ EachShown(s)
      BY <2>1
    <2>3. \A i \in 1..Len(source[s]) : Next1(s)[i].el # e
      <3>1. Apart(Before(slots, s), Els(Next1(s)), Later(slots, s))
        BY <1>8, <2>2, NextBetween
      <3>2. ~Contains(Els(Next1(s)), e)
        BY <1>3, <3>1 DEF Apart
      <3>3. Len(Els(Next1(s))) = Len(source[s])
            /\ \A i \in 1..Len(source[s]) : Els(Next1(s))[i] = Next1(s)[i].el
        BY <2>1, ElsFacts
      <3> QED
        BY <3>2, <3>3 DEF Contains
    <2>4. \A j \in Left(s) : rows[s][j].el # e
      <3>1. \A j \in 1..Len(rows[s]) : Contains(slots[s], rows[s][j].el)
        BY <2>1, RowElements
      <3> QED
        BY <1>4, <2>1, <3>1
    <2>5. item'[e] = item[e]
      BY <1>1, <1>8, <2>2, <2>3, ItemsThen
    <2>6. ASSUME NEW x, Has(Drained, e, x) PROVE Has(Drained', e, x)
      <3>1. Has(Patched(s), e, x)
        BY <1>8, <2>2, <2>3, <2>6, PatchesText
      <3>2. Has(Thinned(s), e, x)
        BY <1>8, <2>4, <3>1, RemovalsText
      <3> QED
        BY <1>8, <3>2, MovesText
    <2> QED
      BY <2>1, <2>4, <2>5, <2>6
  <1> QED
    BY <1>5, <1>6, <1>7, <1>8 DEF RunBlock
\* While the slots are built, nothing follows the one being mounted.
LEMMA NothingLater ==
  ASSUME TypeInv, NEW s \in Slot, \A r \in Slot : r > s => slots[r] = <<>>
  PROVE  Later(slots, s) = <<>>
  <1>1. slots \in Seq(Seq(El)) /\ Slot = 1..Len(slots) /\ Len(slots) \in Nat
    BY TypeInvParts DEF Slot
  <1> DEFINE f == SubSeq(slots, s + 1, Len(slots))
             m == Len(slots) - s
  <1>2. /\ f \in Seq(Seq(El)) /\ Len(f) = Len(slots) - (s + 1) + 1
        /\ \A i \in 1..(Len(slots) - (s + 1) + 1) : f[i] = slots[(s + 1) + i - 1]
    BY <1>1
  <1>3. /\ Len(slots) - (s + 1) + 1 = m
        /\ \A i \in 1..m : (s + 1) + i - 1 \in Slot /\ (s + 1) + i - 1 > s
    BY <1>1
  <1> HIDE DEF f, m
  <1>4. \A i \in 1..Len(f) : f[i] = <<>>
    BY <1>2, <1>3
  <1>5. \A x : ~Contains(<<>>, x)
    BY DEF Contains
  <1>6. FlattenSeq(f) \in Seq(El) /\ \A x : ~Contains(FlattenSeq(f), x)
    BY <1>2, <1>4, <1>5, FlattenEntries
  <1>7. FlattenSeq(f) = <<>>
    BY <1>6, NoneIsEmpty
  <1> QED
    BY <1>7 DEF Later, f

\* What a run makes its own slot show.
LEMMA RunOwn ==
  ASSUME TypeInv, RowsInv, ViewInv, SlotsInv, ChildrenInv, tree' = tree, template' = template,
         NEW s \in Slot, RunBlock(s), template[s] = "each" => Tidy(s) /\ EachShown(s),
         MountElement(s) => Later(slots, s) = <<>>,
         template[s] = "if" => \A i \in 1..Len(slots[s]) : Has(Drained, slots[s][i], Body)
  PROVE  /\ Drained'.children = FlattenSeq(slots')
         /\ template[s] = "element" =>
              \A i \in 1..Len(slots'[s]) : Has(Drained', slots'[s][i], Static)
         /\ template[s] = "if" =>
              \A i \in 1..Len(slots'[s]) : Has(Drained', slots'[s][i], Body)
         /\ template[s] = "each" =>
              /\ EachShown(s)'
              /\ \A i \in 1..Len(rows'[s]) : item'[rows'[s][i].el] = source[s][i]
  <1>1. slots \in [Slot -> Seq(El)] /\ rows \in [Slot -> Seq(Row)]
    BY TypeInvParts
  <1>2. CASE MountElement(s) \/ MountIf(s)
    <2>1. slots[s] = <<>>
      <3>1. CASE MountElement(s)
        BY <3>1 DEF MountElement
      <3>2. CASE MountIf(s)
        BY <3>2, ElsOfFew DEF MountIf, SlotsInv
      <3> QED
        BY <1>2, <3>1, <3>2
    <2>2. /\ Drained'.children = FlattenSeq(slots')
          /\ template[s] = "if" => Has(Drained', nextId, Body)
          /\ template[s] = "element" => Has(Drained', nextId, Static)
      BY <1>2, <2>1, MountPlaces
    <2>3. slots' = [slots EXCEPT ![s] = <<nextId>>] /\ template[s] \in {"element", "if"}
      BY <1>2 DEF MountElement, MountIf
    <2>4. slots'[s] = <<nextId>>
      BY <1>1, <2>3
    <2>5. \A i \in 1..Len(slots'[s]) : slots'[s][i] = nextId
      <3>1. Len(<<nextId>>) = 1 /\ <<nextId>>[1] = nextId
        OBVIOUS
      <3>2. \A i \in 1..1 : i = 1
        OBVIOUS
      <3> QED
        BY <2>4, <3>1, <3>2
    <2> QED
      BY <2>2, <2>3, <2>5
  <1>3. CASE UnmountIf(s)
    <2>1. Drained'.children = FlattenSeq(slots')
      BY <1>3, UnmountPlaces
    <2>2. slots' = [slots EXCEPT ![s] = <<>>] /\ template[s] = "if"
      BY <1>3 DEF UnmountIf
    <2>3. slots'[s] = <<>> /\ Len(<<>>) = 0
      BY <1>1, <2>2
    <2> QED
      BY <2>1, <2>2, <2>3
  <1>4. CASE KeepIf(s)
    <2>1. /\ slots' = slots /\ Drained' = Drained /\ template[s] = "if"
      BY <1>4 DEF KeepIf, block, Drained
    <2> QED
      BY <2>1 DEF ChildrenInv
  <1>5. CASE ReconcileEach(s)
    <2>1. /\ template[s] = "each" /\ Next1(s) \in Seq(Row) /\ Len(Next1(s)) = Len(source[s])
          /\ live' = (live \cup Made(s)) \ {rows[s][i].el : i \in Left(s)}
          /\ rows' = [rows EXCEPT ![s] = Next1(s)]
          /\ \A i \in 1..Len(source[s]) : Next1(s)[i].el \in El
      BY <1>5, Reconciled
    <2>2. Tidy(s) /\ EachShown(s)
      BY <2>1
    <2>3. Drained'.children = FlattenSeq(slots')
      BY <1>5, <2>2, ReconcilePlaces
    <2>4. rows'[s] = Next1(s)
      BY <1>1, <2>1
    <2>5. \A i \in 1..Len(source[s]) : item'[Next1(s)[i].el] = source[s][i]
      BY <1>5, <2>2, ItemsThen
    <2>6. ASSUME NEW i \in 1..Len(source[s])
          PROVE  Next1(s)[i].el \in live' /\ Has(Drained', Next1(s)[i].el, source[s][i])
      <3>1. \A j \in Left(s) : rows[s][j].el # Next1(s)[i].el
        BY <1>5, NextNotGone
      <3>2. Has(Patched(s), Next1(s)[i].el, source[s][i])
        BY <1>5, <2>2, PatchesText
      <3>3. Has(Thinned(s), Next1(s)[i].el, source[s][i])
        BY <1>5, <3>1, <3>2, RemovalsText
      <3>4. Has(Drained', Next1(s)[i].el, source[s][i])
        BY <1>5, <3>3, MovesText
      <3>5. Next1(s)[i].el \in live \cup Made(s)
        <4>1. CASE Fresh(s, i)
          BY <2>1, <4>1 DEF Fresh, Made
        <4>2. CASE \E o : FromOld(s, i, o)
          BY <2>2, <4>2 DEF FromOld, EachShown
        <4> QED
          BY <1>5, <4>1, <4>2, NextFrom
      <3> QED
        BY <2>1, <3>1, <3>4, <3>5
    <2>7. EachShown(s)'
      BY <2>1, <2>4, <2>5, <2>6 DEF EachShown
    <2> QED
      BY <2>1, <2>3, <2>4, <2>5, <2>7
  <1> QED
    BY <1>2, <1>3, <1>4, <1>5 DEF RunBlock

LEMMA RunShows ==
  ASSUME TypeInv, RowsInv, ViewInv, SlotsInv, ShowsInv, NEW s \in pending, RunBlock(s),
         pending' = pending \ {s}, UNCHANGED <<template, source, distinct, tree>>
  PROVE  ShowsInv'
  <1>1. SUFFICES ASSUME distinct PROVE Drained'.children = FlattenSeq(slots') /\ TextsInv'
    BY DEF ShowsInv
  <1>2. Drained.children = FlattenSeq(slots) /\ TextsInv /\ s \in Slot /\ Slot' = Slot
    BY <1>1, TypeInvParts DEF ShowsInv, Slot
  <1>3. ChildrenInv
    BY <1>2, ShownExist
  <1>4. template[s] = "each" => Tidy(s) /\ EachShown(s)
    BY <1>2 DEF TextsInv
  <1>5. MountElement(s) => Later(slots, s) = <<>>
    <2>1. SUFFICES ASSUME MountElement(s) PROVE Later(slots, s) = <<>>
      OBVIOUS
    <2>2. phase = "build"
      BY <2>1 DEF MountElement, SlotsInv
    <2>3. \A r \in Slot : r > s => slots[r] = <<>>
      <3>1. Slot \subseteq Nat
        BY DEF Slot
      <3>2. \A r \in Slot : r > s => s <= r
        BY <1>2, <3>1
      <3> QED
        BY <2>2, <3>2 DEF SlotsInv
    <2> QED
      BY <1>2, <2>3, NothingLater
  <1>6. template[s] = "if" => \A i \in 1..Len(slots[s]) : Has(Drained, slots[s][i], Body)
    BY <1>2 DEF TextsInv
  <1>7. /\ Drained'.children = FlattenSeq(slots')
        /\ template[s] = "element" =>
              \A i \in 1..Len(slots'[s]) : Has(Drained', slots'[s][i], Static)
        /\ template[s] = "if" =>
              \A i \in 1..Len(slots'[s]) : Has(Drained', slots'[s][i], Body)
        /\ template[s] = "each" =>
              /\ EachShown(s)'
              /\ \A i \in 1..Len(rows'[s]) : item'[rows'[s][i].el] = source[s][i]
    BY <1>2, <1>3, <1>4, <1>5, <1>6, RunOwn
  <1>8. \A r \in Slot : r # s => slots'[r] = slots[r] /\ rows'[r] = rows[r]
    BY <1>2, RunSlots DEF SlotsInv
  <1>9. ASSUME NEW r \in Slot, r # s, NEW e, Contains(slots[r], e)
        PROVE  /\ \A x : Has(Drained, e, x) => Has(Drained', e, x)
               /\ item'[e] = item[e] /\ (e \in live => e \in live')
    BY <1>2, <1>3, <1>4, <1>5, <1>9, RunKeeps
  <1>10. ASSUME NEW r \in Slot, r # s, template[r] # "each", NEW i \in 1..Len(slots[r]), NEW x,
                Has(Drained, slots[r][i], x)
         PROVE  Has(Drained', slots[r][i], x)
    <2>1. Contains(slots[r], slots[r][i])
      BY DEF Contains
    <2> QED
      BY <1>9, <1>10, <2>1
  <1>11. ASSUME NEW r \in Slot, r # s, template[r] = "each"
         PROVE  /\ EachShown(r)'
                /\ r \in pending => Tidy(r)'
                /\ r \notin pending =>
                     \A i \in 1..Len(rows[r]) : item'[rows[r][i].el] = source[r][i]
    <2>1. rows'[r] = rows[r] /\ source'[r] = source[r]
      BY <1>8, <1>11
    <2>2. \A i \in 1..Len(rows[r]) : Contains(slots[r], rows[r][i].el)
      BY <1>3, <1>11, RowElements
    <2>3. EachShown(r) /\ (r \in pending => Tidy(r))
          /\ (r \notin pending => \A i \in 1..Len(rows[r]) : item[rows[r][i].el] = source[r][i])
      BY <1>2, <1>11 DEF TextsInv
    <2>4. EachShown(r)'
      <3>1. ASSUME NEW i \in 1..Len(rows[r])
            PROVE  /\ rows[r][i].el \in live'
                   /\ Has(Drained', rows[r][i].el, item'[rows[r][i].el])
        <4> DEFINE e == rows[r][i].el
        <4>1. Contains(slots[r], e) /\ e \in live /\ Has(Drained, e, item[e])
          BY <2>2, <2>3 DEF EachShown
        <4> HIDE DEF e
        <4>2. item'[e] = item[e] /\ e \in live' /\ Has(Drained', e, item[e])
          BY <1>9, <1>11, <4>1
        <4> QED
          BY <4>2 DEF e
      <3> QED
        BY <2>1, <3>1 DEF EachShown
    <2>5. Tidy(r) => Tidy(r)'
      BY <2>1 DEF Tidy
    <2>6. r \notin pending => \A i \in 1..Len(rows[r]) : item'[rows[r][i].el] = source[r][i]
      BY <1>9, <1>11, <2>2, <2>3
    <2> QED
      BY <2>3, <2>4, <2>5, <2>6
  <1>12. ASSUME NEW r \in Slot
         PROVE  /\ template[r] = "element" =>
                     \A i \in 1..Len(slots'[r]) : Has(Drained', slots'[r][i], Static)
                /\ template[r] = "if" =>
                     \A i \in 1..Len(slots'[r]) : Has(Drained', slots'[r][i], Body)
                /\ template[r] = "each" =>
                     /\ EachShown(r)'
                     /\ r \in pending' => Tidy(r)'
                     /\ r \notin pending' =>
                          \A i \in 1..Len(rows'[r]) : item'[rows'[r][i].el] = source'[r][i]
    <2>1. CASE r = s
      BY <1>7, <2>1
    <2>2. CASE r # s
      <3>1. slots'[r] = slots[r] /\ rows'[r] = rows[r] /\ (r \in pending' <=> r \in pending)
        BY <1>8, <2>2
      <3>2. CASE template[r] = "each"
        BY <1>11, <2>2, <3>1, <3>2
      <3>3. CASE template[r] # "each"
        BY <1>2, <1>10, <2>2, <3>1, <3>3 DEF TextsInv
      <3> QED
        BY <3>2, <3>3
    <2> QED
      BY <2>1, <2>2
  <1>13. TextsInv'
    BY <1>2, <1>12 DEF TextsInv
  <1> QED
    BY <1>7, <1>13

LEMMA WriteShows ==
  ASSUME TypeInv, KeyedInv, ShowsInv, pending = {}, Write, UNCHANGED <<block, tree>>
  PROVE  ShowsInv'
  <1>1. SUFFICES ASSUME distinct' PROVE Drained'.children = FlattenSeq(slots') /\ TextsInv'
    BY DEF ShowsInv
  <1>2. /\ distinct /\ template' = template /\ Slot' = Slot
        /\ pending' = {s \in Slot : source'[s] # source[s]}
        /\ \A s \in Slot : template[s] = "each" => Distinct(source'[s]) /\ Distinct(source[s])
    BY <1>1 DEF Write, Slot
  <1>3. Drained' = Drained /\ rows' = rows /\ slots' = slots /\ live' = live /\ item' = item
    BY DEF block, Drained
  <1>4. Drained.children = FlattenSeq(slots) /\ TextsInv
    BY <1>2 DEF ShowsInv
  <1>5. ASSUME NEW s \in Slot, template[s] = "each" PROVE Tidy(s)'
    <2>1. Keys(rows[s]) = Keys(source[s])
      BY <1>5 DEF KeyedInv
    <2>2. rows[s] \in Seq(Row) /\ source[s] \in Seq(Item)
      BY <1>5, TypeInvParts
    <2>3. Len(rows[s]) = Len(source[s]) /\ \A i \in 1..Len(rows[s]) : rows[s][i].key = source[s][i].key
      BY <2>1, <2>2, KeysEqual
    <2>4. Distinct(rows[s])
      BY <1>2, <1>5, <2>3 DEF Distinct
    <2> QED
      BY <1>2, <1>3, <1>5, <2>4 DEF Tidy
  <1>6. ASSUME NEW s \in Slot, template[s] = "each"
        PROVE  /\ EachShown(s)'
               /\ s \notin pending' => \A i \in 1..Len(rows[s]) : item[rows[s][i].el] = source'[s][i]
    <2>1. EachShown(s) /\ \A i \in 1..Len(rows[s]) : item[rows[s][i].el] = source[s][i]
      BY <1>4, <1>6 DEF TextsInv
    <2>2. EachShown(s)'
      BY <1>3, <2>1 DEF EachShown
    <2> QED
      BY <1>2, <2>1, <2>2
  <1>7. TextsInv'
    BY <1>2, <1>3, <1>4, <1>5, <1>6 DEF TextsInv
  <1> QED
    BY <1>3, <1>4, <1>7

LEMMA HandleShows ==
  ASSUME TypeInv, RowsInv, ViewInv, ShowsInv, HandleBegins \/ HandleReturns
  PROVE  ShowsInv'
  <1>1. UNCHANGED <<rows, slots, live, item, template, source, pending, distinct>>
    BY DEF HandleBegins, HandleReturns, app
  <1>2. Drained'.children = Drained.children /\ Drained'.text = Drained.text
    BY HandleView
  <1>3. \A e, x : Has(Drained, e, x) => Has(Drained', e, x)
    BY <1>2 DEF Has
  <1>4. \A s \in Slot : EachShown(s) => EachShown(s)'
    BY <1>1, <1>3 DEF EachShown
  <1>5. \A s \in Slot : Tidy(s) => Tidy(s)'
    BY <1>1 DEF Tidy
  <1>6. TextsInv => TextsInv'
    BY <1>1, <1>3, <1>4, <1>5 DEF TextsInv, Slot
  <1> QED
    BY <1>1, <1>2, <1>6 DEF ShowsInv

LEMMA ShowsInit == Init => ShowsInv
  <1>1. SUFFICES ASSUME Init PROVE Drained.children = FlattenSeq(slots) /\ TextsInv
    BY DEF ShowsInv
  <1>2. /\ rows = [s \in Slot |-> <<>>] /\ slots = [s \in Slot |-> <<>>] /\ tree = NewTree
        /\ log = <<>> /\ pending = Slot
    BY <1>1 DEF Init
  <1>3. TypeInv
    BY <1>1, TypeInit
  <1>4. Drained.children = <<>>
    <2>1. tree \in Tree
      BY <1>3 DEF TypeInv
    <2>2. Drained = NewTree
      BY <1>2, <2>1, ReplayedNothing DEF Drained
    <2> QED
      BY <2>2 DEF NewTree
  <1>5. FlattenSeq(slots) = <<>>
    <2>1. slots = [i \in 1..Len(template) |-> <<>>] /\ Len(template) \in Nat
      BY <1>2, <1>3, TypeInvParts DEF Slot
    <2> QED
      BY <2>1, NothingJoined
  <1>6. TextsInv
    BY <1>2 DEF TextsInv, EachShown, Tidy
  <1> QED
    BY <1>4, <1>5, <1>6

LEMMA ShowsStep ==
  TypeInv /\ RowsInv /\ ViewInv /\ KeyedInv /\ SlotsInv /\ ShowsInv /\ [Next]_vars => ShowsInv'
  <1>1. SUFFICES ASSUME TypeInv, RowsInv, ViewInv, KeyedInv, SlotsInv, ShowsInv, [Next]_vars
                 PROVE  ShowsInv'
    OBVIOUS
  <1>2. CASE Build \/ Flush
    <2>1. /\ UNCHANGED <<template, source, distinct, tree>>
          /\ \E s \in pending : RunBlock(s) /\ pending' = pending \ {s}
      BY <1>2 DEF Build, Flush, host
    <2> QED
      BY <1>1, <2>1, RunShows
  <1>3. CASE HandleBegins \/ HandleReturns
    BY <1>1, <1>3, HandleShows
  <1>4. CASE pending = {} /\ Write /\ UNCHANGED <<block, tree>>
    BY <1>1, <1>4, WriteShows
  <1>5. CASE UNCHANGED <<block, tree, app>>
    BY <1>1, <1>5 DEF block, app, ShowsInv, TextsInv, EachShown, Tidy, Has, Drained, Slot
  <1>6. \/ Build \/ Flush \/ HandleBegins \/ HandleReturns
        \/ pending = {} /\ Write /\ UNCHANGED <<block, tree>>
        \/ UNCHANGED <<block, tree, app>>
    <2>1. CASE OutsideWrite \/ RouteClick \/ UserClicks
      BY <2>1 DEF OutsideWrite, RouteClick, UserClicks, host
    <2>2. CASE UNCHANGED vars
      BY <2>2 DEF vars, host
    <2> QED
      BY <1>1, <2>1, <2>2 DEF Next
  <1> QED
    BY <1>2, <1>3, <1>4, <1>5, <1>6

\* When handle has returned, the tree shows, in order, exactly what the
\* template denotes for the current signals, whatever sequence of batches,
\* blocks and clicks led there, as long as no list has repeated a key
\* (reconcile_each, mount_if, anchor_after and the drain of app_host.rs).
THEOREM DynamicShowsModel == Spec => []TreeShowsModel
  <1>1. TypeInv /\ RowsInv /\ KeyedInv /\ SlotsInv /\ ShowsInv => TreeShowsModel
    <2>1. SUFFICES ASSUME TypeInv, RowsInv, KeyedInv, SlotsInv, ShowsInv, AtRest, distinct
                   PROVE  [i \in 1..Len(tree.children) |-> tree.text[tree.children[i]]]
                            = FlattenSeq(source)
      BY DEF TreeShowsModel, Denoted
    <2>2. tree \in Tree /\ pending = {} /\ log = <<>>
      BY <2>1 DEF TypeInv, AtRest
    <2>3. Drained = tree
      BY <2>2, ReplayedNothing DEF Drained
    <2>4. tree.children = FlattenSeq(slots) /\ TextsInv
      BY <2>1, <2>3 DEF ShowsInv
    <2>5. /\ slots \in Seq(Seq(El)) /\ Slot = 1..Len(slots) /\ Len(slots) = Len(template)
          /\ rows \in [Slot -> Seq(Row)]
      BY <2>1, TypeInvParts DEF Slot
    <2>6. ASSUME NEW s \in Slot
          PROVE  /\ source[s] \in Seq(Texts) /\ Len(slots[s]) = Len(source[s])
                 /\ \A i \in 1..Len(slots[s]) : tree.text[slots[s][i]] = source[s][i]
      <3>1. /\ template[s] \in {"element", "if", "each"} /\ rows[s] \in Seq(Row)
            /\ slots[s] \in Seq(El)
            /\ template[s] = "each" => source[s] \in Seq(Item)
            /\ template[s] = "if" => source[s] \in {<<>>, <<Body>>}
            /\ template[s] = "element" => source[s] = <<Static>>
        BY <2>1, TypeInvParts
      <3>2. CASE template[s] = "each"
        <4>1. slots[s] = Els(rows[s]) /\ Keys(rows[s]) = Keys(source[s])
          BY <2>1, <2>2, <3>2 DEF SlotsInv, KeyedInv
        <4>2. Len(rows[s]) = Len(source[s])
          BY <3>1, <3>2, <4>1, KeysEqual
        <4>3. Len(slots[s]) = Len(rows[s]) /\ \A i \in 1..Len(rows[s]) : slots[s][i] = rows[s][i].el
          BY <3>1, <4>1, ElsFacts
        <4>4. EachShown(s) /\ \A i \in 1..Len(rows[s]) : item[rows[s][i].el] = source[s][i]
          BY <2>2, <2>4, <3>2 DEF TextsInv
        <4>5. \A i \in 1..Len(rows[s]) : tree.text[rows[s][i].el] = item[rows[s][i].el]
          BY <2>3, <4>4 DEF EachShown, Has
        <4>6. source[s] \in Seq(Texts)
          <5>1. source[s] \in Seq(Item) /\ Item \subseteq Texts
            BY <3>1, <3>2, TextTypes
          <5>2. \A i \in 1..Len(source[s]) : source[s][i] \in Texts
            BY <5>1, ElementOfSeq
          <5> QED
            BY <5>1, <5>2
        <4> QED
          BY <4>2, <4>3, <4>4, <4>5, <4>6
      <3>3. CASE template[s] = "if"
        <4>1. slots[s] = Els(rows[s]) /\ (rows[s] = <<>> <=> source[s] = <<>>)
          BY <2>1, <2>2, <3>3 DEF SlotsInv
        <4>2. Len(slots[s]) = Len(rows[s]) /\ Len(rows[s]) \in Nat
          BY <3>1, <4>1, ElsFacts
        <4>3. Len(rows[s]) <= 1
          BY <2>1, <3>3 DEF RowsInv
        <4>4. \A i \in 1..Len(slots[s]) : tree.text[slots[s][i]] = Body
          BY <2>3, <2>4, <3>3 DEF TextsInv, Has
        <4>5. CASE source[s] = <<>>
          <5>1. Len(<<>>) = 0 /\ <<>> \in Seq(Texts) /\ Len(rows[s]) = 0
            BY <4>1, <4>5
          <5> QED
            BY <4>2, <4>5, <5>1
        <4>6. CASE source[s] = <<Body>>
          <5>1. <<Body>> \in Seq(Texts) /\ Len(<<Body>>) = 1 /\ \A i \in 1..1 : <<Body>>[i] = Body
            BY TextTypes
          <5>2. rows[s] # <<>>
            BY <4>1, <4>6
          <5>3. Len(rows[s]) # 0
            BY <3>1, <5>2
          <5>4. Len(rows[s]) = 1
            BY <4>2, <4>3, <5>3, OnlyOne
          <5> QED
            BY <4>2, <4>4, <4>6, <5>1, <5>4
        <4> QED
          BY <3>1, <3>3, <4>5, <4>6
      <3>4. CASE template[s] = "element"
        <4>1. Len(slots[s]) = 1
          BY <2>1, <2>2, <3>4 DEF SlotsInv
        <4>2. \A i \in 1..Len(slots[s]) : tree.text[slots[s][i]] = Static
          BY <2>3, <2>4, <3>4 DEF TextsInv, Has
        <4>3. <<Static>> \in Seq(Texts) /\ Len(<<Static>>) = 1 /\ \A i \in 1..1 : <<Static>>[i] = Static
          BY TextTypes
        <4> QED
          BY <3>1, <3>4, <4>1, <4>2, <4>3
      <3> QED
        BY <3>1, <3>2, <3>3, <3>4
    <2>7. source \in Seq(Seq(Texts)) /\ Len(source) = Len(slots)
      <3>1. DOMAIN source = Slot
        BY <2>1 DEF TypeInv, Sources
      <3>2. source \in [1..Len(slots) -> Seq(Texts)] /\ Len(slots) \in Nat
        <4>1. source = [s \in Slot |-> source[s]]
          BY <2>1 DEF TypeInv, Sources
        <4>2. Slot = 1..Len(slots) /\ Len(slots) \in Nat
          BY <2>5
        <4>3. \A s \in Slot : source[s] \in Seq(Texts)
          BY <2>6
        <4>4. source \in [Slot -> Seq(Texts)]
          BY <4>1, <4>3
        <4> QED
          BY <4>2, <4>4
      <3> QED
        BY <3>2
    <2>8. \A s \in 1..Len(slots) : Len(slots[s]) = Len(source[s])
      BY <2>5, <2>6
    <2>9. \A s \in 1..Len(slots) : \A i \in 1..Len(slots[s]) : tree.text[slots[s][i]] = source[s][i]
      BY <2>5, <2>6
    <2> DEFINE g == tree.text
               a == slots
               b == source
    <2>10. /\ a \in Seq(Seq(El)) /\ b \in Seq(Seq(Texts)) /\ Len(a) = Len(b)
           /\ \A s \in 1..Len(a) : Len(a[s]) = Len(b[s])
           /\ \A s \in 1..Len(a) : \A i \in 1..Len(a[s]) : g[a[s][i]] = b[s][i]
      BY <2>5, <2>7, <2>8, <2>9
    <2> HIDE DEF g, a, b
    <2>11. MapsTo(g, FlattenSeq(a), FlattenSeq(b))
      BY <2>10, FlattenMapped
    <2> QED
      BY <2>4, <2>11 DEF g, a, b, MapsTo
  <1>2. Spec => []KeyedInv
    <2>1. TypeInv /\ KeyedInv /\ [Next]_vars => (KeyedInv)'
      BY KeyedStep
    <2> QED
      BY KeyedInit, <2>1, TypesHold, PTL DEF Spec
  <1>3. Spec => []SlotsInv
    <2>1. TypeInv /\ TypeInv' /\ SlotsInv /\ [Next]_vars => (SlotsInv)'
      BY SlotsStep
    <2> QED
      BY SlotsInit, <2>1, TypesHold, PTL DEF Spec
  <1>4. TypeInv /\ RowsInv /\ ViewInv /\ KeyedInv /\ SlotsInv /\ ShowsInv /\ [Next]_vars => (ShowsInv)'
    BY ShowsStep
  <1> QED
    BY <1>1, <1>2, <1>3, <1>4, OrphansHold, ShowsInit, PTL DEF Spec
=============================================================================
