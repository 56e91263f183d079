------------------------ MODULE ReactiveEffectsProofs ------------------------
(***************************************************************************)
(* Proofs about the effects and scopes of Reactive, on top of the          *)
(* invariants of ReactiveProofs.                                           *)
(*                                                                         *)
(* For applications whose events' handlers alone write, EffectsInv follows *)
(* an effect from the write that queues it to its one run.  Where closures *)
(* keep to the scopes they are of as well, ScopesInv says what is alive    *)
(* while scopes are built and disposed, ValuesInv that what is read has a  *)
(* value, and ShownInv what an effect showed last.                         *)
(***************************************************************************)
EXTENDS ReactiveProofs

-----------------------------------------------------------------------------
(* Effects.  Where only the handlers of events write, and only write, an *)
(* effect is queued by nothing but the writes of an event, and no effect *)
(* that exists is waiting while one runs.                                *)

EventCall(a, f) == f.op \in {"handler", "batch"} /\ f.of \in a.onEvent

EffectCall(a, f) == f.op \in Working /\ a.kind[f.of] = "effect"

\* What may be in progress above what, f above g: an event's handler is the
\* host's own call, a flush follows a write of one, nothing but memos is brought
\* up to date inside a batch, and no effect is entered twice.
MayWait(a, f, g) ==
  /\ ~EventCall(a, f)
  /\ g.op = "batch" => MemoCall(a, f)
  /\ f.op = "flush" => EventCall(a, g)
  /\ EffectCall(a, f) /\ EffectCall(a, g) /\ f.of = g.of => f.op = "run" /\ g.op = "settle"

Waiting(a, s) == \A i, j \in 1..Len(s) : i < j => MayWait(a, s[i], s[j])

LEMMA WaitingPush ==
  ASSUME NEW a, NEW s \in Seq(TypedFrame), Waiting(a, s), NEW f \in TypedFrame,
         \A g \in TypedFrame : Contains(s, g) => MayWait(a, f, g)
  PROVE  Waiting(a, <<f>> \o s)
  <1> DEFINE t == <<f>> \o s
  <1>1. /\ t \in Seq(TypedFrame) /\ Len(t) = Len(s) + 1 /\ t[1] = f /\ Len(s) \in Nat
        /\ \A i \in 2..(Len(s) + 1) : t[i] = s[i - 1]
    BY Pushed
  <1> HIDE DEF t
  <1>2. SUFFICES ASSUME NEW i \in 1..Len(t), NEW j \in 1..Len(t), i < j
                 PROVE  MayWait(a, t[i], t[j])
    BY DEF Waiting, t
  <1>3. j - 1 \in 1..Len(s) /\ t[j] = s[j - 1]
    BY <1>1, <1>2
  <1>4. CASE i = 1
    <2>1. s[j - 1] \in TypedFrame /\ Contains(s, s[j - 1])
      BY <1>3 DEF Contains
    <2> QED
      BY <1>1, <1>3, <1>4, <2>1
  <1>5. CASE i # 1
    <2>1. i - 1 \in 1..Len(s) /\ t[i] = s[i - 1] /\ i - 1 < j - 1
      BY <1>1, <1>2, <1>5
    <2> QED
      BY <1>3, <2>1 DEF Waiting
  <1> QED
    BY <1>4, <1>5

LEMMA WaitingPop ==
  ASSUME NEW a, NEW s \in Seq(TypedFrame), Waiting(a, s), s # <<>>
  PROVE  /\ Waiting(a, Tail(s))
         /\ \A g \in TypedFrame : Contains(Tail(s), g) => MayWait(a, Head(s), g)
  <1> DEFINE t == Tail(s)
  <1>1. /\ t \in Seq(TypedFrame) /\ Len(s) = Len(t) + 1 /\ Len(t) \in Nat /\ Head(s) = s[1]
        /\ \A i \in 1..Len(t) : t[i] = s[i + 1]
    BY Popped
  <1> HIDE DEF t
  <1>2. ASSUME NEW i \in 1..Len(t), NEW j \in 1..Len(t), i < j
        PROVE  MayWait(a, t[i], t[j])
    <2>1. i + 1 \in 1..Len(s) /\ j + 1 \in 1..Len(s) /\ i + 1 < j + 1
      BY <1>1, <1>2
    <2> QED
      BY <1>1, <2>1 DEF Waiting
  <1>3. ASSUME NEW g \in TypedFrame, Contains(t, g) PROVE MayWait(a, Head(s), g)
    <2>1. PICK j \in 1..Len(t) : t[j] = g
      BY <1>3 DEF Contains
    <2>2. 1 \in 1..Len(s) /\ j + 1 \in 1..Len(s) /\ 1 < j + 1
      BY <1>1
    <2> QED
      BY <1>1, <2>1, <2>2 DEF Waiting
  <1> QED
    BY <1>2, <1>3 DEF Waiting, t

\* A call that goes on is above and below the same calls.
LEMMA WaitingSwap ==
  ASSUME NEW a, NEW s \in Seq(TypedFrame), Waiting(a, s), s # <<>>,
         NEW f \in TypedFrame, f.op = Head(s).op, f.of = Head(s).of
  PROVE  Waiting(a, <<f>> \o Tail(s))
  <1>1. /\ Waiting(a, Tail(s)) /\ Tail(s) \in Seq(TypedFrame)
        /\ \A g \in TypedFrame : Contains(Tail(s), g) => MayWait(a, Head(s), g)
    BY WaitingPop, Popped
  <1>2. \A g \in TypedFrame : MayWait(a, Head(s), g) => MayWait(a, f, g)
    BY DEF MayWait, EventCall, EffectCall, MemoCall
  <1> QED
    BY <1>1, <1>2, WaitingPush

\* How the innermost call goes on, as f.
OnAs(f) ==
  /\ f \in TypedFrame /\ f.op = Top.op /\ f.of = Top.of
  /\ f.op = "visit" => CheckSource /\ Top.todo # <<>> /\ f.todo = Tail(Top.todo)
  /\ f.op = "flush" =>
       \/ FlushTake /\ f.todo = pending
       \/ FlushRun /\ Top.todo # <<>> /\ f.todo = Tail(Top.todo)
  /\ f.op = "dispose" /\ f.pc = 1 =>
       DisposeChild /\ Top.pc = 1 /\ Top.todo # <<>> /\ f.todo = Tail(Top.todo)
  /\ f.op = "dispose" /\ f.pc # 1 =>
       \/ TakeCleanups /\ f.todo = Reverse(scopes[Top.of].cleanups)
       \/ RunCleanup /\ Top.pc # 1 /\ Top.todo # <<>> /\ f.todo = Tail(Top.todo)

\* What is called above it.
Entered(h) ==
  /\ h \in TypedFrame
  /\ h.op = "visit" => h.todo \in {<<>>, sources[h.of]}
  /\ \/ /\ (GetStale /\ h.of = Arg) \/ (CheckSource /\ h.of = Head(Top.todo))
        /\ h.op = "visit" /\ IsMemo(h.of)
     \/ FlushRun /\ h.op = "visit" /\ h.of = Head(Top.todo) /\ h.of \in alive
     \/ Set /\ h.op = "flush" /\ h.todo = <<>> /\ depth = 0
     \/ Mount /\ h.op = "visit" /\ h.of = Arg
     \/ BuildBranch /\ h.op = "handler" /\ h.of = app.build[Arg]
     \/ /\ (Dispose /\ h.of = Arg) \/ (DisposeChild /\ h.of = Head(Top.todo))
        /\ h.op = "dispose" /\ h.pc = 1 /\ h.of \in Scope
        /\ scopes[h.of].alive /\ h.todo = scopes[h.of].children
     \/ RunCleanup /\ h.op = "handler" /\ h.of = Head(Top.todo)

Continues(f) == stack' = <<f>> \o Below

Enters(h, f) == stack' = <<h>> \o (<<f>> \o Below)

StepForm ==
  \/ stack' = stack
  \/ /\ stack # <<>> /\ stack' = Below /\ Top.op # "batch"
     /\ Top.op = "flush" => Top.todo = <<>> /\ pending = <<>>
  \/ stack # <<>> /\ \E f : OnAs(f) /\ Continues(f)
  \/ stack # <<>> /\ \E f, h : OnAs(f) /\ Entered(h) /\ Enters(h, f)
  \/ /\ Update /\ stack # <<>>
     /\ \E f, h \in TypedFrame :
          /\ f.op = "settle" /\ f.of = Top.of
          /\ Continues(f) \/ (Enters(h, f) /\ h.op = "run" /\ h.of = Top.of)
  \/ /\ HandlerReturns /\ stack # <<>> /\ Top.op = "batch" /\ Below = <<>>
     /\ \E h \in TypedFrame : Continues(h) /\ h.op = "flush" /\ h.todo = <<>>
  \/ /\ Event /\ stack = <<>>
     /\ \E h \in TypedFrame : /\ stack' = <<h>> \o stack /\ h.op \in {"handler", "batch"}
                              /\ h.of \in app.onEvent /\ (batched' <=> h.op = "batch")

\* Bringing a node up to date that is not Clean.
LEMMA VisitForm ==
  ASSUME NEW n, NEW s, state[n] \in NodeState, state[n] # "Clean", sources[n] \in Seq(Node)
  PROVE  \E t \in Seq(Node) : /\ Visit(n, s) = <<NewFrame("visit", n, t)>> \o s
                              /\ t \in {<<>>, sources[n]}
  <1>1. <<>> \in Seq(Node)
    OBVIOUS
  <1>2. CASE state[n] = "Check"
    <2>1. Visit(n, s) = <<NewFrame("visit", n, sources[n])>> \o s
      BY <1>2 DEF Visit
    <2> QED
      BY <2>1
  <1>3. CASE state[n] = "Dirty"
    <2>1. Visit(n, s) = <<NewFrame("visit", n, <<>>)>> \o s
      BY <1>3 DEF Visit
    <2> QED
      BY <1>1, <2>1
  <1> QED
    BY <1>2, <1>3 DEF NodeState

LEMMA TopOn ==
  ASSUME StackType(stack, depth), stack # <<>>
  PROVE  stack = <<Top>> \o Below /\ Top \in TypedFrame /\ Below \in Seq(TypedFrame)
  BY Popped DEF StackType, Top, Below

\* A closure goes on.
LEMMA OnInCode ==
  ASSUME StoreType, StackType(stack, depth), InCode
  PROVE  /\ OnAs(Top) /\ \A k \in Nat : OnAs(Skipping(k))
         /\ \A k \in Nat, v \in Value : OnAs([Skipping(k) EXCEPT !.acc = v])
  <1>1. Top \in TypedFrame /\ Top.op \in {"run", "handler", "batch"}
    BY CodeFacts
  <1> QED
    BY <1>1, SkippingSame DEF OnAs

LEMMA FormReads ==
  ASSUME StoreType, StackType(stack, depth), Get \/ Peek \/ BuildMounted \/ Jump
  PROVE  stack # <<>> /\ (stack' = stack \/ \E f : OnAs(f) /\ Continues(f))
  <1>1. InCode
    BY DEF Get, Peek, BuildMounted, Jump, Doing
  <1>2. stack # <<>> /\ \A k \in Nat, v \in Value : OnAs([Skipping(k) EXCEPT !.acc = v])
    BY <1>1, OnInCode, CodeFacts
  <1>3. \/ stack' = stack
        \/ \E k \in Nat, v \in Value : Moved(k, v)
    <2>1. Doing("ifzero") => Code[Top.pc].skip \in Nat
      BY DoingFacts DEF Instr
    <2>2. Len(Code) \in Nat /\ 0 \in Nat /\ 0 \in Value /\ Top.acc \in Value
      BY <1>1, ZeroIsValue, CodeFacts
    <2>3. \A v, w \in Value : Add(v, w) \in Value
      BY AddType
    <2>4. CASE Get \/ Peek
      BY <2>2, <2>3, <2>4, Moves
    <2>5. CASE BuildMounted
      BY <2>2, <2>5, Moves
    <2>6. CASE Jump
      <3>1. CASE Doing("ifzero") /\ Moved(IF Top.acc = 0 THEN Code[Top.pc].skip ELSE 0, Top.acc)
        <4>1. (IF Top.acc = 0 THEN Code[Top.pc].skip ELSE 0) \in Nat
          BY <2>1, <2>2, <3>1
        <4> QED
          BY <2>2, <3>1, <4>1
      <3> QED
        BY <2>2, <2>6, <3>1, Moves
    <2> QED
      BY <2>4, <2>5, <2>6
  <1> QED
    BY <1>2, <1>3 DEF Moved, Continues

LEMMA FormSet ==
  ASSUME StoreType, StackType(stack, depth), Set
  PROVE  /\ stack # <<>>
         /\ (\E f : OnAs(f) /\ Continues(f)) \/ (\E f, h : OnAs(f) /\ Entered(h) /\ Enters(h, f))
  <1> DEFINE h == NewFrame("flush", None, <<>>)
             f == Skipping(0)
  <1>1. InCode /\ (stack' = <<f>> \o Below \/ (depth = 0 /\ stack' = <<h>> \o (<<f>> \o Below)))
    BY DEF Set, Doing, Flush, Advanced
  <1>2. stack # <<>> /\ OnAs(f)
    BY <1>1, OnInCode, CodeFacts
  <1>3. h \in TypedFrame /\ h.op = "flush" /\ h.todo = <<>>
    BY NewFrames DEF NewFrame
  <1> HIDE DEF h, f
  <1> QED
    BY <1>1, <1>2, <1>3 DEF Continues, Enters, Entered

LEMMA FormCode ==
  ASSUME StoreType, StackType(stack, depth), SignalsClean, Shape(app, stack, observer),
         GetStale \/ Mount \/ BuildBranch
  PROVE  stack # <<>> /\ \E f, h : OnAs(f) /\ Entered(h) /\ Enters(h, f)
  <1>1. InCode /\ stack # <<>>
    BY CodeFacts DEF GetStale, Mount, BuildBranch, Doing
  <1>2. OnAs(Top) /\ OnAs(Skipping(0))
    BY <1>1, OnInCode
  <1>3. CASE GetStale
    <2>1. Arg \in Node /\ ~IsEffect(Arg) /\ state[Arg] # "Clean" /\ stack' = Visit(Arg, stack)
      BY <1>3, Reads DEF GetStale
    <2>2. ~IsSignal(Arg) /\ state[Arg] \in NodeState /\ sources[Arg] \in Seq(Node)
      BY <2>1 DEF SignalsClean, StoreType
    <2>3. IsMemo(Arg)
      BY <2>1, <2>2, AppAssumption DEF StoreType, IsMemo, IsEffect, IsSignal
    <2>4. \E t \in Seq(Node) : /\ Visit(Arg, stack) = <<NewFrame("visit", Arg, t)>> \o stack
                              /\ t \in {<<>>, sources[Arg]}
      BY <2>1, <2>2, VisitForm
    <2>5. PICK t \in Seq(Node) : /\ stack' = <<NewFrame("visit", Arg, t)>> \o stack
                               /\ t \in {<<>>, sources[Arg]}
      BY <2>1, <2>4
    <2> DEFINE h == NewFrame("visit", Arg, t)
    <2>6. /\ h \in TypedFrame /\ h.op = "visit" /\ h.of = Arg
          /\ h.todo \in {<<>>, sources[h.of]}
      BY <2>1, <2>5, NewFrames DEF NewFrame
    <2>7. stack' = <<h>> \o stack
      BY <2>5
    <2> HIDE DEF h
    <2>8. stack = <<Top>> \o Below
      BY <1>1, TopOn
    <2>9. Enters(h, Top)
      BY <2>7, <2>8 DEF Enters
    <2>10. Entered(h)
      BY <1>3, <2>3, <2>6 DEF Entered
    <2> QED
      BY <1>1, <1>2, <2>9, <2>10
  <1>4. CASE Mount
    <2> DEFINE h == NewFrame("visit", Arg, <<>>)
    <2>1. Arg \in Node /\ stack' = <<h>> \o (<<Skipping(0)>> \o Below)
      BY <1>4, DoingFacts DEF Mount, WellTyped, Advanced
    <2>2. h \in TypedFrame /\ h.op = "visit" /\ h.of = Arg /\ h.todo = <<>>
      BY <2>1, NewFrames DEF NewFrame
    <2> HIDE DEF h
    <2> QED
      BY <1>1, <1>2, <1>4, <2>1, <2>2 DEF Entered, Enters
  <1>5. CASE BuildBranch
    <2> DEFINE h == NewFrame("handler", app.build[Arg], <<>>)
    <2>1. Arg \in Scope /\ stack' = <<h>> \o (<<Skipping(0)>> \o Below)
      BY <1>5, DoingFacts DEF BuildBranch, WellTyped, Advanced
    <2>2. h \in TypedFrame /\ h.op = "handler"
      BY <2>1, ScopeTypes, OtherFrames
    <2>3. h.of = app.build[Arg]
      BY DEF NewFrame
    <2> HIDE DEF h
    <2> QED
      BY <1>1, <1>2, <1>5, <2>1, <2>2, <2>3 DEF Entered, Enters
  <1> QED
    BY <1>3, <1>4, <1>5

LEMMA FormDisposes ==
  ASSUME StoreType, StackType(stack, depth),
         Dispose \/ DisposeChild \/ TakeCleanups \/ RunCleanup
  PROVE  /\ stack # <<>>
         /\ (\E f : OnAs(f) /\ Continues(f)) \/ (\E f, h : OnAs(f) /\ Entered(h) /\ Enters(h, f))
  <1>1. CASE Dispose
    <2> DEFINE h == DisposeFrame(Arg)
               f == Skipping(0)
    <2>1. /\ Arg \in Scope /\ InCode /\ scopes[Arg].children \in Seq(Scope)
          /\ \/ stack' = <<f>> \o Below
             \/ scopes[Arg].alive /\ stack' = <<h>> \o (<<f>> \o Below)
      BY <1>1, DoingFacts, ScopeTypes DEF Dispose, WellTyped, CallDispose, Advanced
    <2>2. stack # <<>> /\ OnAs(f)
      BY <2>1, OnInCode, CodeFacts
    <2>3. /\ h \in TypedFrame /\ h.op = "dispose" /\ h.pc = 1
          /\ h.of = Arg /\ h.todo = scopes[Arg].children
      BY <2>1, NewFrames DEF DisposeFrame, NewFrame
    <2> HIDE DEF h, f
    <2> QED
      BY <1>1, <2>1, <2>2, <2>3 DEF Continues, Enters, Entered
  <1>2. CASE DisposeChild
    <2> DEFINE f == [Top EXCEPT !.todo = Tail(Top.todo)]
               k == Head(Top.todo)
               h == DisposeFrame(k)
    <2>1. /\ stack # <<>> /\ Top.op = "dispose" /\ Top.pc = 1 /\ Top.todo # <<>>
          /\ \/ stack' = <<f>> \o Below
             \/ scopes[k].alive /\ stack' = <<h>> \o (<<f>> \o Below)
      BY <1>2 DEF DisposeChild, At, CallDispose
    <2>2. Top \in TypedFrame /\ Top.todo \in Seq(Scope)
      BY <2>1, DisposeTop
    <2>3. Tail(Top.todo) \in Seq(Scope) /\ k \in Scope
      BY <2>1, <2>2
    <2>4. f \in TypedFrame /\ f.op = Top.op /\ f.of = Top.of
      BY <2>1, <2>2, <2>3, FrameGoesOn, FrameSame
    <2>5. f.pc = 1 /\ f.todo = Tail(Top.todo) /\ k = Head(Top.todo)
      BY <2>1, <2>2 DEF TypedFrame, Frame
    <2> HIDE DEF k
    <2>6. /\ h \in TypedFrame /\ h.op = "dispose" /\ h.pc = 1
          /\ h.of = k /\ h.todo = scopes[k].children
      BY <2>3, ScopeTypes, NewFrames DEF DisposeFrame, NewFrame
    <2> HIDE DEF f, h
    <2>7. OnAs(f) /\ (scopes[k].alive => Entered(h))
      BY <1>2, <2>1, <2>3, <2>4, <2>5, <2>6 DEF OnAs, Entered
    <2> QED
      BY <2>1, <2>7 DEF Continues, Enters
  <1>3. CASE TakeCleanups
    <2> DEFINE t == Reverse(scopes[Top.of].cleanups)
               f == [Top EXCEPT !.pc = 2, !.todo = t]
    <2>1. stack # <<>> /\ Top.op = "dispose" /\ stack' = <<f>> \o Below
      BY <1>3 DEF TakeCleanups, At
    <2>2. Top \in TypedFrame /\ Top.of \in Scope
      BY <2>1, DisposeTop
    <2>3. t \in Seq(Handler)
      BY <2>2, ScopeTypes, ReversedList
    <2>4. t = Reverse(scopes[Top.of].cleanups)
      OBVIOUS
    <2> HIDE DEF t
    <2>6. f.pc = 2
      BY <2>2 DEF TypedFrame, Frame
    <2>5. f \in TypedFrame /\ f.op = Top.op /\ f.of = Top.of /\ f.todo = t
      <3>1. \A u \in Seq(Handler) : [Top EXCEPT !.pc = 2, !.todo = u] \in TypedFrame
        BY <2>1, <2>2, FrameGoesOn
      <3>2. f \in TypedFrame
        BY <2>3, <3>1
      <3>3. f.op = Top.op /\ f.of = Top.of /\ f.todo = t
        BY <2>2 DEF TypedFrame, Frame
      <3> QED
        BY <3>2, <3>3
    <2> HIDE DEF f
    <2>7. f.todo = Reverse(scopes[Top.of].cleanups)
      BY <2>4, <2>5
    <2>8. OnAs(f)
      BY <1>3, <2>1, <2>5, <2>6, <2>7 DEF OnAs
    <2>9. Continues(f)
      BY <2>1 DEF Continues
    <2> QED
      BY <2>1, <2>8, <2>9
  <1>4. CASE RunCleanup
    <2> DEFINE f == [Top EXCEPT !.todo = Tail(Top.todo)]
               k == Head(Top.todo)
               h == NewFrame("handler", k, <<>>)
    <2>1. stack # <<>> /\ Top.op = "dispose" /\ Top.pc = 2 /\ Top.todo # <<>>
          /\ stack' = <<h, f>> \o Below
      BY <1>4 DEF RunCleanup, At
    <2>2. Top \in TypedFrame /\ Top.todo \in Seq(Handler) /\ Top.pc # 1 /\ Below \in Seq(TypedFrame)
      BY <2>1, DisposeTop, TopOn
    <2>3. Tail(Top.todo) \in Seq(Handler) /\ k \in Handler
      BY <2>1, <2>2
    <2>4. f \in TypedFrame /\ f.op = Top.op /\ f.of = Top.of /\ f.todo = Tail(Top.todo)
      BY <2>1, <2>2, <2>3, FrameGoesOn, FrameSame
    <2>10. f.pc # 1
      BY <2>2 DEF TypedFrame, Frame
    <2>5. h \in TypedFrame /\ h.op = "handler" /\ h.of = k
      BY <2>3, OtherFrames DEF NewFrame
    <2>6. k = Head(Top.todo)
      OBVIOUS
    <2> HIDE DEF f, h, k
    <2>7. Enters(h, f)
      <3>0. h \in TypedFrame /\ f \in TypedFrame /\ Below \in Seq(TypedFrame)
        BY <2>2, <2>4, <2>5
      <3>1. <<h, f>> \o Below = <<h>> \o (<<f>> \o Below)
        BY <3>0, PushTwo
      <3> QED
        BY <2>1, <3>1 DEF Enters
    <2>8. OnAs(f)
      BY <1>4, <2>1, <2>2, <2>4, <2>10 DEF OnAs
    <2>9. Entered(h)
      BY <1>4, <2>5, <2>6 DEF Entered
    <2> QED
      BY <2>1, <2>7, <2>8, <2>9
  <1> QED
    BY <1>1, <1>2, <1>3, <1>4

LEMMA FormFlush ==
  ASSUME StoreType, StackType(stack, depth), FlushTake \/ FlushRun
  PROVE  /\ stack # <<>>
         /\ (\E f : OnAs(f) /\ Continues(f)) \/ (\E f, h : OnAs(f) /\ Entered(h) /\ Enters(h, f))
  <1>1. stack # <<>> /\ Top.op = "flush"
    BY DEF FlushTake, FlushRun, At
  <1>2. Top \in TypedFrame /\ Top.todo \in Seq(Node)
    BY <1>1, TopFacts, FrameFields
  <1>3. CASE FlushTake
    <2> DEFINE f == [Top EXCEPT !.todo = pending]
    <2>1. f \in TypedFrame /\ f.op = Top.op /\ f.of = Top.of /\ f.todo = pending
      BY <1>1, <1>2, TodoChanged DEF StoreType
    <2>2. stack' = <<f>> \o Below
      BY <1>3 DEF FlushTake
    <2> HIDE DEF f
    <2> QED
      BY <1>1, <1>3, <2>1, <2>2 DEF OnAs, Continues
  <1>4. CASE FlushRun
    <2> DEFINE f == [Top EXCEPT !.todo = Tail(Top.todo)]
               k == Head(Top.todo)
               s == <<f>> \o Below
    <2>1. Top.todo # <<>> /\ stack' = IF k \in alive THEN Visit(k, s) ELSE s
      BY <1>4 DEF FlushRun
    <2>2. Tail(Top.todo) \in Seq(Node) /\ k \in Node
      BY <1>2, <2>1
    <2>3. f \in TypedFrame /\ f.op = Top.op /\ f.of = Top.of /\ f.todo = Tail(Top.todo)
      BY <1>1, <1>2, <2>2, TodoChanged
    <2>4. state[k] \in NodeState /\ sources[k] \in Seq(Node)
      BY <2>2 DEF StoreType
    <2>5. k = Head(Top.todo)
      OBVIOUS
    <2> HIDE DEF f, k
    <2>6. OnAs(f)
      BY <1>1, <1>4, <2>1, <2>3 DEF OnAs
    <2>7. CASE k \in alive /\ state[k] # "Clean"
      <3>1. PICK t \in Seq(Node) : /\ Visit(k, s) = <<NewFrame("visit", k, t)>> \o s
                                 /\ t \in {<<>>, sources[k]}
        BY <2>4, <2>7, VisitForm
      <3> DEFINE h == NewFrame("visit", k, t)
      <3>2. h \in TypedFrame /\ h.op = "visit" /\ h.of = k /\ h.todo \in {<<>>, sources[k]}
        BY <2>2, <3>1, NewFrames DEF NewFrame
      <3>3. Visit(k, s) = <<h>> \o s
        BY <3>1
      <3> HIDE DEF h
      <3>4. Entered(h)
        BY <1>4, <2>5, <2>7, <3>2 DEF Entered
      <3>5. Enters(h, f)
        BY <2>1, <2>7, <3>3 DEF Enters
      <3> QED
        BY <1>1, <2>6, <3>4, <3>5
    <2>8. CASE ~(k \in alive /\ state[k] # "Clean")
      <3>1. Continues(f)
        BY <2>1, <2>8 DEF Visit, Continues
      <3> QED
        BY <1>1, <2>6, <3>1
    <2> QED
      BY <2>7, <2>8
  <1> QED
    BY <1>3, <1>4

LEMMA FormCheckSource ==
  ASSUME StoreType, StackType(stack, depth), SignalsClean, Shape(app, stack, observer), CheckSource
  PROVE  /\ stack # <<>>
         /\ (\E f : OnAs(f) /\ Continues(f)) \/ (\E f, h : OnAs(f) /\ Entered(h) /\ Enters(h, f))
  <1> DEFINE f == [Top EXCEPT !.todo = Tail(Top.todo)]
             k == Head(Top.todo)
             s == <<f>> \o Below
  <1>1. stack # <<>> /\ Top.op = "visit" /\ Top.todo # <<>> /\ stack' = Visit(k, s)
    BY DEF CheckSource, At
  <1>2. Top \in TypedFrame /\ Top.todo \in Seq(Node)
    BY <1>1, TopFacts, FrameFields
  <1>3. Tail(Top.todo) \in Seq(Node) /\ k \in Node
    BY <1>1, <1>2
  <1>4. ~IsEffect(k)
    <2>1. Top = stack[1] /\ 1 \in 1..Len(stack)
      BY <1>1, TopFacts DEF StackType
    <2>2. k = Top.todo[1] /\ 1 \in 1..Len(Top.todo)
      BY <1>1, <1>2
    <2> QED
      BY <1>1, <2>1, <2>2 DEF Shape, TodoOK, IsEffect
  <1>5. /\ f \in TypedFrame /\ f.op = "visit" /\ f.of = Top.of /\ f.todo = Tail(Top.todo)
        /\ k = Head(Top.todo)
    BY <1>1, <1>2, <1>3, TodoChanged
  <1>6. state[k] \in NodeState /\ sources[k] \in Seq(Node)
    BY <1>3 DEF StoreType
  <1>7. state[k] # "Clean" => IsMemo(k)
    BY <1>3, <1>4, AppAssumption DEF SignalsClean, StoreType, IsMemo, IsEffect, IsSignal
  <1> HIDE DEF f, k
  <1>8. OnAs(f)
    BY <1>1, <1>5 DEF OnAs
  <1>9. CASE state[k] = "Clean"
    <2>1. Continues(f)
      BY <1>1, <1>9 DEF Visit, Continues
    <2> QED
      BY <1>1, <1>8, <2>1
  <1>10. CASE state[k] # "Clean"
    <2>1. PICK t \in Seq(Node) : /\ Visit(k, s) = <<NewFrame("visit", k, t)>> \o s
                               /\ t \in {<<>>, sources[k]}
      BY <1>6, <1>10, VisitForm
    <2> DEFINE h == NewFrame("visit", k, t)
    <2>2. h \in TypedFrame /\ h.op = "visit" /\ h.of = k /\ h.todo \in {<<>>, sources[k]}
      BY <1>3, <2>1, NewFrames DEF NewFrame
    <2>3. Visit(k, s) = <<h>> \o s
      BY <2>1
    <2> HIDE DEF h
    <2>4. Entered(h)
      BY <1>5, <1>7, <1>10, <2>2 DEF Entered
    <2>5. Enters(h, f)
      BY <1>1, <2>3 DEF Enters
    <2> QED
      BY <1>1, <1>8, <2>4, <2>5
  <1> QED
    BY <1>9, <1>10

LEMMA FormUpdate ==
  ASSUME StoreType, StackType(stack, depth), Update
  PROVE  /\ stack # <<>>
         /\ \E f, h \in TypedFrame :
              /\ f.op = "settle" /\ f.of = Top.of
              /\ Continues(f) \/ (Enters(h, f) /\ h.op = "run" /\ h.of = Top.of)
  <1> DEFINE n == Top.of
             f == NewFrame("settle", n, <<>>)
             h == [NewFrame("run", n, <<>>) EXCEPT !.prev = observer]
  <1>1. /\ stack # <<>> /\ Top.op = "visit"
        /\ stack' = <<f>> \o Below \/ stack' = <<h>> \o (<<f>> \o Below)
    BY DEF Update, At
  <1>2. n \in Node /\ observer \in Node \cup {None}
    <2>1. observer \in Node \cup {None}
      BY DEF StoreType
    <2>2. Top \in TypedFrame /\ Top.op = "visit"
      BY <1>1, TopFacts
    <2> QED
      BY <2>1, <2>2, FrameFields
  <1>3. f \in TypedFrame /\ h \in TypedFrame
    BY <1>2, NewFrames
  <1>4. f.op = "settle" /\ f.of = n /\ h.op = "run" /\ h.of = n
    BY DEF NewFrame
  <1> HIDE DEF f, h
  <1>5. Continues(f) \/ Enters(h, f)
    BY <1>1 DEF Continues, Enters
  <1> QED
    BY <1>1, <1>3, <1>4, <1>5

LEMMA FormHandlerReturns ==
  ASSUME StoreType, StackType(stack, depth), HandlerReturns
  PROVE  /\ stack # <<>>
         /\ \/ Top.op = "handler" /\ stack' = Below
            \/ /\ Top.op = "batch" /\ Below = <<>>
               /\ \E h \in TypedFrame : Continues(h) /\ h.op = "flush" /\ h.todo = <<>>
  <1> DEFINE h == NewFrame("flush", None, <<>>)
  <1>1. /\ stack # <<>> /\ Top.op \in {"handler", "batch"} /\ depth' = LeftBatch(Top.op)
        /\ stack' = IF Top.op = "batch" /\ depth' = 0 THEN <<h>> \o Below ELSE Below
    BY DEF HandlerReturns, At
  <1>2. h \in TypedFrame /\ h.op = "flush" /\ h.todo = <<>>
    BY NewFrames DEF NewFrame
  <1> HIDE DEF h
  <1>3. CASE Top.op = "batch"
    <2>1. depth = 1 /\ Below = <<>>
      BY <1>1, <1>3, BatchIsLast
    <2>2. depth' = 0
      BY <1>1, <1>3, <2>1 DEF LeftBatch
    <2> QED
      BY <1>1, <1>2, <1>3, <2>1, <2>2 DEF Continues
  <1> QED
    BY <1>1, <1>3

LEMMA FormEvent ==
  ASSUME StoreType, StackType(stack, depth), Event
  PROVE  /\ stack = <<>>
         /\ \E h \in TypedFrame : /\ stack' = <<h>> \o stack /\ h.op \in {"handler", "batch"}
                                  /\ h.of \in app.onEvent /\ (batched' <=> h.op = "batch")
  <1>1. PICK e \in app.onEvent, v \in Value, op \in Calls : Dispatch(e, v, op)
    BY DEF Event
  <1> DEFINE f == [NewFrame(op, e, <<>>) EXCEPT !.acc = v]
  <1>2. stack = <<>> /\ stack' = <<f>> /\ (batched' <=> op = "batch")
    BY <1>1 DEF Dispatch
  <1>3. e \in Handler /\ op \in {"handler", "batch"}
    BY <1>1, AppAssumption, CallsAssumption DEF StoreType
  <1>4. f \in TypedFrame /\ f.op = op /\ f.of = e
    BY <1>3, NewFrames DEF NewFrame
  <1> HIDE DEF f
  <1>5. stack' = <<f>> \o stack
    BY <1>2, <1>4
  <1> QED
    BY <1>1, <1>2, <1>3, <1>4, <1>5

\* What every step does to the calls in progress.
LEMMA StepForms ==
  ASSUME TypeInv, CallsInv, [Next]_vars PROVE StepForm
  <1>0. StoreType /\ StackType(stack, depth) /\ SignalsClean /\ Shape(app, stack, observer)
    BY TypeInvParts DEF CallsInv
  <1>1. CASE Notify \/ Rest \/ UNCHANGED vars
    BY <1>1 DEF Notify, Rest, vars, StepForm
  <1>2. CASE Get \/ Peek \/ BuildMounted \/ Jump
    BY <1>0, <1>2, FormReads DEF StepForm
  <1>3. CASE Set
    BY <1>0, <1>3, FormSet DEF StepForm
  <1>4. CASE GetStale \/ Mount \/ BuildBranch
    BY <1>0, <1>4, FormCode DEF StepForm
  <1>5. CASE Dispose \/ DisposeChild \/ TakeCleanups \/ RunCleanup
    BY <1>0, <1>5, FormDisposes DEF StepForm
  <1>6. CASE FlushTake \/ FlushRun
    BY <1>0, <1>6, FormFlush DEF StepForm
  <1>7. CASE CheckSource
    BY <1>0, <1>7, FormCheckSource DEF StepForm
  <1>8. CASE Update
    BY <1>0, <1>8, FormUpdate DEF StepForm
  <1>9. CASE HandlerReturns
    BY <1>0, <1>9, FormHandlerReturns DEF StepForm
  <1>10. CASE Event
    BY <1>0, <1>10, FormEvent DEF StepForm
  <1>11. CASE CheckPassed \/ Settle \/ Return \/ FlushDone \/ DisposeNodes
    BY <1>11 DEF CheckPassed, Settle, Return, FlushDone, DisposeNodes, At, StepForm
  <1> QED
    BY <1>1, <1>2, <1>3, <1>4, <1>5, <1>6, <1>7, <1>8, <1>9, <1>10, <1>11 DEF Next, Step

\* The applications the batch is for.
Disciplined == OnlyHandlersWrite /\ HandlersOnlyWrite

\* Of what exists, nothing is in q twice.
Once(live, q) == \A i, j \in 1..Len(q) : i # j /\ q[i] = q[j] => q[i] \notin live

\* A batch is an event's, a cleanup is not an event's handler, and a round of a
\* flush has no living effect twice.
FrameOK(a, live, f) ==
  /\ f.op = "batch" => f.of \in a.onEvent
  /\ f.op = "dispose" /\ f.pc # 1 => \A h \in a.onEvent : ~Contains(f.todo, h)
  /\ f.op = "flush" => Once(live, f.todo)

\* A flush in progress is still to run n.
ToRun(s, n) == \E f \in TypedFrame : Contains(s, f) /\ f.op = "flush" /\ Contains(f.todo, n)

TurnsInv ==
  /\ Waiting(app, stack)
  /\ \A f \in TypedFrame : Contains(stack, f) => FrameOK(app, alive, f)
  /\ \A s \in Scope : \A h \in app.onEvent : ~Contains(scopes[s].cleanups, h)

\* No effect is brought up to date while a round still has to come to it.
OneTurn ==
  \A n \in Node : IsEffect(n) /\ ToRun(stack, n) => \A op \in Working : ~Called(stack, op, n)

Batching == \E h : Called(stack, "batch", h)

\* A flush looks for effects that were queued.
AwaitsRound == stack # <<>> /\ Top.op = "flush" /\ Top.todo = <<>>

\* An event's handler has just written, inside its batch or before its flush.
Writing == stack # <<>> /\ (Top.op = "batch" \/ AwaitsRound)

\* Marks are sent by a write of an event's handler, or by a memo.
AgendaInv ==
  /\ agenda # <<>> => Writing \/ (stack # <<>> /\ MemoCall(app, Top))
  /\ agenda # <<>> /\ AwaitsRound => ~batched
  /\ batched => \A f \in TypedFrame : Contains(stack, f) /\ EventCall(app, f) => f.op = "batch"

\* What is queued waits for the end of the batch, or for the flush on top.
QueueInv ==
  /\ \A n \in alive : IsEffect(n) /\ Contains(pending, n) =>
       (Batching \/ AwaitsRound) /\ state[n] # "Clean"
  /\ Once(alive, pending)

\* The same for the marks of effects as for those of memos: CallMarks,
\* StaleIsMarked, NoNewMarks and SourcesUpToDate.
EffectMarks ==
  \A n \in alive : IsEffect(n) =>
    /\ Called(stack, "visit", n) => state[n] # "Clean"
    /\ Called(stack, "settle", n) => state[n] = "Dirty"
    /\ Called(stack, "run", n) => state[n] = "Dirty"

StaleEffects ==
  \A n \in alive, m \in Node :
    IsEffect(n) /\ DependsOn(n, m) /\ state[m] # "Clean" => state[n] # "Clean" \/ Marked(agenda, n)

NoNewEffects ==
  ~Writing => \A n \in alive : IsEffect(n) /\ Marked(agenda, n) => state[n] # "Clean"

EffectSources ==
  \A n \in alive, m \in Node : IsEffect(n) /\ DependsOn(n, m) =>
    /\ Called(stack, "visit", n) =>
         state[m] = "Clean" \/ InProgress(stack, m) \/ state[n] = "Dirty" \/ ToVisit(stack, n, m)
    /\ Called(stack, "settle", n) => state[m] = "Clean" \/ InProgress(stack, m)

\* During an event that runs in a batch, no effect that is still to run has run.
BatchRuns ==
  batched => \A n \in Node : IsEffect(n) =>
    /\ runs[n] <= 1
    /\ Batching => runs[n] = 0
    /\ Called(stack, "visit", n) => runs[n] = 0
    /\ n \in alive /\ (Contains(pending, n) \/ ToRun(stack, n)) => runs[n] = 0

EffectsInv ==
  /\ TurnsInv /\ OneTurn /\ AgendaInv /\ QueueInv
  /\ EffectMarks /\ StaleEffects /\ NoNewEffects /\ EffectSources /\ BatchRuns

LEMMA CalledHolds ==
  ASSUME NEW s \in Seq(TypedFrame), NEW op, NEW n, Called(s, op, n)
  PROVE  \E g \in TypedFrame : Contains(s, g) /\ g.op = op /\ g.of = n
  <1>1. PICK i \in 1..Len(s) : s[i].op = op /\ s[i].of = n
    BY DEF Called
  <1>2. s[i] \in TypedFrame
    BY <1>1
  <1> QED
    BY <1>1, <1>2 DEF Contains

\* The innermost call and those below it.
LEMMA HeldFrames ==
  ASSUME StackType(stack, depth), stack # <<>>
  PROVE  /\ \A g : Contains(stack, g) <=> g = Top \/ Contains(Below, g)
         /\ \A g : Contains(stack, g) => g \in TypedFrame
         /\ \A g : Contains(Below, g) => g \in TypedFrame
         /\ \A g : \A f \in TypedFrame : Contains(<<f>> \o Below, g) <=> g = f \/ Contains(Below, g)
         /\ Waiting(app, stack) =>
              /\ Waiting(app, Below)
              /\ \A g : Contains(Below, g) => MayWait(app, Top, g)
  <1>1. stack \in Seq(TypedFrame) /\ Top = Head(stack) /\ Below = Tail(stack)
        /\ Below \in Seq(TypedFrame)
    BY TopOn DEF StackType, Top, Below
  <1>2. \A g : Contains(stack, g) <=> g = Top \/ Contains(Below, g)
    BY <1>1, HoldsPop
  <1>3. \A g : Contains(stack, g) \/ Contains(Below, g) => g \in TypedFrame
    BY <1>1, HoldsCalled
  <1>4. \A g : \A f \in TypedFrame : Contains(<<f>> \o Below, g) <=> g = f \/ Contains(Below, g)
    BY <1>1, HoldsPush
  <1>5. Waiting(app, stack) => /\ Waiting(app, Below)
                               /\ \A g \in TypedFrame : Contains(Below, g) => MayWait(app, Top, g)
    BY <1>1, WaitingPop
  <1> QED
    BY <1>2, <1>3, <1>4, <1>5

\* A handler of an event is the host's call: nothing is below it.
LEMMA EventIsLast ==
  ASSUME StackType(stack, depth), stack # <<>>, Waiting(app, stack), EventCall(app, Top)
  PROVE  Below = <<>> /\ \A g : Contains(stack, g) <=> g = Top
  <1>1. \A g : ~Contains(Below, g)
    BY HeldFrames DEF MayWait
  <1>2. Below = <<>>
    <2>1. Below \in Seq(TypedFrame)
      BY TopOn
    <2>2. SUFFICES ASSUME Below # <<>> PROVE FALSE
      OBVIOUS
    <2>3. 1 \in 1..Len(Below)
      BY <2>1, <2>2
    <2> QED
      BY <1>1, <2>3 DEF Contains
  <1> QED
    BY <1>1, <1>2, HeldFrames

\* Inside a batch, on top of it nothing but memos is brought up to date.
LEMMA BatchTop ==
  ASSUME StackType(stack, depth), stack # <<>>, TurnsInv
  PROVE  \A g : Contains(stack, g) /\ g.op = "batch" =>
           \/ Top.op = "batch" /\ g = Top /\ EventCall(app, Top)
           \/ MemoCall(app, Top)
  <1>1. \A g : Contains(Below, g) /\ g.op = "batch" => MemoCall(app, Top)
    BY HeldFrames DEF TurnsInv, MayWait
  <1>2. Top.op = "batch" => EventCall(app, Top)
    BY HeldFrames DEF TurnsInv, FrameOK, EventCall
  <1> QED
    BY <1>1, <1>2, HeldFrames

\* A flush is on top of nothing but the handler that wrote.
LEMMA FlushTop ==
  ASSUME StackType(stack, depth), stack # <<>>, TurnsInv, Top.op = "flush"
  PROVE  /\ \A g : Contains(stack, g) => g = Top \/ EventCall(app, g)
         /\ ~Batching
         /\ \A op \in Working : \A n : ~Called(stack, op, n)
  <1>1. \A g : Contains(stack, g) => g = Top \/ EventCall(app, g)
    BY HeldFrames DEF TurnsInv, MayWait
  <1>2. \A g : Contains(stack, g) => g.op # "batch"
    BY BatchTop DEF MemoCall, Working
  <1>3. stack \in Seq(TypedFrame)
    BY DEF StackType
  <1>4. \A op, n : Called(stack, op, n) => op \in {"flush", "handler"}
    BY <1>1, <1>2, <1>3, CalledHolds DEF EventCall
  <1> QED
    BY <1>1, <1>4 DEF Batching, Working

\* No effect is brought up to date inside a batch, nor when a flush looks for
\* effects.
LEMMA EffectsInTurn ==
  ASSUME StackType(stack, depth), TurnsInv, NEW n \in Node, IsEffect(n),
         NEW op \in Working, Called(stack, op, n)
  PROVE  ~Batching /\ ~AwaitsRound /\ ~Writing
  <1>0. stack \in Seq(TypedFrame)
    BY DEF StackType
  <1>1. PICK g \in TypedFrame : Contains(stack, g) /\ g.op = op /\ g.of = n
    BY <1>0, CalledHolds
  <1>2. stack # <<>>
    BY <1>1 DEF Contains
  <1>3. ~AwaitsRound
    BY <1>2, FlushTop DEF AwaitsRound
  <1>4. ASSUME Batching PROVE FALSE
    <2>1. PICK h : Called(stack, "batch", h)
      BY <1>4 DEF Batching
    <2>2. PICK k \in TypedFrame : Contains(stack, k) /\ k.op = "batch"
      BY <1>0, <2>1, CalledHolds
    <2>3. EventCall(app, k)
      BY <2>2 DEF TurnsInv, FrameOK, EventCall
    <2>4. PICK i \in 1..Len(stack) : stack[i] = g
      BY <1>1 DEF Contains
    <2>5. PICK j \in 1..Len(stack) : stack[j] = k
      BY <2>2 DEF Contains
    <2>6. i # j
      BY <1>1, <2>2, <2>4, <2>5 DEF Working
    <2>7. i < j \/ j < i
      BY <1>0, <2>4, <2>5, <2>6
    <2>8. CASE i < j
      <3>1. MayWait(app, g, k)
        BY <2>4, <2>5, <2>8 DEF TurnsInv, Waiting
      <3> QED
        BY <1>1, <2>2, <3>1 DEF MayWait, MemoCall, IsEffect
    <2>9. CASE j < i
      <3>1. MayWait(app, k, g)
        BY <2>4, <2>5, <2>9 DEF TurnsInv, Waiting
      <3> QED
        BY <2>3, <3>1 DEF MayWait
    <2> QED
      BY <2>7, <2>8, <2>9
  <1>5. ~Writing
    <2>1. ASSUME Top.op = "batch" PROVE Batching
      <3>1. Contains(stack, Top)
        BY <1>2, HeldFrames
      <3>2. Called(stack, Top.op, Top.of)
        BY <1>0, <3>1, HoldsCalled
      <3> QED
        BY <2>1, <3>2 DEF Batching
    <2> QED
      BY <1>3, <1>4, <2>1 DEF Writing
  <1> QED
    BY <1>3, <1>4, <1>5

\* What the closures of such an application may do.
LEMMA DisciplinedCode ==
  ASSUME StoreType, StackType(stack, depth), Disciplined
  PROVE  /\ Doing("set") => EventCall(app, Top)
         /\ Doing("mount") \/ Doing("build") \/ Doing("dispose") => ~EventCall(app, Top)
         /\ \A s \in Scope : app.build[s] \notin app.onEvent
         /\ \A s \in Scope, h \in app.onEvent : ~Contains(app.cleanups[s], h)
  <1>1. /\ app.build \in [Scope -> Handler] /\ app.cleanups \in [Scope -> Seq(Handler)]
        /\ app.onEvent \subseteq Handler
    BY AppAssumption DEF StoreType
  <1>2. ASSUME Doing("set") PROVE EventCall(app, Top)
    <2>1. /\ InCode /\ Top.pc \in DOMAIN Code /\ Code[Top.pc].do = "set"
      BY <1>2, DoingFacts
    <2>2. /\ Top.of \in Node \cup Handler /\ Top.op \in {"run", "handler", "batch"}
          /\ Top.op = "run" => Top.of \in Node
      BY <2>1, CodeFacts
    <2>3. Top.of \in app.onEvent
      BY <2>1, <2>2 DEF Disciplined, OnlyHandlersWrite, Code
    <2>4. Top.op # "run"
      BY <1>1, <2>2, <2>3, NamesAssumption
    <2> QED
      BY <2>2, <2>3, <2>4 DEF EventCall
  <1>3. ASSUME Doing("mount") \/ Doing("build") \/ Doing("dispose"), EventCall(app, Top) PROVE FALSE
    <2>1. Top.pc \in DOMAIN Code /\ Code[Top.pc].do \in {"mount", "build", "dispose"}
      BY <1>3, DoingFacts
    <2> QED
      BY <1>3, <2>1 DEF Disciplined, HandlersOnlyWrite, EventCall, Code
  <1>4. ASSUME NEW s \in Scope, app.build[s] \in app.onEvent PROVE FALSE
    <2>1. app.build[s] \in Range(app.build)
      BY <1>1 DEF Range
    <2> QED
      BY <1>4, <2>1 DEF Disciplined, HandlersOnlyWrite
  <1>5. ASSUME NEW s \in Scope, NEW h \in app.onEvent, Contains(app.cleanups[s], h) PROVE FALSE
    <2>1. app.cleanups[s] \in Seq(Handler)
      BY <1>1
    <2>2. h \in Range(app.cleanups[s])
      BY <1>5, <2>1 DEF Contains, Range
    <2> QED
      BY <1>5, <2>2 DEF Disciplined, HandlersOnlyWrite
  <1> QED
    BY <1>2, <1>3, <1>4, <1>5

\* What user code other than a read calls is not called inside a batch.
LEMMA NotInBatch ==
  ASSUME StoreType, StackType(stack, depth), TurnsInv, stack # <<>>,
         ~Pulls(app, Top), ~EventCall(app, Top)
  PROVE  \A g : Contains(stack, g) => g.op # "batch"
  BY BatchTop DEF Pulls

LEMMA EnteredWaits ==
  ASSUME TypeInv, CallsInv, Disciplined, TurnsInv, [Next]_vars, stack # <<>>,
         NEW h, Entered(h)
  PROVE  \A g \in TypedFrame : Contains(stack, g) => MayWait(app, h, g)
  <1>0. StoreType /\ StackType(stack, depth) /\ Shape(app, stack, observer)
    BY TypeInvParts DEF CallsInv
  <1>1. h \in TypedFrame
    BY DEF Entered
  <1>2. CASE (GetStale \/ CheckSource) /\ h.op = "visit" /\ IsMemo(h.of)
    BY <1>2 DEF MayWait, EventCall, EffectCall, MemoCall, Working, IsMemo
  <1>3. CASE FlushRun /\ h.op = "visit" /\ h.of = Head(Top.todo) /\ h.of \in alive
    <2>1. Top.op = "flush"
      BY <1>3 DEF FlushRun, At
    <2>2. \A g : Contains(stack, g) => g = Top \/ EventCall(app, g)
      BY <1>0, <2>1, FlushTop
    <2>3. \A g : Contains(stack, g) => g.op # "batch"
      BY <1>0, <2>1, BatchTop DEF MemoCall, Working
    <2> QED
      BY <1>3, <2>1, <2>2, <2>3 DEF MayWait, EventCall, EffectCall, MemoCall, Working
  <1>4. CASE Set /\ h.op = "flush" /\ h.todo = <<>> /\ depth = 0
    <2>1. EventCall(app, Top)
      BY <1>0, <1>4, DisciplinedCode DEF Set
    <2>2. \A g : Contains(stack, g) <=> g = Top
      BY <1>0, <2>1, EventIsLast DEF TurnsInv
    <2>3. Top.op # "batch"
      BY <1>0, <1>4, BatchIsLast
    <2> QED
      BY <1>4, <2>1, <2>2, <2>3 DEF MayWait, EventCall, EffectCall, Working
  <1>5. CASE Mount /\ h.op = "visit" /\ h.of = Arg
    <2>1. Doing("mount") /\ Fresh(Arg)
      BY <1>5 DEF Mount
    <2>2. ~EventCall(app, Top) /\ ~Pulls(app, Top)
      BY <1>0, <2>1, DisciplinedCode, NotPulling
    <2>3. \A g : Contains(stack, g) => g.op # "batch"
      BY <1>0, <2>2, NotInBatch
    <2>4. \A g : Contains(stack, g) => g.of # Arg
      BY <1>0, <2>1 DEF Contains, Fresh, StackType
    <2> QED
      BY <1>5, <2>3, <2>4 DEF MayWait, EventCall, EffectCall, Working
  <1>6. CASE BuildBranch /\ h.op = "handler" /\ h.of = app.build[Arg]
    <2>1. Doing("build") /\ Arg \in Scope
      BY <1>0, <1>6, DoingFacts DEF BuildBranch, WellTyped
    <2>2. ~EventCall(app, Top) /\ ~Pulls(app, Top) /\ h.of \notin app.onEvent
      BY <1>0, <1>6, <2>1, DisciplinedCode, NotPulling
    <2>3. \A g : Contains(stack, g) => g.op # "batch"
      BY <1>0, <2>2, NotInBatch
    <2> QED
      BY <1>6, <2>2, <2>3 DEF MayWait, EventCall, EffectCall, Working
  <1>7. CASE (Dispose \/ DisposeChild) /\ h.op = "dispose"
    <2>1. ~EventCall(app, Top) /\ ~Pulls(app, Top)
      <3>1. CASE Dispose
        BY <1>0, <3>1, DisciplinedCode, NotPulling DEF Dispose
      <3>2. CASE DisposeChild
        BY <3>2 DEF DisposeChild, At, EventCall, Pulls, MemoCall, Working
      <3> QED
        BY <1>7, <3>1, <3>2
    <2>2. \A g : Contains(stack, g) => g.op # "batch"
      BY <1>0, <2>1, NotInBatch
    <2> QED
      BY <1>7, <2>2 DEF MayWait, EventCall, EffectCall, Working
  <1>8. CASE RunCleanup /\ h.op = "handler" /\ h.of = Head(Top.todo)
    <2>1. Top.op = "dispose" /\ Top.pc = 2 /\ Top.todo # <<>>
      BY <1>8 DEF RunCleanup, At
    <2>2. ~EventCall(app, Top) /\ ~Pulls(app, Top)
      BY <2>1 DEF EventCall, Pulls, MemoCall, Working
    <2>3. \A g : Contains(stack, g) => g.op # "batch"
      BY <1>0, <2>2, NotInBatch
    <2>4. h.of \notin app.onEvent
      <3>1. Top \in TypedFrame /\ Contains(stack, Top)
        BY <1>0, HeldFrames
      <3>2. \A e \in app.onEvent : ~Contains(Top.todo, e)
        BY <2>1, <3>1 DEF TurnsInv, FrameOK
      <3>3. Top.todo \in Seq(Handler)
        BY <1>0, <2>1, DisposeTop
      <3>4. 1 \in 1..Len(Top.todo) /\ h.of = Top.todo[1]
        BY <1>8, <2>1, <3>3
      <3> QED
        BY <3>2, <3>4 DEF Contains
    <2> QED
      BY <1>8, <2>3, <2>4 DEF MayWait, EventCall, EffectCall, Working
  <1> QED
    BY <1>2, <1>3, <1>4, <1>5, <1>6, <1>7, <1>8 DEF Entered

LEMMA WaitingStep ==
  ASSUME TypeInv, CallsInv, Disciplined, TurnsInv, [Next]_vars
  PROVE  Waiting(app', stack')
  <1>0. StoreType /\ StackType(stack, depth) /\ stack \in Seq(TypedFrame) /\ app' = app
    BY TypeInvParts, LinksOKStep DEF StackType
  <1>1. Waiting(app, stack)
    BY DEF TurnsInv
  <1>2. stack # <<>> =>
          /\ Below \in Seq(TypedFrame) /\ Waiting(app, Below)
          /\ \A g : Contains(Below, g) => MayWait(app, Top, g)
          /\ \A g : Contains(stack, g) <=> g = Top \/ Contains(Below, g)
          /\ \A g : \A f \in TypedFrame : Contains(<<f>> \o Below, g) <=> g = f \/ Contains(Below, g)
    BY <1>0, <1>1, HeldFrames, TopOn
  <1>3. \A f : stack # <<>> /\ OnAs(f) => f \in TypedFrame /\ Waiting(app, <<f>> \o Below)
    BY <1>0, <1>1, WaitingSwap DEF OnAs, Top, Below
  <1>4. CASE \/ stack' = stack
             \/ stack # <<>> /\ stack' = Below
             \/ stack # <<>> /\ \E f : OnAs(f) /\ Continues(f)
    BY <1>0, <1>1, <1>2, <1>3, <1>4 DEF Continues
  <1>5. CASE stack # <<>> /\ \E f, h : OnAs(f) /\ Entered(h) /\ Enters(h, f)
    <2>1. PICK f, h : OnAs(f) /\ Entered(h) /\ Enters(h, f)
      BY <1>5
    <2> DEFINE s == <<f>> \o Below
    <2>2. /\ f \in TypedFrame /\ h \in TypedFrame /\ Waiting(app, s) /\ s \in Seq(TypedFrame)
          /\ stack' = <<h>> \o s
          /\ \A g : Contains(s, g) <=> g = f \/ Contains(Below, g)
      BY <1>2, <1>3, <1>5, <2>1, Pushed DEF Entered, Enters
    <2> HIDE DEF s
    <2>3. \A g \in TypedFrame : Contains(stack, g) => MayWait(app, h, g)
      BY <1>5, <2>1, EnteredWaits
    <2>4. MayWait(app, h, Top) => MayWait(app, h, f)
      BY <2>1 DEF MayWait, EventCall, EffectCall, OnAs
    <2>5. \A g \in TypedFrame : Contains(s, g) => MayWait(app, h, g)
      BY <1>0, <1>2, <1>5, <2>2, <2>3, <2>4, TopOn
    <2> QED
      BY <1>0, <2>2, <2>5, WaitingPush
  <1>6. CASE stack # <<>> /\ \E f, h \in TypedFrame :
               /\ Update /\ f.op = "settle" /\ f.of = Top.of
               /\ Continues(f) \/ (Enters(h, f) /\ h.op = "run" /\ h.of = Top.of)
    <2>1. PICK f \in TypedFrame, h \in TypedFrame :
               /\ Update /\ f.op = "settle" /\ f.of = Top.of
               /\ Continues(f) \/ (Enters(h, f) /\ h.op = "run" /\ h.of = Top.of)
      BY <1>6
    <2> DEFINE s == <<f>> \o Below
    <2>2. Top.op = "visit"
      BY <2>1 DEF Update, At
    <2>3. \A g : MayWait(app, Top, g) => MayWait(app, f, g)
      BY <2>1, <2>2 DEF MayWait, EventCall, EffectCall, MemoCall, Working
    <2>4. /\ Waiting(app, s) /\ s \in Seq(TypedFrame)
          /\ \A g : Contains(s, g) <=> g = f \/ Contains(Below, g)
      BY <1>2, <1>6, <2>1, <2>3, WaitingPush, Pushed
    <2>5. Continues(f) => stack' = s
      BY DEF Continues
    <2>6. Enters(h, f) => stack' = <<h>> \o s
      BY DEF Enters
    <2> HIDE DEF s
    <2>7. CASE Continues(f)
      BY <1>0, <2>4, <2>5, <2>7
    <2>8. CASE Enters(h, f) /\ h.op = "run" /\ h.of = Top.of
      <3>1. \A g : MayWait(app, Top, g) => MayWait(app, h, g)
        BY <2>1, <2>2, <2>8 DEF MayWait, EventCall, EffectCall, MemoCall, Working
      <3>2. MayWait(app, h, f)
        BY <2>1, <2>8 DEF MayWait, EventCall
      <3>3. \A g \in TypedFrame : Contains(s, g) => MayWait(app, h, g)
        BY <1>2, <1>6, <2>4, <3>1, <3>2
      <3> QED
        BY <1>0, <2>4, <2>6, <2>8, <3>3, WaitingPush
    <2> QED
      BY <2>1, <2>7, <2>8
  <1>7. ASSUME NEW s \in Seq(TypedFrame), s = <<>>, NEW h \in TypedFrame, stack' = <<h>> \o s
        PROVE  Waiting(app, stack')
    <2>1. Waiting(app, s) /\ \A g : ~Contains(s, g)
      BY <1>7 DEF Waiting, Contains
    <2> QED
      BY <1>7, <2>1, WaitingPush
  <1>8. CASE /\ stack # <<>> /\ Below = <<>>
             /\ \E h \in TypedFrame : Continues(h) /\ h.op = "flush" /\ h.todo = <<>>
    BY <1>0, <1>2, <1>7, <1>8 DEF Continues
  <1>9. CASE stack = <<>> /\ \E h \in TypedFrame : stack' = <<h>> \o stack
    BY <1>0, <1>7, <1>9
  <1> QED
    BY <1>4, <1>5, <1>6, <1>8, <1>9, StepForms DEF StepForm

LEMMA OnceFacts ==
  ASSUME NEW T, NEW q \in Seq(T), NEW live, Once(live, q)
  PROVE  /\ q # <<>> => /\ Once(live, Tail(q))
                        /\ Head(q) \in live => ~Contains(Tail(q), Head(q))
         /\ \A x : q # <<>> => (Contains(q, x) <=> x = Head(q) \/ Contains(Tail(q), x))
         /\ \A x \in T : (x \in live => ~Contains(q, x)) => Once(live, Append(q, x))
         /\ \A new : (\A x : x \in new /\ x \notin live => ~Contains(q, x)) => Once(new, q)
  <1>1. ASSUME q # <<>>
        PROVE  /\ Once(live, Tail(q)) /\ (Head(q) \in live => ~Contains(Tail(q), Head(q)))
               /\ \A x : Contains(q, x) <=> x = Head(q) \/ Contains(Tail(q), x)
    <2> DEFINE t == Tail(q)
    <2>1. /\ t \in Seq(T) /\ Len(q) = Len(t) + 1 /\ Head(q) = q[1] /\ Len(t) \in Nat
          /\ \A i \in 1..Len(t) : t[i] = q[i + 1]
      BY <1>1, Popped
    <2> HIDE DEF t
    <2>2. 1 \in 1..Len(q) /\ \A i \in 1..Len(t) : i + 1 \in 1..Len(q) /\ i + 1 # 1
      BY <2>1
    <2>3. \A i \in 1..Len(q) : i = 1 \/ (i - 1 \in 1..Len(t) /\ t[i - 1] = q[i])
      BY <2>1
    <2>4. \A i, j \in 1..Len(t) : i # j => i + 1 # j + 1
      BY <2>1
    <2>5. Once(live, t)
      BY <2>1, <2>2, <2>4 DEF Once
    <2>6. Head(q) \in live => ~Contains(t, Head(q))
      BY <2>1, <2>2 DEF Once, Contains
    <2>7. \A x : Contains(q, x) <=> x = Head(q) \/ Contains(t, x)
      BY <2>1, <2>2, <2>3 DEF Contains
    <2> QED
      BY <2>5, <2>6, <2>7 DEF t
  <1>2. ASSUME NEW x \in T, x \in live => ~Contains(q, x) PROVE Once(live, Append(q, x))
    <2> DEFINE u == Append(q, x)
    <2>1. /\ Len(u) = Len(q) + 1 /\ u[Len(q) + 1] = x /\ Len(q) \in Nat
          /\ \A i \in 1..Len(q) : u[i] = q[i]
      OBVIOUS
    <2> HIDE DEF u
    <2>2. \A i \in 1..Len(u) : i \in 1..Len(q) \/ i = Len(q) + 1
      BY <2>1
    <2>3. \A i, j \in 1..Len(u) : i # j /\ u[i] = u[j] => u[i] \notin live
      BY <1>2, <2>1, <2>2 DEF Once, Contains
    <2> QED
      BY <2>3 DEF Once, u
  <1>3. ASSUME NEW new, \A x : x \in new /\ x \notin live => ~Contains(q, x) PROVE Once(new, q)
    BY <1>3 DEF Once, Contains
  <1> QED
    BY <1>1, <1>2, <1>3

\* A node that comes into existence is not referred to.
LEMMA NewNodes ==
  ASSUME TypeInv, [Next]_vars, NEW n \in alive', n \notin alive
  PROVE  /\ n \in Node /\ Fresh(n) /\ (Mount \/ BuildBranch)
         /\ ~Contains(pending, n)
         /\ \A f : Contains(stack, f) => ~Contains(f.todo, n) /\ f.of # n
  <1>0. StoreType /\ StackType(stack, depth)
    BY TypeInvParts
  <1>1. Mount \/ BuildBranch
    BY DEF Next, Step, Notify, CheckSource, CheckPassed, Update, Return, Settle, FlushTake, FlushRun,
           FlushDone, GetStale, Get, Peek, Set, BuildMounted, Jump, HandlerReturns, Dispose,
           DisposeChild, CallDispose, TakeCleanups, RunCleanup, DisposeNodes, Event, Dispatch, Rest,
           OnlyTheStack, graph, vars
  <1>2. n \in Node /\ Fresh(n)
    <2>1. CASE Mount
      BY <1>0, <2>1, DoingFacts DEF Mount, WellTyped
    <2>2. CASE BuildBranch
      BY <2>2 DEF BuildBranch, Owned
    <2> QED
      BY <1>1, <2>1, <2>2
  <1>3. pending \in Seq(Node) /\ stack \in Seq(TypedFrame)
    BY <1>0 DEF StoreType, StackType
  <1>4. ~Contains(pending, n)
    BY <1>2, <1>3 DEF Fresh, Contains, Range
  <1>5. \A f : Contains(stack, f) => ~Contains(f.todo, n) /\ f.of # n
    BY <1>2, <1>3 DEF Fresh, Contains
  <1> QED
    BY <1>1, <1>2, <1>4, <1>5

LEMMA ReversedItems ==
  ASSUME NEW T, NEW s \in Seq(T), NEW x
  PROVE  Contains(Reverse(s), x) => Contains(s, x)
  <1>1. Len(s) \in Nat /\ DOMAIN s = 1..Len(s)
    OBVIOUS
  <1>2. Len(Reverse(s)) = Len(s) /\ \A i \in 1..Len(s) : Reverse(s)[i] = s[Len(s) - i + 1]
    BY <1>1 DEF Reverse
  <1>3. \A i \in 1..Len(s) : Len(s) - i + 1 \in 1..Len(s)
    BY <1>1
  <1> QED
    BY <1>2, <1>3 DEF Contains

LEMMA CleanupsStep ==
  ASSUME TypeInv, [Next]_vars, NEW s \in Scope
  PROVE  scopes'[s].cleanups \in {scopes[s].cleanups, app.cleanups[s], <<>>}
  <1>0. StoreType /\ StackType(stack, depth) /\ scopes \in [Scope -> ScopeRecord]
    BY TypeInvParts DEF StoreType
  <1>r. \A t \in Scope : scopes[t] \in ScopeRecord
    BY <1>0
  <1>1. CASE BuildBranch
    <2>1. scopes'[s] = IF s = Arg THEN [alive |-> TRUE, children |-> <<>>, cleanups |-> app.cleanups[Arg]]
                       ELSE IF s # app.parent[Arg] THEN scopes[s]
                       ELSE [scopes[s] EXCEPT !.children = Append(@, Arg)]
      BY <1>1 DEF BuildBranch
    <2> QED
      BY <1>r, <2>1 DEF ScopeRecord
  <1>2. ASSUME NEW t \in Scope, NEW rest, CallDispose(t, rest)
        PROVE  scopes'[s].cleanups = scopes[s].cleanups
    <2>1. scopes' \in {scopes, [scopes EXCEPT ![t].children = <<>>]}
      BY <1>2 DEF CallDispose
    <2>2. scopes'[s] \in {scopes[s], [scopes[s] EXCEPT !.children = <<>>]}
      BY <1>0, <2>1
    <2> QED
      BY <1>r, <2>2 DEF ScopeRecord
  <1>3. CASE Dispose
    BY <1>0, <1>2, <1>3, DoingFacts DEF Dispose, WellTyped
  <1>4. CASE DisposeChild
    <2>1. Top.op = "dispose" /\ Top.pc = 1 /\ Top.todo # <<>> /\ stack # <<>>
      BY <1>4 DEF DisposeChild, At
    <2>2. Head(Top.todo) \in Scope
      BY <1>0, <2>1, DisposeTop
    <2> QED
      BY <1>2, <1>4, <2>2 DEF DisposeChild
  <1>5. CASE TakeCleanups
    <2>1. scopes' = [scopes EXCEPT ![Top.of].cleanups = <<>>]
      BY <1>5 DEF TakeCleanups
    <2>2. scopes'[s] \in {scopes[s], [scopes[s] EXCEPT !.cleanups = <<>>]}
      BY <1>0, <2>1
    <2> QED
      BY <1>r, <2>2 DEF ScopeRecord
  <1>6. CASE DisposeNodes
    <2>1. \E x, y : scopes'[s] = [scopes[s] EXCEPT !.alive = x, !.children = y]
      BY <1>6 DEF DisposeNodes
    <2> QED
      BY <1>r, <2>1 DEF ScopeRecord
  <1>7. CASE ~(BuildBranch \/ Dispose \/ DisposeChild \/ TakeCleanups \/ DisposeNodes)
    <2>1. scopes' = scopes
      BY <1>7 DEF Next, Step, Notify, CheckSource, CheckPassed, Update, Return, Settle, FlushTake,
             FlushRun, FlushDone, GetStale, Get, Peek, Set, Mount, BuildMounted, Jump,
             HandlerReturns, RunCleanup, Event, Dispatch, Rest, OnlyTheStack, vars
    <2> QED
      BY <2>1
  <1> QED
    BY <1>1, <1>3, <1>4, <1>5, <1>6, <1>7

LEMMA OnAsOK ==
  ASSUME TypeInv, Disciplined, TurnsInv, Once(alive, pending), stack # <<>>, NEW f, OnAs(f)
  PROVE  FrameOK(app, alive, f)
  <1>0. StoreType /\ StackType(stack, depth) /\ pending \in Seq(Node)
    BY TypeInvParts DEF StoreType
  <1>1. Top \in TypedFrame /\ FrameOK(app, alive, Top)
    BY <1>0, HeldFrames DEF TurnsInv
  <1>2. f \in TypedFrame /\ f.op = Top.op /\ f.of = Top.of
    BY DEF OnAs
  <1>3. f.op = "batch" => f.of \in app.onEvent
    BY <1>1, <1>2 DEF FrameOK
  <1>4. ASSUME f.op = "dispose", f.pc # 1, NEW h \in app.onEvent PROVE ~Contains(f.todo, h)
    <2>1. CASE f.todo = Reverse(scopes[Top.of].cleanups)
      <3>1. Top.of \in Scope
        BY <1>1, <1>2, <1>4, FrameFields
      <3>2. scopes[Top.of].cleanups \in Seq(Handler) /\ ~Contains(scopes[Top.of].cleanups, h)
        BY <1>0, <3>1, ScopeTypes DEF TurnsInv
      <3> QED
        BY <2>1, <3>2, ReversedItems
    <2>2. CASE Top.pc # 1 /\ Top.todo # <<>> /\ f.todo = Tail(Top.todo)
      <3>1. ~Contains(Top.todo, h) /\ Top.todo \in Seq(Handler)
        BY <1>1, <1>2, <1>4, <2>2, FrameFields DEF FrameOK
      <3>2. \A i \in 1..Len(f.todo) : i + 1 \in 1..Len(Top.todo) /\ f.todo[i] = Top.todo[i + 1]
        BY <2>2, <3>1
      <3> QED
        BY <3>1, <3>2 DEF Contains
    <2> QED
      BY <1>4, <2>1, <2>2 DEF OnAs
  <1>5. ASSUME f.op = "flush" PROVE Once(alive, f.todo)
    <2>1. CASE FlushTake /\ f.todo = pending
      BY <2>1
    <2>2. CASE Top.todo # <<>> /\ f.todo = Tail(Top.todo)
      <3>1. Once(alive, Top.todo) /\ Top.todo \in Seq(Node)
        BY <1>1, <1>2, <1>5, FrameFields DEF FrameOK
      <3>2. Once(alive, Tail(Top.todo))
        BY <2>2, <3>1, OnceFacts
      <3> QED
        BY <2>2, <3>2
    <2> QED
      BY <1>5, <2>1, <2>2 DEF OnAs
  <1> QED
    BY <1>3, <1>4, <1>5 DEF FrameOK

\* Which calls there are after the innermost one goes on, and after another is
\* made above it.
LEMMA ContinuesHolds ==
  ASSUME StackType(stack, depth), stack # <<>>, NEW f \in TypedFrame, Continues(f)
  PROVE  \A g : Contains(stack', g) <=> g = f \/ Contains(Below, g)
  BY HeldFrames DEF Continues

LEMMA EntersHolds ==
  ASSUME StackType(stack, depth), stack # <<>>, NEW f \in TypedFrame, NEW h \in TypedFrame,
         Enters(h, f)
  PROVE  \A g : Contains(stack', g) <=> g = h \/ g = f \/ Contains(Below, g)
  <1> DEFINE s == <<f>> \o Below
  <1>1. s \in Seq(TypedFrame) /\ \A g : Contains(s, g) <=> g = f \/ Contains(Below, g)
    BY HeldFrames, TopOn, Pushed
  <1>2. stack' = <<h>> \o s
    BY DEF Enters
  <1> HIDE DEF s
  <1> QED
    BY <1>1, <1>2, HoldsPush

\* Which calls there are after a step.
LEMMA NextFrames ==
  ASSUME TypeInv, CallsInv, [Next]_vars, NEW g \in TypedFrame, Contains(stack', g)
  PROVE  \/ Contains(stack, g)
         \/ stack # <<>> /\ OnAs(g)
         \/ stack # <<>> /\ Entered(g)
         \/ Update /\ g.op \in {"settle", "run"} /\ g.of = Top.of
         \/ HandlerReturns /\ stack # <<>> /\ Top.op = "batch" /\ g.op = "flush" /\ g.todo = <<>>
         \/ /\ Event /\ g.op \in {"handler", "batch"} /\ g.of \in app.onEvent
            /\ batched' <=> g.op = "batch"
  <1>0. StoreType /\ StackType(stack, depth) /\ stack \in Seq(TypedFrame)
    BY TypeInvParts DEF StackType
  <1>1. stack # <<>> => \A k : Contains(Below, k) => Contains(stack, k)
    BY <1>0, HeldFrames
  <1>2. ASSUME stack # <<>>, NEW f \in TypedFrame, Continues(f)
        PROVE  g = f \/ Contains(stack, g)
    BY <1>0, <1>1, <1>2, ContinuesHolds
  <1>3. ASSUME stack # <<>>, NEW f \in TypedFrame, NEW h \in TypedFrame, Enters(h, f)
        PROVE  g = h \/ g = f \/ Contains(stack, g)
    BY <1>0, <1>1, <1>3, EntersHolds
  <1>4. CASE \/ stack' = stack
             \/ stack # <<>> /\ stack' = Below
    BY <1>1, <1>4
  <1>5. CASE stack # <<>> /\ \E f : OnAs(f) /\ Continues(f)
    BY <1>2, <1>5 DEF OnAs
  <1>6. CASE stack # <<>> /\ \E f, h : OnAs(f) /\ Entered(h) /\ Enters(h, f)
    <2>1. PICK f, h : OnAs(f) /\ Entered(h) /\ Enters(h, f)
      BY <1>6
    <2>2. f \in TypedFrame /\ h \in TypedFrame
      BY <2>1 DEF OnAs, Entered
    <2> QED
      BY <1>3, <1>6, <2>1, <2>2
  <1>7. CASE /\ Update /\ stack # <<>>
             /\ \E f, h \in TypedFrame :
                  /\ f.op = "settle" /\ f.of = Top.of
                  /\ Continues(f) \/ (Enters(h, f) /\ h.op = "run" /\ h.of = Top.of)
    <2>1. PICK f \in TypedFrame, h \in TypedFrame :
                  /\ f.op = "settle" /\ f.of = Top.of
                  /\ Continues(f) \/ (Enters(h, f) /\ h.op = "run" /\ h.of = Top.of)
      BY <1>7
    <2> QED
      BY <1>2, <1>3, <1>7, <2>1
  <1>8. CASE /\ HandlerReturns /\ stack # <<>> /\ Top.op = "batch" /\ Below = <<>>
             /\ \E h \in TypedFrame : Continues(h) /\ h.op = "flush" /\ h.todo = <<>>
    BY <1>2, <1>8
  <1>9. CASE /\ Event /\ stack = <<>>
             /\ \E h \in TypedFrame : /\ stack' = <<h>> \o stack /\ h.op \in {"handler", "batch"}
                                      /\ h.of \in app.onEvent /\ (batched' <=> h.op = "batch")
    <2>1. PICK h \in TypedFrame : /\ stack' = <<h>> \o stack /\ h.op \in {"handler", "batch"}
                                  /\ h.of \in app.onEvent /\ (batched' <=> h.op = "batch")
      BY <1>9
    <2>2. g = h \/ Contains(stack, g)
      BY <1>0, <2>1, HoldsPush
    <2> QED
      BY <1>9, <2>1, <2>2
  <1> QED
    BY <1>4, <1>5, <1>6, <1>7, <1>8, <1>9, StepForms DEF StepForm

LEMMA TurnsStep ==
  ASSUME TypeInv, CallsInv, Disciplined, TurnsInv, Once(alive, pending), [Next]_vars
  PROVE  TurnsInv'
  <1>0. StoreType /\ StackType(stack, depth) /\ app' = app
    BY TypeInvParts, LinksOKStep
  <1>1. Waiting(app', stack')
    BY WaitingStep
  <1>2. ASSUME NEW s \in Scope, NEW h \in app.onEvent PROVE ~Contains(scopes'[s].cleanups, h)
    <2>1. scopes'[s].cleanups \in {scopes[s].cleanups, app.cleanups[s], <<>>}
      BY CleanupsStep
    <2> QED
      BY <1>0, <2>1, DisciplinedCode, NothingListed DEF TurnsInv
  <1>3. ASSUME NEW g \in TypedFrame, Contains(stack', g) PROVE FrameOK(app, alive', g)
    <2>1. ASSUME NEW q \in Seq(Node), Once(alive, q), \A n : n \in alive' /\ n \notin alive => ~Contains(q, n)
          PROVE  Once(alive', q)
      BY <2>1, OnceFacts
    <2>2. Once(alive', <<>>)
      BY DEF Once
    <2>3. CASE Contains(stack, g)
      <3>1. FrameOK(app, alive, g)
        BY <2>3 DEF TurnsInv
      <3>2. g.op = "flush" => g.todo \in Seq(Node)
        BY FrameFields
      <3>3. \A n : n \in alive' /\ n \notin alive => ~Contains(g.todo, n)
        BY <2>3, NewNodes
      <3> QED
        BY <2>1, <3>1, <3>2, <3>3 DEF FrameOK
    <2>4. CASE stack # <<>> /\ OnAs(g)
      <3>1. FrameOK(app, alive, g)
        BY <2>4, OnAsOK
      <3>2. g.op = "flush" => FlushTake \/ FlushRun
        BY <2>4 DEF OnAs
      <3>3. FlushTake \/ FlushRun => alive' = alive
        BY DEF FlushTake, FlushRun, OnlyTheStack, graph
      <3> QED
        BY <3>1, <3>2, <3>3 DEF FrameOK
    <2>5. CASE stack # <<>> /\ Entered(g)
      BY <2>2, <2>5 DEF Entered, FrameOK
    <2>6. CASE Update /\ g.op \in {"settle", "run"}
      BY <2>6 DEF FrameOK
    <2>7. CASE g.op = "flush" /\ g.todo = <<>>
      BY <2>2, <2>7 DEF FrameOK
    <2>8. CASE g.op \in {"handler", "batch"} /\ g.of \in app.onEvent
      BY <2>8 DEF FrameOK
    <2>9. \/ Contains(stack, g)
          \/ stack # <<>> /\ OnAs(g)
          \/ stack # <<>> /\ Entered(g)
          \/ Update /\ g.op \in {"settle", "run"}
          \/ g.op = "flush" /\ g.todo = <<>>
          \/ g.op \in {"handler", "batch"} /\ g.of \in app.onEvent
      BY <1>3, NextFrames
    <2> QED
      BY <2>3, <2>4, <2>5, <2>6, <2>7, <2>8, <2>9
  <1> QED
    BY <1>0, <1>1, <1>2, <1>3 DEF TurnsInv

\* What only Event changes, and the application.
LEMMA BatchedKept ==
  ASSUME [Next]_vars, ~Event PROVE batched' = batched
  BY DEF Next, Step, Notify, CheckSource, CheckPassed, Update, Return, Settle, FlushTake, FlushRun,
         FlushDone, GetStale, Get, Peek, Set, Mount, BuildBranch, BuildMounted, Jump, HandlerReturns,
         Dispose, DisposeChild, CallDispose, TakeCleanups, RunCleanup, DisposeNodes, Rest,
         OnlyTheStack, ghosts, vars

\* While a flush is on top, what it starts is the next effect of its round.
LEMMA FlushEnters ==
  ASSUME StoreType, StackType(stack, depth), FlushTake \/ FlushRun, NEW h, Entered(h)
  PROVE  /\ (FlushRun /\ h.op = "visit") \/ IsMemo(h.of)
         /\ ~IsMemo(h.of) => h.of = Head(Top.todo) /\ h.of \in alive
  <1>1. Top.op = "flush"
    BY DEF FlushTake, FlushRun, At
  <1>2. ~CheckSource /\ ~DisposeChild /\ ~RunCleanup
    BY <1>1 DEF CheckSource, DisposeChild, RunCleanup, At
  <1>3. ~InCode
    BY <1>1 DEF InCode, At
  <1>4. ~Set /\ ~Mount /\ ~BuildBranch /\ ~Dispose /\ ~GetStale
    BY <1>3 DEF Set, Mount, BuildBranch, Dispose, GetStale, Doing
  <1> QED
    BY <1>2, <1>4 DEF Entered

LEMMA NextStack ==
  ASSUME TypeInv, [Next]_vars PROVE stack' \in Seq(TypedFrame)
  <1>1. TypeInv'
    BY TypeStep
  <1> QED
    BY <1>1 DEF TypeInv, StackType

LEMMA OneTurnStep ==
  ASSUME TypeInv, CallsInv, Disciplined, TurnsInv, OneTurn, [Next]_vars
  PROVE  OneTurn'
  <1>0. /\ StoreType /\ StackType(stack, depth) /\ app' = app /\ stack' \in Seq(TypedFrame)
    BY TypeInvParts, LinksOKStep, NextStack
  <1>1. SUFFICES ASSUME NEW n \in Node, IsEffect(n), NEW op \in Working, Called(stack', op, n),
                        NEW g \in TypedFrame, Contains(stack', g), g.op = "flush", Contains(g.todo, n)
                 PROVE  FALSE
    BY <1>0 DEF OneTurn, ToRun, IsEffect
  <1>2. PICK k \in TypedFrame : Contains(stack', k) /\ k.op = op /\ k.of = n
    BY <1>0, <1>1, CalledHolds
  <1>m. ~IsMemo(n)
    BY <1>1 DEF IsEffect, IsMemo
  <1>3. CASE FlushTake \/ FlushRun
    <2>1. stack # <<>> /\ Top.op = "flush"
      BY <1>3 DEF FlushTake, FlushRun, At
    <2>2. \A x : Contains(stack, x) => x = Top \/ EventCall(app, x)
      BY <1>0, <2>1, FlushTop
    <2>3. \A x : Contains(Below, x) => EventCall(app, x)
      <3>1. \A x : Contains(Below, x) => MayWait(app, Top, x)
        BY <1>0, <2>1, HeldFrames DEF TurnsInv
      <3> QED
        BY <2>1, <3>1 DEF MayWait
    <2>4. (\E f : OnAs(f) /\ Continues(f)) \/ (\E f, h : OnAs(f) /\ Entered(h) /\ Enters(h, f))
      BY <1>0, <1>3, FormFlush
    <2>5. \A x : x.op \in Working => ~EventCall(app, x) /\ x.op # "flush"
      BY DEF Working, EventCall
    <2>6. CASE \E f : OnAs(f) /\ Continues(f)
      <3>1. PICK f : OnAs(f) /\ Continues(f)
        BY <2>6
      <3>2. f \in TypedFrame /\ f.op = "flush"
        BY <2>1, <3>1 DEF OnAs
      <3> QED
        BY <1>0, <1>1, <1>2, <2>1, <2>3, <2>5, <3>1, <3>2, ContinuesHolds
    <2>7. CASE \E f, h : OnAs(f) /\ Entered(h) /\ Enters(h, f)
      <3>1. PICK f, h : OnAs(f) /\ Entered(h) /\ Enters(h, f)
        BY <2>7
      <3>2. f \in TypedFrame /\ f.op = "flush" /\ h \in TypedFrame
        BY <2>1, <3>1 DEF OnAs, Entered
      <3>3. \A x : Contains(stack', x) <=> x = h \/ x = f \/ Contains(Below, x)
        BY <1>0, <2>1, <3>1, <3>2, EntersHolds
      <3>4. k = h
        BY <1>1, <1>2, <2>3, <2>5, <3>2, <3>3
      <3>5. FlushRun /\ n = Head(Top.todo) /\ n \in alive /\ h.op = "visit"
        BY <1>0, <1>2, <1>3, <1>m, <3>1, <3>4, FlushEnters
      <3>6. g = f
        <4>1. g # h
          BY <1>1, <3>5
        <4>2. ~EventCall(app, g)
          BY <1>1 DEF EventCall
        <4> QED
          BY <1>1, <2>3, <3>3, <4>1, <4>2
      <3>7. g.todo = Tail(Top.todo) /\ Top.todo # <<>>
        <4>1. ~FlushTake
          BY <3>5 DEF FlushTake, FlushRun
        <4> QED
          BY <3>1, <3>2, <3>6, <4>1 DEF OnAs
      <3>8. Once(alive, Top.todo) /\ Top.todo \in Seq(Node)
        BY <1>0, <2>1, HeldFrames, FrameFields DEF TurnsInv, FrameOK
      <3>9. ~Contains(Tail(Top.todo), Head(Top.todo))
        BY <3>5, <3>7, <3>8, OnceFacts
      <3> QED
        BY <1>1, <3>5, <3>7, <3>9
    <2> QED
      BY <2>4, <2>6, <2>7
  <1>4. CASE ~(FlushTake \/ FlushRun)
    <2>1. Contains(stack, g)
      <3>1. ~OnAs(g)
        BY <1>1, <1>4 DEF OnAs
      <3>2. ~Entered(g)
        BY <1>1, NothingListed DEF Entered
      <3> QED
        BY <1>1, <3>1, <3>2, NextFrames, NothingListed
    <2>2. stack # <<>> /\ \A o \in Working : ~Called(stack, o, n)
      BY <1>1, <2>1 DEF OneTurn, ToRun, Contains
    <2>3. ~Contains(stack, k)
      BY <1>0, <1>1, <1>2, <2>2, HoldsCalled DEF StackType
    <2>4. Top.op \in Working => Top.of # n
      BY <1>0, <2>2, HeldFrames, HoldsCalled DEF StackType
    <2>5. ~OnAs(k)
      BY <1>1, <1>2, <2>4 DEF OnAs
    <2>6. ~Entered(k)
      <3>1. ASSUME Mount, k.of = Arg PROVE FALSE
        <4>1. Fresh(n)
          BY <1>2, <3>1 DEF Mount
        <4> QED
          BY <1>1, <2>1, <4>1 DEF Fresh, Contains
      <3> QED
        BY <1>1, <1>2, <1>4, <1>m, <3>1 DEF Entered, Working
    <2>7. ~(Update /\ k.of = Top.of)
      BY <1>2, <2>4 DEF Update, At, Working
    <2> QED
      BY <1>1, <1>2, <2>3, <2>5, <2>6, <2>7, NextFrames DEF Working
  <1> QED
    BY <1>3, <1>4

LEMMA PushedTop ==
  ASSUME NEW f \in TypedFrame, NEW s \in Seq(TypedFrame), stack' = <<f>> \o s
  PROVE  stack' # <<>> /\ Top' = f /\ Below' = s
  BY Pushed DEF Top, Below

\* A write is that of an event's handler; if it changes a value, the flush that
\* follows is on top, unless the handler runs in a batch.
LEMMA WriteTop ==
  ASSUME StoreType, StackType(stack, depth), Disciplined, TurnsInv, Set
  PROVE  /\ stack # <<>> /\ EventCall(app, Top) /\ Contains(stack, Top) /\ Top \in TypedFrame
         /\ \/ stack' # <<>> /\ Top'.op = "flush" /\ Top'.todo = <<>> /\ Top.op # "batch"
            \/ stack' # <<>> /\ Top'.op = "batch"
            \/ agenda' = <<>>
  <1>1. EventCall(app, Top) /\ InCode
    BY DisciplinedCode DEF Set, Doing
  <1>2. /\ stack # <<>> /\ Below = <<>> /\ agenda = <<>> /\ stack \in Seq(TypedFrame)
        /\ Contains(stack, Top) /\ Top \in TypedFrame
    BY <1>1, CodeFacts, EventIsLast, HeldFrames, TopOn DEF TurnsInv, StackType
  <1> DEFINE h == NewFrame("flush", None, <<>>)
             f == Skipping(0)
             s == <<f>> \o Below
  <1>3. h \in TypedFrame /\ h.op = "flush" /\ h.todo = <<>>
    BY NewFrames DEF NewFrame
  <1>4. f \in TypedFrame /\ f.op = Top.op /\ Below \in Seq(TypedFrame) /\ s \in Seq(TypedFrame)
    BY <1>1, OnInCode, TopOn, Pushed, CodeFacts DEF OnAs
  <1>5. agenda' # <<>> => stack' = IF depth = 0 THEN <<h>> \o s ELSE s
    BY <1>2 DEF Set, Flush, Advanced
  <1> HIDE DEF h, s
  <1>6. CASE agenda' # <<>> /\ depth = 0
    <2>1. stack' # <<>> /\ Top' = h
      BY <1>3, <1>4, <1>5, <1>6, PushedTop
    <2>2. Top.op # "batch"
      BY <1>2, <1>6, BatchIsLast
    <2> QED
      BY <1>1, <1>2, <1>3, <2>1, <2>2
  <1>7. CASE agenda' # <<>> /\ depth # 0
    <2>1. stack' # <<>> /\ Top' = f
      BY <1>4, <1>5, <1>7, PushedTop DEF s
    <2>2. Top.op = "batch"
      <3>1. stack[Len(stack)].op = "batch"
        BY <1>7 DEF StackType, BatchAtBottom
      <3>2. Len(stack) = 1 /\ Top = stack[1]
        BY <1>2, TopFacts
      <3> QED
        BY <3>1, <3>2
    <2> QED
      BY <1>1, <1>2, <1>4, <2>1, <2>2
  <1> QED
    BY <1>1, <1>2, <1>6, <1>7

\* What is below a memo's closure is that memo's settling.
LEMMA ReturnTop ==
  ASSUME StoreType, StackType(stack, depth), Shape(app, stack, observer), Return
  PROVE  stack # <<>> /\ stack' # <<>> /\ Top.op = "run" /\ Top'.op = "settle" /\ Top'.of = Top.of
  <1>1. stack # <<>> /\ Top.op = "run" /\ stack' = Below
    BY DEF Return, At
  <1>2. /\ Top = stack[1] /\ Len(stack) = Len(Below) + 1 /\ Below \in Seq(TypedFrame)
        /\ \A i \in 1..Len(Below) : Below[i] = stack[i + 1]
    BY <1>1, TopFacts
  <1>3. 1 \in 1..Len(stack)
    BY <1>2
  <1>4. 2 \in 1..Len(stack) /\ stack[2].op = "settle" /\ stack[2].of = Top.of
    BY <1>1, <1>2, <1>3 DEF Shape, Paired
  <1>5. 1 \in 1..Len(Below) /\ Below[1] = stack[2] /\ Below # <<>>
    BY <1>2, <1>4
  <1>6. Top' = Below[1]
    BY <1>1, <1>2, <1>5 DEF Top
  <1> QED
    BY <1>1, <1>4, <1>5, <1>6

LEMMA AgendaInvStep ==
  ASSUME TypeInv, CallsInv, Disciplined, TurnsInv, AgendaInv, [Next]_vars
  PROVE  AgendaInv'
  <1>0. /\ StoreType /\ StackType(stack, depth) /\ app' = app
        /\ Shape(app, stack, observer)
    BY TypeInvParts, LinksOKStep DEF CallsInv
  <1>1. ASSUME batched', NEW f \in TypedFrame, Contains(stack', f), EventCall(app, f)
        PROVE  f.op = "batch"
    <2>1. CASE Event
      <3>1. \E h \in TypedFrame : stack' = <<h>> \o stack /\ h.op = "batch" /\ stack = <<>>
        BY <1>0, <1>1, <2>1, FormEvent
      <3>2. \A g : ~Contains(<<>>, g)
        BY NothingListed
      <3> QED
        BY <1>0, <1>1, <3>1, <3>2, HoldsPush DEF StackType
    <2>2. CASE ~Event
      <3>1. batched
        BY <1>1, <2>2, BatchedKept
      <3>2. CASE Contains(stack, f)
        BY <1>1, <3>1, <3>2 DEF AgendaInv
      <3>3. CASE stack # <<>> /\ OnAs(f)
        <4>1. EventCall(app, Top) /\ f.op = Top.op
          BY <1>1, <3>3 DEF OnAs, EventCall
        <4> QED
          BY <1>0, <3>1, <3>3, <4>1, HeldFrames DEF AgendaInv
      <3>4. CASE stack # <<>> /\ Entered(f)
        <4>1. Top \in TypedFrame /\ Contains(stack, Top)
          BY <1>0, <3>4, HeldFrames
        <4>2. MayWait(app, f, Top)
          BY <3>4, <4>1, EnteredWaits
        <4> QED
          BY <1>1, <4>2 DEF MayWait
      <3>5. CASE f.op \in {"settle", "run", "flush"}
        BY <1>1, <3>5 DEF EventCall
      <3> QED
        BY <1>1, <2>2, <3>2, <3>3, <3>4, <3>5, NextFrames
    <2> QED
      BY <2>1, <2>2
  <1>2. CASE Notify \/ Rest \/ UNCHANGED vars
    <2>1. stack' = stack /\ batched' = batched /\ (agenda' # <<>> => agenda # <<>>)
      BY <1>2 DEF Notify, Rest, vars, ghosts
    <2>2. (AwaitsRound' <=> AwaitsRound) /\ (Writing' <=> Writing) /\ Top' = Top
      BY <2>1 DEF AwaitsRound, Writing, Top
    <2> QED
      BY <1>0, <1>1, <2>1, <2>2 DEF AgendaInv
  <1>3. CASE Event
    <2>1. agenda' = <<>>
      BY <1>3 DEF Event, Dispatch
    <2> QED
      BY <1>0, <1>1, <2>1 DEF AgendaInv
  <1>4. CASE Step /\ ~Notify
    <2>1. CASE agenda' = <<>>
      BY <1>0, <1>1, <2>1 DEF AgendaInv
    <2>2. CASE Return /\ IsMemo(Top.of)
      <3>1. stack' # <<>> /\ Top'.op = "settle" /\ Top'.of = Top.of
        BY <1>0, <2>2, ReturnTop
      <3>2. MemoCall(app, Top') /\ ~AwaitsRound'
        BY <2>2, <3>1 DEF MemoCall, Working, IsMemo, AwaitsRound
      <3> QED
        BY <1>0, <1>1, <3>1, <3>2 DEF AgendaInv
    <2>3. CASE Set /\ agenda' # <<>>
      <3>1. /\ EventCall(app, Top) /\ Contains(stack, Top) /\ Top \in TypedFrame
            /\ \/ stack' # <<>> /\ Top'.op = "flush" /\ Top'.todo = <<>> /\ Top.op # "batch"
               \/ stack' # <<>> /\ Top'.op = "batch"
        BY <1>0, <2>3, WriteTop
      <3>2. Writing'
        BY <3>1 DEF Writing, AwaitsRound
      <3>3. AwaitsRound' => Top.op # "batch"
        BY <3>1 DEF AwaitsRound
      <3>4. ~Event
        BY <2>3 DEF Set, Doing, InCode, At, Event, Dispatch
      <3>5. AwaitsRound' => ~batched'
        BY <3>1, <3>3, <3>4, BatchedKept DEF AgendaInv
      <3> QED
        BY <1>0, <1>1, <3>2, <3>5 DEF AgendaInv
    <2> QED
      BY <1>0, <1>4, <2>1, <2>2, <2>3, OthersAsk
  <1> QED
    BY <1>2, <1>3, <1>4 DEF Next

LEMMA BatchHolds ==
  ASSUME NEW s \in Seq(TypedFrame)
  PROVE  (\E h : Called(s, "batch", h)) <=> \E g \in TypedFrame : Contains(s, g) /\ g.op = "batch"
  <1>1. ASSUME NEW h, Called(s, "batch", h)
        PROVE  \E g \in TypedFrame : Contains(s, g) /\ g.op = "batch"
    BY <1>1, CalledHolds
  <1>2. ASSUME NEW g \in TypedFrame, Contains(s, g), g.op = "batch" PROVE Called(s, "batch", g.of)
    <2>1. Called(s, g.op, g.of)
      BY <1>2, HoldsCalled
    <2> QED
      BY <1>2, <2>1
  <1> QED
    BY <1>1, <1>2

\* Effects that were queued stay so until a flush takes them.
LEMMA BatchGoesOn ==
  ASSUME TypeInv, CallsInv, [Next]_vars, Batching \/ AwaitsRound, pending # <<>>, ~FlushTake
  PROVE  Batching' \/ AwaitsRound'
  <1>0. /\ StoreType /\ StackType(stack, depth) /\ stack \in Seq(TypedFrame)
        /\ stack' \in Seq(TypedFrame)
    BY TypeInvParts, NextStack DEF StackType
  <1>1. stack # <<>>
    <2>1. \A h : ~Called(<<>>, "batch", h)
      BY DEF Called
    <2> QED
      BY <2>1 DEF Batching, AwaitsRound
  <1>2. Batching => \E g \in TypedFrame : (g = Top \/ Contains(Below, g)) /\ g.op = "batch"
    <2>1. ASSUME Batching PROVE \E g \in TypedFrame : Contains(stack, g) /\ g.op = "batch"
      BY <1>0, <2>1, BatchHolds DEF Batching
    <2> QED
      BY <1>0, <1>1, <2>1, HeldFrames
  <1>3. ASSUME NEW g \in TypedFrame, Contains(stack', g), g.op = "batch" PROVE Batching'
    <2>1. \E h : Called(stack', "batch", h)
      BY <1>0, <1>3, BatchHolds
    <2> QED
      BY <2>1 DEF Batching
  <1>4. CASE stack' = stack
    <2>1. Top' = Top
      BY <1>4 DEF Top
    <2> QED
      BY <1>4, <2>1 DEF Batching, AwaitsRound
  <1>5. CASE /\ stack' = Below /\ Top.op # "batch"
             /\ Top.op = "flush" => Top.todo = <<>> /\ pending = <<>>
    <2>1. Batching
      BY <1>5 DEF AwaitsRound
    <2> QED
      BY <1>2, <1>3, <1>5, <2>1
  <1>6. CASE \E f : OnAs(f) /\ (Continues(f) \/ \E h : Entered(h) /\ Enters(h, f))
    <2>1. PICK f : OnAs(f) /\ (Continues(f) \/ \E h : Entered(h) /\ Enters(h, f))
      BY <1>6
    <2>2. f \in TypedFrame /\ f.op = Top.op
      BY <2>1 DEF OnAs
    <2>3. ~AwaitsRound
      BY <2>1 DEF OnAs, AwaitsRound
    <2>4. \A g : g = f \/ Contains(Below, g) => Contains(stack', g)
      <3>1. CASE Continues(f)
        BY <1>0, <1>1, <2>2, <3>1, ContinuesHolds
      <3>2. CASE \E h : Entered(h) /\ Enters(h, f)
        <4>1. PICK h : Entered(h) /\ Enters(h, f)
          BY <3>2
        <4>2. h \in TypedFrame
          BY <4>1 DEF Entered
        <4> QED
          BY <1>0, <1>1, <2>2, <4>1, <4>2, EntersHolds
      <3> QED
        BY <2>1, <3>1, <3>2
    <2> QED
      BY <1>2, <1>3, <2>2, <2>3, <2>4
  <1>7. CASE Update
    <2>1. Top.op = "visit"
      BY <1>7 DEF Update, At
    <2>2. \A g : Contains(Below, g) => Contains(stack', g)
      BY <1>0, <1>1, <1>7, FormUpdate, ContinuesHolds, EntersHolds
    <2>3. Batching
      BY <2>1 DEF AwaitsRound
    <2> QED
      BY <1>2, <1>3, <2>1, <2>2, <2>3
  <1>8. CASE Below = <<>> /\ \E h \in TypedFrame : Continues(h) /\ h.op = "flush" /\ h.todo = <<>>
    <2>1. PICK h \in TypedFrame : Continues(h) /\ h.op = "flush" /\ h.todo = <<>>
      BY <1>8
    <2>2. Below \in Seq(TypedFrame)
      BY <1>0, <1>1, TopOn
    <2>3. stack' # <<>> /\ Top' = h
      BY <2>1, <2>2, PushedTop DEF Continues
    <2> QED
      BY <2>1, <2>3 DEF AwaitsRound
  <1> QED
    BY <1>1, <1>4, <1>5, <1>6, <1>7, <1>8, StepForms DEF StepForm

LEMMA WritingBatches ==
  ASSUME StackType(stack, depth), Writing PROVE Batching \/ AwaitsRound
  <1>1. ASSUME stack # <<>>, Top.op = "batch" PROVE Batching
    <2>1. Contains(stack, Top) /\ Top \in TypedFrame /\ stack \in Seq(TypedFrame)
      BY <1>1, HeldFrames, TopOn DEF StackType
    <2> QED
      BY <1>1, <2>1, BatchHolds DEF Batching
  <1> QED
    BY <1>1 DEF Writing

LEMMA QueueNotify ==
  ASSUME StoreType, StackType(stack, depth), QueueInv, NoNewEffects, Notify
  PROVE  QueueInv'
  <1> DEFINE n == Head(agenda).node
             m == Head(agenda).mark
  <1>1. /\ n \in Node /\ m \in {"Check", "Dirty"}
        /\ \A k, mk : Asked(agenda, k, mk) <=> (k = n /\ mk = m) \/ Asked(Tail(agenda), k, mk)
        /\ Rank[state[n]] >= Rank[m] => UNCHANGED state
        /\ ~(Rank[state[n]] >= Rank[m]) => state' = [state EXCEPT ![n] = m]
        /\ UNCHANGED <<app, ready, alive, stack>>
    BY NotifyAsks
  <1>2. pending' = IF Rank[state[n]] >= Rank[m] \/ ~Queues(n, m) THEN pending ELSE Append(pending, n)
    BY DEF Notify
  <1> HIDE DEF n, m
  <1>3. state \in [Node -> NodeState] /\ pending \in Seq(Node)
    BY DEF StoreType
  <1>4. (Batching' <=> Batching) /\ (AwaitsRound' <=> AwaitsRound)
    BY <1>1 DEF Batching, AwaitsRound, Top
  <1>5. \A k \in Node : state[k] # "Clean" => state'[k] # "Clean"
    BY <1>1, <1>3
  <1>6. CASE pending' = pending
    <2>1. Once(alive', pending')
      BY <1>1, <1>6 DEF QueueInv
    <2>2. \A k \in alive' : IsEffect(k)' /\ Contains(pending', k) =>
            (Batching' \/ AwaitsRound') /\ state'[k] # "Clean"
      <3>1. alive \subseteq Node
        BY DEF StoreType
      <3> QED
        BY <1>1, <1>4, <1>5, <1>6, <3>1 DEF QueueInv, IsEffect
    <2> QED
      BY <2>1, <2>2 DEF QueueInv
  <1>7. CASE pending' = Append(pending, n) /\ IsEffect(n) /\ state[n] = "Clean" /\ state'[n] = m
    <2>1. n \in alive => Batching \/ AwaitsRound
      <3>1. Marked(agenda, n)
        BY <1>1 DEF Marked
      <3> QED
        BY <1>7, <3>1, WritingBatches DEF NoNewEffects
    <2>2. n \in alive => ~Contains(pending, n)
      BY <1>7 DEF QueueInv
    <2>3. Once(alive, Append(pending, n))
      BY <1>1, <1>3, <2>2, OnceFacts DEF QueueInv
    <2>4. \A k : Contains(Append(pending, n), k) <=> Contains(pending, k) \/ k = n
      BY <1>1, <1>3, AppendedList
    <2>5. \A k \in alive' : IsEffect(k)' /\ Contains(pending', k) =>
            (Batching' \/ AwaitsRound') /\ state'[k] # "Clean"
      <3>1. alive \subseteq Node
        BY DEF StoreType
      <3> QED
        BY <1>1, <1>4, <1>5, <1>7, <2>1, <2>4, <3>1 DEF QueueInv, IsEffect
    <2> QED
      BY <1>1, <1>7, <2>3, <2>5 DEF QueueInv
  <1>8. CASE ~(Rank[state[n]] >= Rank[m]) /\ Queues(n, m)
    <2>1. state'[n] = m
      BY <1>1, <1>3, <1>8
    <2> QED
      BY <1>2, <1>7, <1>8, <2>1 DEF Queues
  <1> QED
    BY <1>2, <1>6, <1>8

LEMMA QueueStep ==
  ASSUME TypeInv, CallsInv, TurnsInv, QueueInv, NoNewEffects, [Next]_vars
  PROVE  QueueInv'
  <1>0. /\ StoreType /\ StackType(stack, depth) /\ app' = app /\ alive \subseteq Node
        /\ state \in [Node -> NodeState] /\ pending \in Seq(Node)
    BY TypeInvParts, LinksOKStep DEF StoreType
  <1>1. CASE Notify
    BY <1>0, <1>1, QueueNotify
  <1>2. CASE FlushTake
    <2>1. pending' = <<>> /\ \A k : ~Contains(<<>>, k)
      BY <1>2, NothingListed DEF FlushTake
    <2> QED
      BY <2>1 DEF QueueInv, Once
  <1>3. CASE ~Notify /\ ~FlushTake
    <2>1. pending' = pending
      BY <1>3 DEF Next, Step, CheckSource, CheckPassed, Update, Return, Settle, FlushRun,
           FlushDone, GetStale, Get, Peek, Set, Mount, BuildBranch, BuildMounted, Jump,
           HandlerReturns, Dispose, DisposeChild, CallDispose, TakeCleanups, RunCleanup,
           DisposeNodes, Event, Dispatch, Rest, OnlyTheStack, vars
    <2>2. \A n \in alive' : n \notin alive => ~Contains(pending, n)
      BY NewNodes
    <2>3. Once(alive', pending')
      BY <1>0, <2>1, <2>2, OnceFacts DEF QueueInv
    <2>4. ASSUME NEW n \in alive', IsEffect(n), Contains(pending, n)
          PROVE  (Batching' \/ AwaitsRound') /\ state'[n] # "Clean"
      <3>1. n \in alive /\ n \in Node /\ (Batching \/ AwaitsRound) /\ state[n] # "Clean"
        BY <1>0, <2>2, <2>4 DEF QueueInv
      <3>2. pending # <<>>
        BY <2>4, NothingListed
      <3>3. Batching' \/ AwaitsRound'
        BY <1>3, <3>1, <3>2, BatchGoesOn
      <3>4. \A op \in Working : ~Called(stack, op, n)
        BY <1>0, <2>4, <3>1, EffectsInTurn
      <3>5. ASSUME Step PROVE state'[n] # "Clean"
        <4>1. CASE UNCHANGED state
          BY <3>1, <4>1
        <4>2. CASE (CheckPassed \/ Settle) /\ state' = [state EXCEPT ![Top.of] = "Clean"]
          <5>1. stack # <<>> /\ Top.op \in Working
            BY <4>2 DEF CheckPassed, Settle, At, Working
          <5>2. Called(stack, Top.op, Top.of)
            BY <1>0, <5>1, HeldFrames, HoldsCalled DEF StackType
          <5>3. n # Top.of
            BY <3>4, <5>1, <5>2
          <5> QED
            BY <1>0, <3>1, <4>2, <5>3
        <4>3. CASE Mount /\ state' = [state EXCEPT ![Arg] = "Dirty"]
          BY <1>0, <3>1, <4>3
        <4>4. CASE BuildBranch
          <5>1. \A k \in Node : state'[k] # state[k] => Fresh(k)
            BY <4>4 DEF BuildBranch
          <5>2. ~Fresh(n)
            BY <3>1 DEF Fresh
          <5> QED
            BY <3>1, <5>1, <5>2
        <4>5. CASE DisposeNodes
          <5>1. /\ \A k \in Node : k \notin Dying(Top.of) => state'[k] = state[k]
                /\ alive' = alive \ Dying(Top.of)
            BY <4>5, DisposeNodesParts DEF DisposeNodes
          <5> QED
            BY <2>4, <3>1, <5>1
        <4> QED
          BY <1>0, <1>3, <3>5, <4>1, <4>2, <4>3, <4>4, <4>5, StatesStep
      <3>6. ASSUME ~Step PROVE state'[n] # "Clean"
        <4>1. UNCHANGED state
          BY <3>6 DEF Next, Event, Dispatch, Rest, vars, graph
        <4> QED
          BY <3>1, <4>1
      <3> QED
        BY <3>3, <3>5, <3>6
    <2> QED
      BY <1>0, <2>1, <2>3, <2>4 DEF QueueInv, IsEffect
  <1> QED
    BY <1>1, <1>2, <1>3

\* Which effects a step starts to bring up to date.
LEMMA EffectCalls ==
  ASSUME TypeInv, CallsInv, [Next]_vars, NEW n \in Node, IsEffect(n), NEW op \in Working,
         Called(stack', op, n)
  PROVE  \/ Called(stack, op, n)
         \/ /\ FlushRun /\ op = "visit" /\ state[n] # "Clean" /\ n \in alive
            /\ n = Head(Top.todo)
         \/ Mount /\ op = "visit" /\ n = Arg
         \/ /\ Update /\ op \in {"settle", "run"} /\ n = Top.of /\ state[n] = "Dirty"
            /\ op = "run" => n \in ready
  <1>0. /\ StoreType /\ StackType(stack, depth) /\ stack' \in Seq(TypedFrame)
        /\ stack \in Seq(TypedFrame)
    BY TypeInvParts, NextStack DEF StackType
  <1>1. PICK k \in TypedFrame : Contains(stack', k) /\ k.op = op /\ k.of = n
    BY <1>0, CalledHolds
  <1>2. CASE Contains(stack, k)
    BY <1>0, <1>1, <1>2, HoldsCalled
  <1>3. CASE stack # <<>> /\ OnAs(k)
    <2>1. Called(stack, Top.op, Top.of)
      BY <1>0, <1>3, HeldFrames, HoldsCalled
    <2> QED
      BY <1>1, <1>3, <2>1 DEF OnAs
  <1>4. CASE stack # <<>> /\ Entered(k)
    <2>1. ~IsMemo(n)
      BY DEF IsEffect, IsMemo
    <2>2. CASE FlushRun /\ k.op = "visit" /\ n = Head(Top.todo) /\ n \in alive
      <3>1. SameWork(stack, stack') \/ \E j \in Node : Visits(j, FALSE)
        BY <1>0, <2>2, FlushRunWork
      <3>2. CASE SameWork(stack, stack')
        BY <3>2 DEF SameWork
      <3>3. CASE \E j \in Node : Visits(j, FALSE)
        <4>1. PICK j \in Node : Visits(j, FALSE)
          BY <3>3
        <4>2. Called(stack, op, n) \/ (state[j] # "Clean" /\ op = "visit" /\ n = j)
          BY <4>1 DEF Visits
        <4> QED
          BY <2>2, <4>2
      <3> QED
        BY <3>1, <3>2, <3>3
    <2>3. CASE Mount /\ k.op = "visit" /\ k.of = Arg
      BY <1>1, <2>3
    <2> QED
      BY <1>1, <1>4, <2>1, <2>2, <2>3 DEF Entered, Working
  <1>5. CASE Update /\ k.op \in {"settle", "run"} /\ k.of = Top.of
    <2>1. /\ \A o, j : Called(stack, o, j) <=> Called(Below, o, j) \/ (o = "visit" /\ Top.of = j)
          /\ \A o, j : Called(stack', o, j) <=>
               \/ Called(Below, o, j)
               \/ o = "settle" /\ j = Top.of
               \/ o = "run" /\ j = Top.of /\ Top.of \in ready
      BY <1>0, <1>5, UpdateWork
    <2>2. state[Top.of] = "Dirty"
      BY <1>5 DEF Update
    <2>3. Called(stack', op, n)
      OBVIOUS
    <2> QED
      BY <1>1, <1>5, <2>1, <2>2, <2>3
  <1>6. CASE k.op \in {"flush", "handler", "batch"}
    BY <1>1, <1>6 DEF Working
  <1> QED
    BY <1>1, <1>2, <1>3, <1>4, <1>5, <1>6, NextFrames

\* What a step does to the mark of an effect that goes on existing.
LEMMA EffectStates ==
  ASSUME TypeInv, CallsInv, MarksInv, [Next]_vars, NEW n \in alive, n \in alive', IsEffect(n)
  PROVE  \/ state'[n] = state[n]
         \/ /\ Notify /\ n = Head(agenda).node
            /\ state'[n] # "Clean" /\ (state[n] = "Dirty" => state'[n] = "Dirty")
         \/ (CheckPassed \/ Settle) /\ Top.of = n /\ state'[n] = "Clean"
  <1>0. /\ StoreType /\ StackType(stack, depth) /\ alive \subseteq Node
        /\ state \in [Node -> NodeState] /\ n \in Node
    BY TypeInvParts DEF StoreType
  <1>1. CASE Notify
    <2>1. /\ \A k \in Node : /\ state[k] # "Clean" => state'[k] # "Clean"
                             /\ state[k] = "Dirty" => state'[k] = "Dirty"
          /\ \A k \in Node : state'[k] # state[k] => k = Head(agenda).node
      BY <1>0, <1>1, NotifyStates DEF MarksInv
    <2>2. state'[n] = state[n] \/ state'[n] # "Clean"
      <3>1. state'[n] # state[n] => state' = [state EXCEPT ![n] = Head(agenda).mark]
        BY <1>0, <1>1, <2>1, NotifyAsks
      <3>2. Head(agenda).mark # "Clean"
        BY <1>0, <1>1, NotifyAsks
      <3> QED
        BY <1>0, <3>1, <3>2
    <2> QED
      BY <1>0, <1>1, <2>1, <2>2
  <1>2. CASE Step /\ ~Notify
    <2>1. CASE UNCHANGED state
      BY <2>1
    <2>2. CASE (CheckPassed \/ Settle) /\ state' = [state EXCEPT ![Top.of] = "Clean"]
      BY <1>0, <2>2
    <2>3. CASE Mount /\ state' = [state EXCEPT ![Arg] = "Dirty"]
      <3>1. n # Arg
        BY <2>3 DEF Mount, Fresh
      <3> QED
        BY <1>0, <2>3, <3>1
    <2>4. CASE BuildBranch
      <3>1. \A k \in Node : state'[k] # state[k] => Fresh(k)
        BY <2>4 DEF BuildBranch
      <3> QED
        BY <1>0, <3>1 DEF Fresh
    <2>5. CASE DisposeNodes
      <3>1. /\ \A k \in Node : k \notin Dying(Top.of) => state'[k] = state[k]
            /\ alive' = alive \ Dying(Top.of)
        BY <2>5, DisposeNodesParts DEF DisposeNodes
      <3> QED
        BY <1>0, <3>1
    <2> QED
      BY <1>0, <1>2, <2>1, <2>2, <2>3, <2>4, <2>5, StatesStep
  <1>3. CASE Event \/ Rest \/ UNCHANGED vars
    BY <1>3 DEF Event, Dispatch, Rest, vars, graph
  <1> QED
    BY <1>1, <1>2, <1>3 DEF Next

\* An effect comes into existence when it is mounted.
LEMMA EffectMounted ==
  ASSUME TypeInv, [Next]_vars, NEW n \in alive', n \notin alive, IsEffect(n)
  PROVE  /\ n \in Node /\ Mount /\ n = Arg /\ Fresh(n)
         /\ \A op : ~Called(stack, op, n)
  <1>0. StoreType /\ StackType(stack, depth)
    BY TypeInvParts
  <1>1. n \in Node /\ Fresh(n) /\ (Mount \/ BuildBranch)
    BY NewNodes
  <1>2. ~BuildBranch
    BY DEF BuildBranch, Owned
  <1>3. Mount /\ n = Arg
    BY <1>1, <1>2 DEF Mount
  <1>4. \A op : ~Called(stack, op, n)
    BY <1>0, <1>1 DEF Fresh, Called, StackType
  <1> QED
    BY <1>1, <1>3, <1>4

\* The innermost call is the only one of its effect.
LEMMA TopOfEffect ==
  ASSUME StackType(stack, depth), TurnsInv, stack # <<>>, Top.op \in {"visit", "settle"},
         IsEffect(Top.of), NEW op \in Working
  PROVE  Called(stack, Top.op, Top.of) /\ ~Called(Below, op, Top.of)
  <1>1. Called(stack, Top.op, Top.of) /\ Below \in Seq(TypedFrame)
    BY HeldFrames, HoldsCalled, TopOn DEF StackType
  <1>2. ASSUME Called(Below, op, Top.of) PROVE FALSE
    <2>1. PICK g \in TypedFrame : Contains(Below, g) /\ g.op = op /\ g.of = Top.of
      BY <1>1, <1>2, CalledHolds
    <2>2. MayWait(app, Top, g)
      BY <2>1, HeldFrames DEF TurnsInv
    <2> QED
      BY <2>1, <2>2 DEF MayWait, EffectCall, Working, IsEffect
  <1> QED
    BY <1>1, <1>2

LEMMA EffectMarksStep ==
  ASSUME TypeInv, CallsInv, MarksInv, TurnsInv, EffectMarks, [Next]_vars
  PROVE  EffectMarks'
  <1>0. StoreType /\ StackType(stack, depth) /\ app' = app /\ alive \subseteq Node
    BY TypeInvParts, LinksOKStep DEF StoreType
  <1>1. SUFFICES ASSUME NEW n \in alive', IsEffect(n)
                 PROVE  /\ Called(stack', "visit", n) => state'[n] # "Clean"
                        /\ Called(stack', "settle", n) => state'[n] = "Dirty"
                        /\ Called(stack', "run", n) => state'[n] = "Dirty"
    BY <1>0 DEF EffectMarks, IsEffect
  <1>2. CASE n \notin alive
    <2>1. Mount /\ n = Arg /\ n \in Node /\ \A op : ~Called(stack, op, n)
      BY <1>1, <1>2, EffectMounted
    <2>2. state'[n] = "Dirty"
      BY <1>0, <2>1 DEF Mount, StoreType
    <2> QED
      BY <2>2
  <1>3. CASE n \in alive
    <2>1. n \in Node
      BY <1>0, <1>3
    <2>2. ASSUME NEW op \in Working, Called(stack', op, n)
          PROVE  /\ op = "visit" => state[n] # "Clean"
                 /\ op \in {"settle", "run"} => state[n] = "Dirty"
      <3>1. ~(Mount /\ n = Arg)
        BY <1>3 DEF Mount, Fresh
      <3>2. Called(stack, op, n) =>
              /\ op = "visit" => state[n] # "Clean"
              /\ op \in {"settle", "run"} => state[n] = "Dirty"
        BY <1>1, <1>3 DEF EffectMarks
      <3> QED
        BY <1>1, <2>1, <2>2, <3>1, <3>2, EffectCalls
    <2>3. CASE (CheckPassed \/ Settle) /\ Top.of = n
      <3>1. stack # <<>> /\ Top.op \in {"visit", "settle"} /\ stack' = Below
        BY <2>3 DEF CheckPassed, Settle, At
      <3>2. \A op \in Working : ~Called(stack', op, n)
        BY <1>0, <1>1, <2>3, <3>1, TopOfEffect
      <3> QED
        BY <3>2 DEF Working
    <2>4. CASE (state[n] # "Clean" => state'[n] # "Clean") /\ (state[n] = "Dirty" => state'[n] = "Dirty")
      BY <2>2, <2>4 DEF Working
    <2> QED
      BY <1>1, <1>3, <2>3, <2>4, EffectStates
  <1> QED
    BY <1>2, <1>3

LEMMA NoMemosBelow ==
  ASSUME StackType(stack, depth), Shape(app, stack, observer), stack # <<>>, ~MemoCall(app, Top),
         NEW op \in Working, NEW m, app.kind[m] = "memo"
  PROVE  ~Called(stack, op, m)
  <1>1. stack \in Seq(TypedFrame) /\ Top = stack[1]
    BY TopFacts DEF StackType
  <1>2. SUFFICES ASSUME NEW i \in 1..Len(stack), stack[i].op = op, stack[i].of = m
                 PROVE  FALSE
    BY DEF Called
  <1>3. MemoCall(app, stack[i])
    BY <1>2 DEF MemoCall
  <1>4. i # 1 /\ 1 \in 1..Len(stack) /\ 1 < i
    BY <1>1, <1>3
  <1>5. MayRest(app, stack[1], stack[i])
    BY <1>4 DEF Shape, Nested
  <1> QED
    BY <1>1, <1>3, <1>5 DEF MayRest, Pulls

\* When an effect is done, everything it has read is up to date.
LEMMA EffectTopSources ==
  ASSUME StoreType, StackType(stack, depth), CallsInv, TurnsInv, EffectSources,
         CheckPassed \/ Settle, Top.of \in alive, IsEffect(Top.of),
         NEW m \in Node, DependsOn(Top.of, m)
  PROVE  state[m] = "Clean"
  <1>1. /\ stack # <<>> /\ Top.op \in {"visit", "settle"} /\ Shape(app, stack, observer)
        /\ Top.of \in Node /\ LinksOK /\ SignalsClean /\ app \in App
    BY DEF CheckPassed, Settle, At, StoreType, CallsInv
  <1>2. CASE IsSignal(m)
    BY <1>1, <1>2 DEF SignalsClean
  <1>3. CASE ~IsSignal(m)
    <2>1. IsMemo(m)
      BY <1>1, <1>3, AppAssumption DEF LinksOK, IsSignal, IsMemo, IsEffect
    <2>2. ~MemoCall(app, Top)
      BY DEF MemoCall, IsEffect
    <2>3. ~InProgress(stack, m)
      BY <1>1, <2>1, <2>2, NoMemosBelow DEF InProgress, Working, IsMemo
    <2>4. Called(stack, Top.op, Top.of)
      BY <1>1, TopOfEffect DEF Working
    <2>5. CASE Settle
      BY <2>3, <2>4, <2>5 DEF EffectSources, Settle, At
    <2>6. CASE CheckPassed
      <3>1. Top.op = "visit" /\ state[Top.of] # "Dirty" /\ Top.todo = <<>>
        BY <2>6 DEF CheckPassed, At
      <3>2. ~ToVisit(stack, Top.of, m)
        <4>1. ~Called(Below, "visit", Top.of)
          BY <1>1, TopOfEffect DEF Working
        <4>2. ~ToVisit(Below, Top.of, m)
          BY <4>1 DEF ToVisit, Called
        <4>3. ToVisit(stack, Top.of, m) => ToVisit(Below, Top.of, m) \/ Contains(Top.todo, m)
          BY <1>1, ToVisitPop DEF StackType, Top, Below
        <4> QED
          BY <3>1, <4>2, <4>3, NothingListed
      <3> QED
        BY <2>3, <2>4, <3>1, <3>2 DEF EffectSources
    <2> QED
      BY <2>5, <2>6
  <1> QED
    BY <1>2, <1>3

\* The closure that reads is in progress.
LEMMA ObserverRuns ==
  ASSUME StackType(stack, depth), Shape(app, stack, observer), observer \in Node
  PROVE  Called(stack, "run", observer)
  BY NamesAssumption DEF Shape, Watching, Called

LEMMA StaleEffectsNotify ==
  ASSUME StoreType, CallsInv, StaleEffects, Notify
  PROVE  StaleEffects'
  <1> DEFINE n == Head(agenda).node
             m == Head(agenda).mark
  <1>1. /\ n \in Node /\ m \in {"Check", "Dirty"}
        /\ \A k, mk : Asked(agenda, k, mk) <=> (k = n /\ mk = m) \/ Asked(Tail(agenda), k, mk)
        /\ Rank[state[n]] >= Rank[m] =>
             UNCHANGED state /\ \A k, mk : Asked(agenda', k, mk) <=> Asked(Tail(agenda), k, mk)
        /\ ~(Rank[state[n]] >= Rank[m]) =>
             /\ state' = [state EXCEPT ![n] = m]
             /\ \A k, mk : Asked(agenda', k, mk) <=>
                  (Contains(observers[n], k) /\ mk = "Check") \/ Asked(Tail(agenda), k, mk)
        /\ UNCHANGED <<app, links, alive>>
    BY NotifyAsks
  <1> HIDE DEF n, m
  <1>2. state \in [Node -> NodeState] /\ LinksAgree /\ StaleEffects /\ alive \subseteq Node
    BY DEF StoreType, CallsInv
  <1>3. Rank["Clean"] = 0 /\ Rank["Check"] = 1 /\ Rank["Dirty"] = 2
    BY DEF Rank
  <1>4. SUFFICES ASSUME NEW j \in alive, NEW k \in Node, IsEffect(j), DependsOn(j, k),
                        state'[k] # "Clean"
                 PROVE  state'[j] # "Clean" \/ Marked(agenda', j)
    BY <1>1 DEF StaleEffects, IsEffect, DependsOn, links
  <1>5. CASE Rank[state[n]] >= Rank[m]
    <2>1. state[j] # "Clean" \/ Marked(agenda, j)
      BY <1>1, <1>2, <1>4, <1>5 DEF StaleEffects
    <2>2. CASE state[j] # "Clean"
      BY <1>1, <1>5, <2>2
    <2>3. CASE Marked(agenda, j)
      <3>1. PICK mk : Asked(agenda, j, mk)
        BY <2>3 DEF Marked
      <3>2. CASE j = n /\ mk = m
        <4>1. state[n] # "Clean"
          BY <1>1, <1>3, <1>5
        <4> QED
          BY <1>1, <1>5, <3>2, <4>1
      <3>3. CASE Asked(Tail(agenda), j, mk)
        BY <1>1, <1>5, <3>3 DEF Marked
      <3> QED
        BY <1>1, <3>1, <3>2, <3>3
    <2> QED
      BY <2>1, <2>2, <2>3
  <1>6. CASE ~(Rank[state[n]] >= Rank[m])
    <2>1. \A i \in Node : state'[i] = IF i = n THEN m ELSE state[i]
      BY <1>1, <1>2, <1>6
    <2>2. CASE k = n
      <3>1. Contains(observers[n], j)
        BY <1>2, <1>4, <2>2 DEF LinksAgree, DependsOn
      <3> QED
        BY <1>1, <1>6, <3>1 DEF Marked
    <2>3. CASE k # n
      <3>1. state[j] # "Clean" \/ Marked(agenda, j)
        BY <1>2, <1>4, <2>1, <2>3 DEF StaleEffects
      <3>2. CASE state[j] # "Clean" \/ j = n
        BY <1>1, <1>2, <1>4, <2>1, <3>2
      <3>3. CASE Marked(agenda, j) /\ j # n
        <4>1. PICK mk : Asked(agenda, j, mk)
          BY <3>3 DEF Marked
        <4>2. Asked(agenda', j, mk)
          BY <1>1, <1>6, <3>3, <4>1
        <4> QED
          BY <4>2 DEF Marked
      <3> QED
        BY <3>1, <3>2, <3>3
    <2> QED
      BY <2>2, <2>3
  <1> QED
    BY <1>5, <1>6

LEMMA StaleEffectsStep ==
  ASSUME TypeInv, CallsInv, TurnsInv, EffectMarks, EffectSources, StaleEffects, [Next]_vars
  PROVE  StaleEffects'
  <1>0. /\ StoreType /\ StackType(stack, depth) /\ LinksAgree /\ LinksOK
        /\ Shape(app, stack, observer) /\ app' = app /\ alive \subseteq Node
        /\ state \in [Node -> NodeState]
    BY TypeInvParts, LinksOKStep DEF CallsInv, StoreType
  <1>1. CASE Notify
    BY <1>0, <1>1, StaleEffectsNotify
  <1>2. CASE Event \/ Rest \/ UNCHANGED vars
    <2>1. UNCHANGED <<app, state, sources, agenda, alive>>
      BY <1>2 DEF Event, Dispatch, Rest, vars, graph, links
    <2> QED
      BY <1>0, <2>1 DEF StaleEffects, DependsOn, IsEffect
  <1>3. CASE Step /\ ~Notify
    <2>1. SUFFICES ASSUME NEW j \in alive', NEW m \in Node, IsEffect(j), DependsOn(j, m)',
                          state'[m] # "Clean"
                   PROVE  state'[j] # "Clean"
      BY <1>0 DEF StaleEffects, IsEffect
    <2>2. \A k : ~Marked(agenda, k)
      BY <1>0, <1>3, OthersAsk, EmptyAgenda DEF Marked
    <2>3. CASE j \notin alive
      <3>1. Mount /\ j = Arg /\ j \in Node
        BY <2>1, <2>3, EffectMounted
      <3> QED
        BY <1>0, <3>1 DEF Mount
    <2>4. CASE j \in alive
      <3>0. j \in Node
        BY <1>0, <2>4
      <3>1. \/ DependsOn(j, m)
            \/ (GetStale \/ Get) /\ j = observer
        BY <2>1, <3>0, DependsStep
      <3>2. CASE (GetStale \/ Get) /\ j = observer
        <4>1. state[j] = "Dirty"
          BY <1>0, <2>1, <2>4, <3>0, <3>2, ObserverRuns DEF EffectMarks
        <4> QED
          BY <3>2, <4>1 DEF GetStale, Get
      <3>3. CASE DependsOn(j, m)
        <4>1. state[m] # "Clean" => state[j] # "Clean"
          BY <1>0, <2>1, <2>2, <2>4, <3>3 DEF StaleEffects
        <4>2. CASE UNCHANGED state
          BY <2>1, <4>1, <4>2
        <4>3. CASE (CheckPassed \/ Settle) /\ Top.of \in Node /\ state' = [state EXCEPT ![Top.of] = "Clean"]
          <5>1. \A k \in Node : state'[k] = IF k = Top.of THEN "Clean" ELSE state[k]
            BY <1>0, <4>3
          <5>2. j = Top.of => state[m] = "Clean"
            BY <1>0, <2>1, <2>4, <3>3, <4>3, EffectTopSources
          <5> QED
            BY <2>1, <3>0, <4>1, <5>1, <5>2
        <4>4. CASE Mount /\ Arg \in Node /\ IsEffect(Arg) /\ state' = [state EXCEPT ![Arg] = "Dirty"]
          <5>1. \A k \in Node : state'[k] = IF k = Arg THEN "Dirty" ELSE state[k]
            BY <1>0, <4>4
          <5>2. m # Arg
            BY <1>0, <3>0, <3>3, <4>4 DEF LinksOK
          <5> QED
            BY <2>1, <3>0, <4>1, <5>1, <5>2
        <4>5. CASE BuildBranch
          <5>1. \A k \in Node : state'[k] # state[k] => Fresh(k)
            BY <4>5 DEF BuildBranch
          <5>2. ~Fresh(j) /\ ~Fresh(m)
            BY <1>0, <3>0, <3>3, FreshLinks
          <5> QED
            BY <2>1, <3>0, <4>1, <5>1, <5>2
        <4>6. CASE DisposeNodes
          <5>1. \A k \in Node : k \notin Dying(Top.of) => state'[k] = state[k]
            BY <4>6, DisposeNodesParts
          <5>2. j \notin Dying(Top.of) /\ m \notin Dying(Top.of)
            BY <1>0, <2>1, <3>0, <4>6, DisposedLinks
          <5> QED
            BY <2>1, <3>0, <4>1, <5>1, <5>2
        <4> QED
          BY <1>0, <1>3, <4>2, <4>3, <4>4, <4>5, <4>6, StatesStep
      <3> QED
        BY <3>1, <3>2, <3>3
    <2> QED
      BY <2>3, <2>4
  <1> QED
    BY <1>1, <1>2, <1>3 DEF Next

LEMMA NoNewEffectsStep ==
  ASSUME TypeInv, CallsInv, MarksInv, Disciplined, TurnsInv, AgendaInv, StaleEffects, NoNewEffects,
         [Next]_vars
  PROVE  NoNewEffects'
  <1>0. /\ StoreType /\ StackType(stack, depth) /\ LinksAgree /\ LinksOK /\ SignalsClean
        /\ Shape(app, stack, observer) /\ CallMarks /\ app' = app /\ app \in App
        /\ NoNewMarks /\ alive \subseteq Node /\ stack \in Seq(TypedFrame)
    BY TypeInvParts, LinksOKStep DEF CallsInv, MarksInv, StoreType, StackType
  <1>1. SUFFICES ASSUME ~Writing', NEW k \in alive', IsEffect(k), Marked(agenda', k)
                 PROVE  state'[k] # "Clean"
    BY <1>0 DEF NoNewEffects, IsEffect
  <1>2. CASE Notify
    <2> DEFINE n == Head(agenda).node
               m == Head(agenda).mark
    <2>1. /\ n \in Node /\ agenda # <<>>
          /\ \A i, mk : Asked(agenda, i, mk) <=> (i = n /\ mk = m) \/ Asked(Tail(agenda), i, mk)
          /\ Rank[state[n]] >= Rank[m] =>
               \A i, mk : Asked(agenda', i, mk) <=> Asked(Tail(agenda), i, mk)
          /\ ~(Rank[state[n]] >= Rank[m]) =>
               \A i, mk : Asked(agenda', i, mk) <=>
                    (Contains(observers[n], i) /\ mk = "Check") \/ Asked(Tail(agenda), i, mk)
          /\ stack' = stack /\ alive' = alive
      BY <1>0, <1>2, NotifyAsks
    <2> HIDE DEF n, m
    <2>2. PICK mk : Asked(agenda', k, mk)
      BY <1>1 DEF Marked
    <2>3. Contains(observers[n], k) \/ Asked(Tail(agenda), k, mk)
      BY <2>1, <2>2
    <2>4. ~Writing /\ k \in alive /\ k \in Node
      BY <1>0, <1>1, <2>1 DEF Writing, AwaitsRound, Top
    <2>5. state[k] # "Clean"
      <3>1. CASE Asked(Tail(agenda), k, mk)
        <4>1. Marked(agenda, k)
          BY <2>1, <3>1 DEF Marked
        <4> QED
          BY <1>1, <2>4, <4>1 DEF NoNewEffects
      <3>2. CASE Contains(observers[n], k)
        <4>1. DependsOn(k, n) /\ ~IsEffect(n)
          BY <1>0, <2>1, <2>4, <3>2 DEF LinksAgree, LinksOK, DependsOn
        <4>2. Marked(agenda, n) /\ ~IsSignal(n)
          BY <1>0, <2>1 DEF Marked, SignalsClean
        <4>3. IsMemo(n)
          <5>1. app.kind[n] \in {"signal", "memo", "effect"}
            BY <1>0, <2>1, AppAssumption
          <5> QED
            BY <4>1, <4>2, <5>1 DEF IsMemo, IsSignal, IsEffect
        <4>4. Pulling(app, stack)
          <5>1. stack # <<>> /\ MemoCall(app, Top)
            BY <2>1, <2>4 DEF AgendaInv
          <5>2. Called(stack, Top.op, Top.of)
            BY <1>0, <5>1, HeldFrames, HoldsCalled
          <5> QED
            BY <5>1, <5>2 DEF Pulling, MemoCall
        <4>5. state[n] # "Clean"
          BY <1>0, <2>1, <4>2, <4>3, <4>4 DEF NoNewMarks
        <4>6. state[k] # "Clean" \/ Marked(agenda, k)
          BY <1>1, <2>1, <2>4, <4>1, <4>5 DEF StaleEffects
        <4> QED
          BY <1>1, <2>4, <4>6 DEF NoNewEffects
      <3> QED
        BY <2>3, <3>1, <3>2
    <2> QED
      BY <1>0, <1>2, <2>4, <2>5, NotifyStates
  <1>3. CASE Event \/ Rest \/ UNCHANGED vars
    <2>1. Event => agenda' = <<>>
      BY DEF Event, Dispatch
    <2>2. ~Event
      BY <1>1, <2>1, EmptyAgenda DEF Marked
    <2>3. UNCHANGED <<stack, agenda, state, alive>>
      BY <1>3, <2>2 DEF Rest, vars, graph
    <2>4. ~Writing
      BY <1>1, <2>3 DEF Writing, AwaitsRound, Top
    <2> QED
      BY <1>0, <1>1, <2>3, <2>4 DEF NoNewEffects
  <1>4. CASE Step /\ ~Notify
    <2>1. agenda' # <<>> /\ \A i : ~Marked(agenda, i)
      BY <1>0, <1>1, <1>4, OthersAsk, EmptyAgenda DEF Marked
    <2>2. PICK mk : Asked(agenda', k, mk)
      BY <1>1 DEF Marked
    <2>3. CASE Return /\ IsMemo(Top.of) /\ Top.of \in Node /\ Contains(observers[Top.of], k)
      <3>0. k \in alive /\ k \in Node
        BY <1>0, <1>1, <2>3 DEF Return
      <3>1. DependsOn(k, Top.of)
        BY <1>0, <2>3, <3>0 DEF LinksAgree, DependsOn
      <3>2. Called(stack, "run", Top.of)
        <4>1. stack # <<>> /\ Top.op = "run"
          BY <2>3 DEF Return, At
        <4> QED
          BY <1>0, <4>1, CalledPop DEF Top
      <3>3. state[Top.of] = "Dirty"
        BY <1>0, <2>3, <3>2 DEF CallMarks
      <3>4. state[k] # "Clean"
        BY <1>1, <2>1, <2>3, <3>0, <3>1, <3>3 DEF StaleEffects
      <3> QED
        BY <2>3, <3>4 DEF Return
    <2>4. CASE Set
      <3>1. Writing'
        BY <1>0, <2>1, <2>4, WriteTop DEF Writing, AwaitsRound
      <3> QED
        BY <1>1, <3>1
    <2> QED
      BY <1>0, <1>4, <2>1, <2>2, <2>3, <2>4, OthersAsk
  <1> QED
    BY <1>2, <1>3, <1>4 DEF Next

\* What is to hold of an effect and a node it has read.
SourceDone(n, m) ==
  /\ Called(stack, "visit", n) =>
       state[m] = "Clean" \/ InProgress(stack, m) \/ state[n] = "Dirty" \/ ToVisit(stack, n, m)
  /\ Called(stack, "settle", n) => state[m] = "Clean" \/ InProgress(stack, m)

\* The effect and the source keep their state, and so do the calls.
LEMMA EffectSourcesSame ==
  ASSUME NEW n, NEW m, SourceDone(n, m),
         state[m] = "Clean" => state'[m] = "Clean",
         state[n] = "Dirty" => state'[n] = "Dirty",
         SameWork(stack, stack')
  PROVE  SourceDone(n, m)'
  <1>1. \A op \in {"visit", "settle"} : \A k : Called(stack', op, k) <=> Called(stack, op, k)
    BY DEF SameWork, Working
  <1>2. InProgress(stack', m) <=> InProgress(stack, m)
    BY <1>1 DEF InProgress
  <1> QED
    BY <1>1, <1>2 DEF SourceDone, SameWork

LEMMA EffectSourcesVisits ==
  ASSUME StoreType, NEW k \in Node, NEW passed \in BOOLEAN, Visits(k, passed),
         NEW n \in Node, NEW m \in Node,
         (DependsOn(n, m) /\ SourceDone(n, m)) \/ (state[m] # "Clean" /\ m = k /\ n # k),
         UNCHANGED <<app, state>>
  PROVE  SourceDone(n, m)'
  <1>1. /\ \A op \in {"visit", "settle"} : \A j : Called(stack', op, j) <=>
             Called(stack, op, j) \/ (state[k] # "Clean" /\ op = "visit" /\ j = k)
        /\ ToVisit(stack, n, m) => ToVisit(stack', n, m) \/ m = k
        /\ state[k] = "Check" /\ Contains(sources[k], m) => ToVisit(stack', k, m)
    BY DEF Visits, Working
  <1>2. InProgress(stack, m) \/ (state[k] # "Clean" /\ m = k) => InProgress(stack', m)
    BY <1>1 DEF InProgress
  <1>3. state[k] \in {"Clean", "Check", "Dirty"}
    BY DEF StoreType, NodeState
  <1>4. CASE state[m] # "Clean" /\ m = k
    BY <1>2, <1>4 DEF SourceDone
  <1>5. CASE DependsOn(n, m) /\ SourceDone(n, m) /\ ~(state[m] # "Clean" /\ m = k)
    <2>1. ASSUME Called(stack', "settle", n) PROVE state'[m] = "Clean" \/ InProgress(stack', m)
      BY <1>1, <1>2, <1>5, <2>1 DEF SourceDone
    <2>2. ASSUME Called(stack', "visit", n)
          PROVE  state'[m] = "Clean" \/ InProgress(stack', m) \/ state'[n] = "Dirty" \/ ToVisit(stack', n, m)
      <3>1. CASE Called(stack, "visit", n)
        <4>1. state[m] = "Clean" \/ InProgress(stack, m) \/ state[n] = "Dirty" \/ ToVisit(stack, n, m)
          BY <1>5, <3>1 DEF SourceDone
        <4> QED
          BY <1>1, <1>2, <1>5, <4>1
      <3>2. CASE state[k] # "Clean" /\ n = k
        BY <1>1, <1>3, <1>5, <3>2 DEF DependsOn
      <3> QED
        BY <1>1, <2>2, <3>1, <3>2
    <2> QED
      BY <2>1, <2>2 DEF SourceDone
  <1> QED
    BY <1>4, <1>5

LEMMA EffectSourcesStep ==
  ASSUME TypeInv, CallsInv, MarksInv, TurnsInv, AgendaInv, EffectSources, [Next]_vars
  PROVE  EffectSources'
  <1>0. /\ StoreType /\ StackType(stack, depth) /\ LinksAgree /\ LinksOK
        /\ Shape(app, stack, observer) /\ app' = app /\ app \in App
        /\ stack \in Seq(TypedFrame) /\ Top = Head(stack) /\ Below = Tail(stack)
        /\ state \in [Node -> NodeState] /\ alive \subseteq Node
    BY TypeInvParts, LinksOKStep DEF CallsInv, StoreType, StackType, Top, Below
  <1>1. SUFFICES ASSUME NEW n \in alive', NEW m \in Node, IsEffect(n), DependsOn(n, m)'
                 PROVE  SourceDone(n, m)'
    BY <1>0 DEF EffectSources, IsEffect, SourceDone
  <1>2. n \in alive /\ n \in Node
    <2>1. ASSUME n \notin alive PROVE FALSE
      <3>1. Mount /\ n \in Node /\ Fresh(n)
        BY <1>1, <2>1, EffectMounted
      <3>2. ~DependsOn(n, m)
        BY <1>0, <3>1, FreshLinks
      <3> QED
        BY <1>1, <3>1, <3>2 DEF Mount, links, DependsOn
    <2> QED
      BY <1>0, <2>1
  <1>3. DependsOn(n, m) => SourceDone(n, m) /\ ~IsEffect(m)
    BY <1>0, <1>1, <1>2 DEF EffectSources, SourceDone, LinksOK
  <1>4. ASSUME SameWork(stack, stack'), DependsOn(n, m),
               state[m] = "Clean" => state'[m] = "Clean",
               state[n] = "Dirty" => state'[n] = "Dirty"
        PROVE  SourceDone(n, m)'
    BY <1>3, <1>4, EffectSourcesSame
  <1>5. GetStale \/ Get \/ DependsOn(n, m)
    BY <1>1, <1>2, DependsStep
  <1>6. CASE Notify
    <2>0. stack' = stack /\ DependsOn(n, m)
      BY <1>5, <1>6 DEF Notify, GetStale, Get, Doing, InCode, At
    <2>1. ASSUME NEW op \in Working, Called(stack, op, n)
          PROVE  /\ state[m] = "Clean" => state'[m] = "Clean"
                 /\ state[n] = "Dirty" => state'[n] = "Dirty"
      <3>1. ~Writing
        BY <1>0, <1>1, <1>2, <2>1, EffectsInTurn
      <3>2. stack # <<>> /\ MemoCall(app, Top)
        BY <1>6, <3>1 DEF AgendaInv, Notify
      <3>3. Called(stack, Top.op, Top.of)
        BY <1>0, <3>2, HeldFrames, HoldsCalled
      <3>4. Pulling(app, stack)
        BY <3>2, <3>3 DEF Pulling, MemoCall
      <3> QED
        BY <1>0, <1>2, <1>3, <1>6, <2>0, <3>4, NotifyStates DEF MarksInv
    <2>2. CASE \E op \in Working : Called(stack, op, n)
      <3>1. SameWork(stack, stack')
        BY <2>0 DEF SameWork
      <3> QED
        BY <1>4, <2>0, <2>1, <2>2, <3>1
    <2>3. CASE \A op \in Working : ~Called(stack, op, n)
      BY <2>0, <2>3 DEF SourceDone, Working
    <2> QED
      BY <2>2, <2>3
  <1>7. CASE Peek \/ BuildMounted \/ Jump
    <2>1. UNCHANGED state /\ ~GetStale /\ ~Get
      BY <1>7 DEF Peek, BuildMounted, Jump, OnlyTheStack, graph, GetStale, Get, Doing
    <2> QED
      BY <1>0, <1>4, <1>5, <1>7, <2>1, MovedWork
  <1>8. CASE Get
    <2>1. UNCHANGED state /\ SameWork(stack, stack') /\ state[Arg] = "Clean"
      BY <1>0, <1>8, MovedWork DEF Get
    <2>2. CASE DependsOn(n, m)
      BY <1>4, <2>1, <2>2
    <2>3. CASE m = Arg
      BY <2>1, <2>3 DEF SourceDone
    <2> QED
      BY <1>1, <1>2, <2>2, <2>3, DependsStep
  <1>9. CASE GetStale
    <2>1. UNCHANGED <<app, state>> /\ state[Arg] # "Clean" /\ Doing("get")
      BY <1>9 DEF GetStale
    <2>2. Arg \in Node /\ ~IsEffect(Arg)
      BY <1>0, <2>1, Reads
    <2>3. Visits(Arg, FALSE)
      BY <1>0, <1>9, <2>2, GetStaleWork
    <2>4. DependsOn(n, m) \/ (m = Arg /\ n # Arg)
      BY <1>1, <1>2, <2>2, DependsStep
    <2> QED
      BY <1>0, <1>2, <1>3, <2>1, <2>2, <2>3, <2>4, EffectSourcesVisits
  <1>10. CASE CheckSource
    <2>1. Head(Top.todo) \in Node /\ Visits(Head(Top.todo), TRUE)
      BY <1>0, <1>10, CheckSourceWork
    <2>2. UNCHANGED <<app, state>> /\ DependsOn(n, m)
      BY <1>5, <1>10 DEF CheckSource, OnlyTheStack, graph, GetStale, Get, Doing, InCode, At
    <2> QED
      BY <1>0, <1>2, <1>3, <2>1, <2>2, EffectSourcesVisits
  <1>11. CASE FlushRun
    <2>1. UNCHANGED <<app, state>> /\ DependsOn(n, m)
      BY <1>5, <1>11 DEF FlushRun, OnlyTheStack, graph, GetStale, Get, Doing, InCode, At
    <2>2. CASE SameWork(stack, stack')
      BY <1>4, <2>1, <2>2
    <2>3. CASE \E k \in Node : k \in alive /\ Visits(k, FALSE)
      BY <1>0, <1>2, <1>3, <2>1, <2>3, EffectSourcesVisits
    <2> QED
      BY <1>0, <1>11, <2>2, <2>3, FlushRunWork
  <1>12. CASE CheckPassed \/ Settle
    <2>1. /\ stack # <<>> /\ Top.of \in Node /\ Top.op \in {"visit", "settle"}
          /\ state' = [state EXCEPT ![Top.of] = "Clean"] /\ DependsOn(n, m) /\ stack' = Below
      BY <1>0, <1>5, <1>12, TopFacts, FrameFields
         DEF CheckPassed, Settle, At, GetStale, Get, Doing, InCode
    <2>2. \A k \in Node : state'[k] = IF k = Top.of THEN "Clean" ELSE state[k]
      BY <1>0, <2>1
    <2>3. /\ \A op, j : Called(stack, op, j) <=> Called(stack', op, j) \/ (Top.op = op /\ Top.of = j)
          /\ ToVisit(stack', n, m) <=> ToVisit(stack, n, m)
      BY <1>0, <1>12, PopWork
    <2>4. CASE m = Top.of
      BY <1>1, <2>2, <2>4 DEF SourceDone
    <2>5. CASE m # Top.of /\ n = Top.of
      <3>1. \A op \in Working : ~Called(Below, op, n)
        BY <1>0, <1>1, <2>1, <2>5, TopOfEffect
      <3> QED
        BY <2>1, <3>1 DEF SourceDone, Working
    <2>6. CASE m # Top.of /\ n # Top.of
      <3>1. state'[m] = state[m] /\ state'[n] = state[n]
        BY <1>2, <2>2, <2>6
      <3>2. InProgress(stack', m) <=> InProgress(stack, m)
        BY <2>3, <2>6 DEF InProgress
      <3>3. \A op : Called(stack', op, n) <=> Called(stack, op, n)
        BY <2>3, <2>6
      <3> QED
        BY <1>3, <2>1, <2>3, <3>1, <3>2, <3>3 DEF SourceDone
    <2> QED
      BY <2>4, <2>5, <2>6
  <1>13. CASE Return
    <2>1. UNCHANGED state /\ DependsOn(n, m) /\ Top.op = "run"
      <3>1. UNCHANGED <<state, sources>> /\ Top.op = "run"
        BY <1>13 DEF Return, At, links
      <3> QED
        BY <1>1, <3>1 DEF DependsOn
    <2>2. /\ \A op, j : Called(stack, op, j) <=> Called(stack', op, j) \/ (Top.op = op /\ Top.of = j)
          /\ ToVisit(stack', n, m) <=> ToVisit(stack, n, m)
      BY <1>0, <1>13, PopWork
    <2>3. \A op \in {"visit", "settle"} : \A j : Called(stack', op, j) <=> Called(stack, op, j)
      BY <2>1, <2>2
    <2>4. InProgress(stack', m) <=> InProgress(stack, m)
      BY <2>3 DEF InProgress
    <2> QED
      BY <1>3, <2>1, <2>2, <2>3, <2>4 DEF SourceDone
  <1>14. CASE Update
    <2>1. /\ stack # <<>> /\ Top.of \in Node /\ Top.op = "visit" /\ Unlinked(Top.of)
          /\ UNCHANGED state
      BY <1>0, <1>14, TopFacts, FrameFields DEF Update, At
    <2>2. n # Top.of /\ DependsOn(n, m)
      BY <1>0, <1>1, <1>2, <2>1, UnlinkedLinks
    <2>3. /\ \A op, j : Called(stack, op, j) <=> Called(Below, op, j) \/ (op = "visit" /\ Top.of = j)
          /\ \A op, j : Called(stack', op, j) <=>
               \/ Called(Below, op, j)
               \/ op = "settle" /\ j = Top.of
               \/ op = "run" /\ j = Top.of /\ Top.of \in ready
          /\ ToVisit(stack, n, m) => ToVisit(stack', n, m)
      BY <1>0, <1>14, <2>2, UpdateWork
    <2>4. InProgress(stack, m) => InProgress(stack', m)
      BY <2>3 DEF InProgress
    <2>5. /\ Called(stack', "visit", n) => Called(stack, "visit", n)
          /\ Called(stack', "settle", n) => Called(stack, "settle", n)
      BY <2>2, <2>3
    <2> QED
      BY <1>3, <2>1, <2>2, <2>3, <2>4, <2>5 DEF SourceDone
  <1>15. CASE Mount
    <2>1. DependsOn(n, m) /\ n # Arg
      BY <1>2, <1>5, <1>15 DEF Mount, GetStale, Get, Doing, Fresh
    <2>2. /\ IsEffect(Arg)
          /\ \A op \in Working : \A j : Called(stack', op, j) <=>
               Called(stack, op, j) \/ (op = "visit" /\ j = Arg)
          /\ ToVisit(stack', n, m) <=> ToVisit(stack, n, m)
      BY <1>0, <1>15, MountWork
    <2>3. m # Arg
      BY <1>3, <2>1, <2>2
    <2>4. state'[m] = state[m] /\ state'[n] = state[n]
      BY <1>0, <1>2, <1>15, <2>1, <2>3 DEF Mount
    <2>5. \A op \in {"visit", "settle"} :
            /\ Called(stack', op, n) <=> Called(stack, op, n)
            /\ Called(stack', op, m) <=> Called(stack, op, m)
      BY <2>1, <2>2, <2>3 DEF Working
    <2> QED
      BY <1>3, <2>1, <2>2, <2>4, <2>5 DEF SourceDone, InProgress
  <1>16. CASE Set \/ HandlerReturns \/ FlushTake \/ FlushDone \/ Event
    <2>1. UNCHANGED <<state, sources>>
      BY <1>16 DEF Set, HandlerReturns, FlushTake, FlushDone, Event, Dispatch, OnlyTheStack, graph, links
    <2>2. DependsOn(n, m)
      BY <1>1, <2>1 DEF DependsOn
    <2> QED
      BY <1>0, <1>4, <1>16, <2>1, <2>2, QuietWork
  <1>17. CASE BuildBranch
    <2>1. DependsOn(n, m)
      BY <1>1, <1>17 DEF BuildBranch, links, DependsOn
    <2>2. \A k \in Node : state'[k] # state[k] => Fresh(k)
      BY <1>17 DEF BuildBranch
    <2>3. state'[n] = state[n] /\ state'[m] = state[m]
      BY <1>0, <1>2, <2>1, <2>2, FreshLinks
    <2> QED
      BY <1>0, <1>4, <1>17, <2>1, <2>3, QuietWork
  <1>18. CASE Dispose \/ DisposeChild \/ TakeCleanups \/ RunCleanup
    <2>1. UNCHANGED <<state, sources>>
      BY <1>18 DEF Dispose, DisposeChild, CallDispose, TakeCleanups, RunCleanup, OnlyTheStack, graph, links
    <2>2. DependsOn(n, m)
      BY <1>1, <2>1 DEF DependsOn
    <2> QED
      BY <1>0, <1>4, <1>18, <2>1, <2>2, DisposeWork
  <1>19. CASE DisposeNodes
    <2>1. n \notin Dying(Top.of) /\ m \notin Dying(Top.of) /\ DependsOn(n, m)
      BY <1>0, <1>1, <1>2, <1>19, DisposedLinks
    <2>2. \A k \in Node : k \notin Dying(Top.of) => state'[k] = state[k]
      BY <1>19, DisposeNodesParts
    <2>3. state'[n] = state[n] /\ state'[m] = state[m]
      BY <1>2, <2>1, <2>2
    <2> QED
      BY <1>0, <1>4, <1>19, <2>1, <2>3, DisposeWork
  <1>20. CASE Rest \/ UNCHANGED vars
    <2>1. UNCHANGED <<state, stack>> /\ DependsOn(n, m)
      BY <1>1, <1>20 DEF Rest, vars, graph, links, DependsOn
    <2> QED
      BY <1>0, <1>4, <2>1 DEF SameWork
  <1> QED
    BY <1>6, <1>7, <1>8, <1>9, <1>10, <1>11, <1>12, <1>13, <1>14, <1>15, <1>16, <1>17,
       <1>18, <1>19, <1>20 DEF Next, Step

\* Which effects a step leaves in the queue or in a flush.
LEMMA BatchOnly ==
  ASSUME TypeInv, CallsInv, [Next]_vars, ~Event, Batching' PROVE Batching
  <1>0. /\ StoreType /\ StackType(stack, depth) /\ stack' \in Seq(TypedFrame)
        /\ stack \in Seq(TypedFrame)
    BY TypeInvParts, NextStack DEF StackType
  <1>1. \E g \in TypedFrame : Contains(stack', g) /\ g.op = "batch"
    <2>1. \E h : Called(stack', "batch", h)
      BY DEF Batching
    <2> QED
      BY <1>0, <2>1, BatchHolds
  <1>2. PICK g \in TypedFrame : Contains(stack', g) /\ g.op = "batch"
    BY <1>1
  <1>3. \E k \in TypedFrame : Contains(stack, k) /\ k.op = "batch"
    <2>1. CASE Contains(stack, g)
      BY <1>2, <2>1
    <2>2. CASE stack # <<>> /\ OnAs(g)
      BY <1>0, <1>2, <2>2, HeldFrames DEF OnAs
    <2>3. ~Entered(g)
      BY <1>2 DEF Entered
    <2> QED
      BY <1>2, <2>1, <2>2, <2>3, NextFrames
  <1> QED
    BY <1>0, <1>3, BatchHolds DEF Batching

LEMMA ToRunStep ==
  ASSUME TypeInv, CallsInv, [Next]_vars, NEW n, ToRun(stack', n)
  PROVE  ToRun(stack, n) \/ (FlushTake /\ Contains(pending, n))
  <1>0. StoreType /\ StackType(stack, depth)
    BY TypeInvParts
  <1>1. PICK f \in TypedFrame : Contains(stack', f) /\ f.op = "flush" /\ Contains(f.todo, n)
    BY DEF ToRun
  <1>2. CASE Contains(stack, f)
    BY <1>1, <1>2 DEF ToRun
  <1>3. CASE stack # <<>> /\ OnAs(f)
    <2>1. CASE FlushTake /\ f.todo = pending
      BY <1>1, <2>1
    <2>2. CASE Top.todo # <<>> /\ f.todo = Tail(Top.todo)
      <3>1. Top \in TypedFrame /\ Contains(stack, Top) /\ Top.op = "flush"
        BY <1>0, <1>1, <1>3, HeldFrames DEF OnAs
      <3>2. Top.todo \in Seq(Node)
        BY <3>1, FrameFields
      <3>3. \A i \in 1..Len(f.todo) : i + 1 \in 1..Len(Top.todo) /\ f.todo[i] = Top.todo[i + 1]
        BY <2>2, <3>2
      <3>4. Contains(Top.todo, n)
        BY <1>1, <3>3 DEF Contains
      <3> QED
        BY <3>1, <3>4 DEF ToRun
    <2> QED
      BY <1>1, <1>3, <2>1, <2>2 DEF OnAs
  <1>4. ~Entered(f) /\ f.todo # <<>>
    BY <1>1, NothingListed DEF Entered
  <1> QED
    BY <1>1, <1>2, <1>3, <1>4, NextFrames

LEMMA RunsCounted ==
  ASSUME StoreType, [Next]_vars, ~Event, NEW n \in Node
  PROVE  \/ runs'[n] = runs[n] /\ ~(Mount /\ n = Arg)
         \/ Update /\ n = Top.of /\ runs'[n] = runs[n] + 1
         \/ Mount /\ n = Arg /\ runs'[n] = 0
  <1>0. runs \in [Node -> Nat]
    BY DEF StoreType
  <1>1. CASE Update
    <2>1. runs' \in {runs, [runs EXCEPT ![Top.of] = @ + 1]}
      BY <1>1 DEF Update
    <2>2. ~Mount
      BY <1>1 DEF Update, Mount, Doing, InCode, At
    <2> QED
      BY <1>0, <1>1, <2>1, <2>2
  <1>2. CASE Mount
    BY <1>0, <1>2 DEF Mount
  <1>3. CASE ~Update /\ ~Mount
    <2>1. runs' = runs
      BY <1>3 DEF Next, Step, Notify, CheckSource, CheckPassed, Return, Settle, FlushTake, FlushRun,
         FlushDone, GetStale, Get, Peek, Set, BuildBranch, BuildMounted, Jump, HandlerReturns,
         Dispose, DisposeChild, CallDispose, TakeCleanups, RunCleanup, DisposeNodes, Rest,
         OnlyTheStack, ghosts, vars
    <2> QED
      BY <1>3, <2>1
  <1> QED
    BY <1>1, <1>2, <1>3

\* An effect is queued by the writes of a handler, before any effect runs if the
\* handler runs in a batch.
LEMMA QueuedIn ==
  ASSUME StoreType, StackType(stack, depth), AgendaInv, NoNewEffects, BatchRuns, batched, [Next]_vars,
         NEW n \in alive, IsEffect(n), Contains(pending', n)
  PROVE  runs[n] = 0
  <1>0. pending \in Seq(Node) /\ n \in Node
    BY DEF StoreType
  <1>1. CASE Contains(pending, n)
    BY <1>0, <1>1 DEF BatchRuns
  <1>2. CASE ~Contains(pending, n)
    <2>1. Notify
      <3>1. pending' # pending /\ pending' # <<>>
        BY <1>2, NothingListed
      <3> QED
        BY <3>1 DEF Next, Step, CheckSource, CheckPassed, Update, Return, Settle, FlushTake,
             FlushRun, FlushDone, GetStale, Get, Peek, Set, Mount, BuildBranch, BuildMounted, Jump,
             HandlerReturns, Dispose, DisposeChild, CallDispose, TakeCleanups, RunCleanup,
             DisposeNodes, Event, Dispatch, Rest, OnlyTheStack, vars
    <2>2. /\ agenda # <<>> /\ Head(agenda).node \in Node
          /\ \A k, mk : k = Head(agenda).node /\ mk = Head(agenda).mark => Asked(agenda, k, mk)
      BY <2>1, NotifyAsks
    <2>3. n = Head(agenda).node /\ state[n] = "Clean"
      <3>1. \/ pending' = pending
            \/ /\ pending' = Append(pending, Head(agenda).node)
               /\ state[Head(agenda).node] = "Clean"
        BY <2>1 DEF Notify, Queues
      <3>2. \A y : Contains(Append(pending, Head(agenda).node), y) <=>
              Contains(pending, y) \/ y = Head(agenda).node
        BY <1>0, <2>2, AppendedList
      <3> QED
        BY <1>2, <3>1, <3>2
    <2>4. Marked(agenda, n)
      BY <2>2, <2>3 DEF Marked
    <2>5. Writing
      BY <2>3, <2>4 DEF NoNewEffects
    <2>6. Batching
      BY <2>2, <2>5, WritingBatches DEF AgendaInv
    <2> QED
      BY <1>0, <2>6 DEF BatchRuns
  <1> QED
    BY <1>1, <1>2

LEMMA BatchRunsStep ==
  ASSUME TypeInv, CallsInv, TurnsInv, OneTurn, AgendaInv, QueueInv, NoNewEffects, BatchRuns,
         [Next]_vars
  PROVE  BatchRuns'
  <1>0. StoreType /\ StackType(stack, depth) /\ app' = app /\ alive \subseteq Node
    BY TypeInvParts, LinksOKStep DEF StoreType
  <1>1. SUFFICES ASSUME batched', NEW n \in Node, IsEffect(n)
                 PROVE  /\ runs'[n] <= 1
                        /\ Batching' => runs'[n] = 0
                        /\ Called(stack', "visit", n) => runs'[n] = 0
                        /\ n \in alive' /\ (Contains(pending', n) \/ ToRun(stack', n)) => runs'[n] = 0
    BY <1>0 DEF BatchRuns, IsEffect
  <1>2. CASE Event
    <2>1. runs'[n] = 0
      BY <1>2 DEF Event, Dispatch
    <2> QED
      BY <2>1
  <1>3. CASE ~Event
    <2>1. batched
      BY <1>1, <1>3, BatchedKept
    <2>2. /\ runs[n] <= 1
          /\ Batching => runs[n] = 0
          /\ Called(stack, "visit", n) => runs[n] = 0
          /\ n \in alive /\ (Contains(pending, n) \/ ToRun(stack, n)) => runs[n] = 0
      BY <1>1, <2>1 DEF BatchRuns
    <2>3. n \in alive' /\ n \notin alive => Mount /\ n = Arg
      BY <1>1, EffectMounted
    <2>4. CASE Mount /\ n = Arg /\ runs'[n] = 0
      BY <2>4
    <2>5. CASE runs'[n] = runs[n] /\ ~(Mount /\ n = Arg)
      <3>1. Batching' => runs[n] = 0
        BY <1>3, <2>2, BatchOnly
      <3>2. Called(stack', "visit", n) => runs[n] = 0
        <4>1. ASSUME FlushRun, n \in alive, n = Head(Top.todo) PROVE ToRun(stack, n)
          <5>1. stack # <<>> /\ Top.op = "flush" /\ Top.todo # <<>>
            BY <4>1 DEF FlushRun, At
          <5>2. Top \in TypedFrame /\ Contains(stack, Top) /\ Top.todo \in Seq(Node)
            BY <1>0, <5>1, HeldFrames, FrameFields
          <5>3. Contains(Top.todo, n)
            <6>1. 1 \in 1..Len(Top.todo) /\ n = Top.todo[1]
              BY <4>1, <5>1, <5>2
            <6> QED
              BY <6>1 DEF Contains
          <5> QED
            BY <5>1, <5>2, <5>3 DEF ToRun
        <4>2. "visit" \in Working /\ "visit" \notin {"settle", "run"}
          BY DEF Working
        <4> QED
          BY <1>1, <2>2, <2>5, <4>1, <4>2, EffectCalls
      <3>3. n \in alive' /\ Contains(pending', n) => runs[n] = 0
        BY <1>0, <1>1, <2>1, <2>3, <2>5, QueuedIn
      <3>4. n \in alive' /\ ToRun(stack', n) => runs[n] = 0
        BY <2>2, <2>3, <2>5, ToRunStep
      <3> QED
        BY <2>2, <2>5, <3>1, <3>2, <3>3, <3>4
    <2>6. CASE Update /\ n = Top.of /\ runs'[n] = runs[n] + 1
      <3>1. stack # <<>> /\ Top.op = "visit" /\ "visit" \in Working
        BY <2>6 DEF Update, At, Working
      <3>2. Called(stack, "visit", n) /\ ~Called(Below, "visit", n)
        BY <1>0, <1>1, <2>6, <3>1, TopOfEffect
      <3>3. runs[n] = 0 /\ ~Batching /\ ~AwaitsRound
        BY <1>0, <1>1, <2>2, <3>1, <3>2, EffectsInTurn
      <3>4. ~Batching'
        BY <1>3, <3>3, BatchOnly
      <3>5. ~Called(stack', "visit", n)
        <4>1. Called(stack', "visit", n) => Called(Below, "visit", n)
          BY <1>0, <2>6, UpdateWork
        <4> QED
          BY <3>2, <4>1
      <3>6. ~ToRun(stack, n)
        BY <1>1, <3>1, <3>2 DEF OneTurn
      <3>7. n \in alive' => ~Contains(pending', n) /\ ~ToRun(stack', n)
        <4>1. alive' = alive /\ pending' = pending
          BY <2>6 DEF Update
        <4>2. ~FlushTake
          BY <3>1 DEF FlushTake, At
        <4>3. n \in alive => ~Contains(pending, n)
          BY <1>1, <3>3 DEF QueueInv
        <4>4. ~ToRun(stack', n)
          BY <3>6, <4>2, ToRunStep
        <4> QED
          BY <4>1, <4>3, <4>4
      <3> QED
        BY <2>6, <3>3, <3>4, <3>5, <3>7
    <2> QED
      BY <1>0, <1>1, <1>3, <2>4, <2>5, <2>6, RunsCounted
  <1> QED
    BY <1>2, <1>3

LEMMA EffectsInit == Init => EffectsInv
  <1> SUFFICES ASSUME Init PROVE EffectsInv
    OBVIOUS
  <1> DEFINE f == NewFrame("handler", app.build[Root], <<>>)
  <1>1. /\ app \in App /\ agenda = <<>> /\ pending = <<>> /\ ~batched
        /\ sources = [n \in Node |-> <<>>] /\ stack = <<f>>
        /\ scopes = [s \in Scope |-> [alive |-> s = Root, children |-> <<>>, cleanups |-> <<>>]]
    BY DEF Init
  <1>2. f.op = "handler" /\ \A x : ~Contains(<<>>, x)
    BY NothingListed DEF NewFrame
  <1> HIDE DEF f
  <1>3. Len(stack) = 1 /\ stack[1] = f /\ Top = f /\ stack # <<>>
    BY <1>1 DEF Top
  <1>4. \A op \in Working \cup {"batch"} : \A n : ~Called(stack, op, n)
    BY <1>2, <1>3 DEF Called, Working
  <1>5. \A g : Contains(stack, g) => g = f
    BY <1>3 DEF Contains
  <1>6. TurnsInv
    <2>1. Waiting(app, stack)
      BY <1>3 DEF Waiting
    <2>2. \A g \in TypedFrame : Contains(stack, g) => FrameOK(app, alive, g)
      BY <1>2, <1>5 DEF FrameOK
    <2>3. \A s \in Scope : scopes[s].cleanups = <<>>
      BY <1>1
    <2> QED
      BY <1>2, <2>1, <2>2, <2>3 DEF TurnsInv
  <1>7. \A n : ~ToRun(stack, n)
    BY <1>2, <1>5 DEF ToRun
  <1>8. ~AwaitsRound /\ ~Batching
    BY <1>2, <1>3, <1>4 DEF AwaitsRound, Batching
  <1>9. \A n, m \in Node : ~DependsOn(n, m)
    BY <1>1, <1>2 DEF DependsOn
  <1>10. alive \subseteq Node
    BY DEF Init, Owned
  <1>11. OneTurn /\ AgendaInv
    BY <1>1, <1>7 DEF OneTurn, AgendaInv
  <1>12. QueueInv
    BY <1>1, <1>2 DEF QueueInv, Once
  <1>13. EffectMarks /\ StaleEffects /\ EffectSources
    BY <1>4, <1>9, <1>10 DEF EffectMarks, StaleEffects, EffectSources, Working
  <1>14. NoNewEffects /\ BatchRuns
    BY <1>1, EmptyAgenda DEF NoNewEffects, Marked, BatchRuns
  <1> QED
    BY <1>6, <1>11, <1>12, <1>13, <1>14 DEF EffectsInv

LEMMA EffectsStep ==
  ASSUME TypeInv, CallsInv, MarksInv, Disciplined, EffectsInv, [Next]_vars PROVE EffectsInv'
  <1>1. /\ TurnsInv /\ OneTurn /\ AgendaInv /\ QueueInv /\ Once(alive, pending)
        /\ EffectMarks /\ StaleEffects /\ NoNewEffects /\ EffectSources /\ BatchRuns
    BY DEF EffectsInv, QueueInv
  <1>2. TurnsInv' /\ OneTurn'
    BY <1>1, TurnsStep, OneTurnStep
  <1>3. AgendaInv' /\ QueueInv'
    BY <1>1, AgendaInvStep, QueueStep
  <1>4. EffectMarks' /\ StaleEffects'
    BY <1>1, EffectMarksStep, StaleEffectsStep
  <1>5. NoNewEffects' /\ EffectSources'
    BY <1>1, NoNewEffectsStep, EffectSourcesStep
  <1>6. BatchRuns'
    BY <1>1, BatchRunsStep
  <1> QED
    BY <1>2, <1>3, <1>4, <1>5, <1>6 DEF EffectsInv

\* Where only handlers of events write, and only write: an effect is queued by
\* the writes of a handler and by nothing else, none that exists is waiting in
\* the queue or in a flush while it runs, and inside a batch none has run yet.
THEOREM ReactiveEffects == Spec => [](Disciplined => EffectsInv)
  <1> DEFINE Inv == Disciplined => EffectsInv
  <1>1. Init => Inv
    BY EffectsInit
  <1>2. TypeInv /\ CallsInv /\ MarksInv /\ Inv /\ [Next]_vars => Inv'
    <2> SUFFICES ASSUME TypeInv, CallsInv, MarksInv, Inv, [Next]_vars, Disciplined'
                 PROVE  EffectsInv'
      OBVIOUS
    <2>1. app' = app
      BY LinksOKStep
    <2>2. Disciplined
      BY <2>1 DEF Disciplined, OnlyHandlersWrite, HandlersOnlyWrite
    <2> QED
      BY <2>2, EffectsStep
  <1> QED
    BY <1>1, <1>2, TypeInvHolds, ReactiveCalls, ReactiveMarks, PTL DEF Spec

\* The writes of an event's batch are flushed together: where only handlers of
\* events write, and only write, no effect runs twice for one event, however
\* many of its sources the handler wrote, whatever it read in between, and
\* whatever the effects of the flush build and dispose.
THEOREM ReactiveOncePerBatch == Spec => []OncePerBatch
  <1>1. (Disciplined => EffectsInv) => OncePerBatch
    BY DEF Disciplined, OncePerBatch, OncePerEvent, EffectsInv, BatchRuns
  <1> QED
    BY <1>1, ReactiveEffects, PTL

-----------------------------------------------------------------------------
(* Scopes.  Where closures reach only what their own scope or one above it   *)
(* owns, and build and dispose only scopes below their own, a scope is alive *)
(* as long as anything in it runs or can be read.                            *)

\* t is the scope s or one above it.
Within(a, s, t) ==
  \A S \in SUBSET Scope :
    s \in S /\ (\A x \in S \ {Root} : a.parent[x] \in S) => t \in S

\* The closure x belongs to the scope s: a node's to its owner, a branch builder
\* and a cleanup to the scope they are of, the handler of an event to the root.
CleansUp(a, h, s) == Contains(a.cleanups[s], h)

Belongs(a, x, s) ==
  \/ x \in Node /\ a.owner[x] = s
  \/ x \in Handler /\ (a.build[s] = x \/ CleansUp(a, x, s) \/ (x \in a.onEvent /\ s = Root))

\* What the closure of a scope reaches: it reads what that scope or one above
\* owns, mounts effects of its own, builds the scopes right below it and
\* disposes those below.
InReach(a, s, i) ==
  /\ i.do \in {"get", "peek"} => Within(a, s, a.owner[i.of])
  /\ i.do = "mount" => a.owner[i.of] = s
  /\ i.do = "build" => a.parent[i.of] = s
  /\ i.do = "dispose" => i.of # s /\ Within(a, i.of, s)

Tree(a) == \A s \in Scope \ {Root} : ~Within(a, a.parent[s], s)

\* The scopes are a tree, no closure is of two of them, closures stay in reach,
\* and cleanups only read.
InScope(a) ==
  /\ Tree(a)
  /\ \A x \in Node \cup Handler : \A s, t \in Scope : Belongs(a, x, s) /\ Belongs(a, x, t) => s = t
  /\ \A x \in Node \cup Handler : \A s \in Scope :
       Belongs(a, x, s) => \A k \in DOMAIN a.code[x] : InReach(a, s, a.code[x][k])
  /\ \A s \in Scope, h \in Handler : CleansUp(a, h, s) =>
       \A k \in DOMAIN a.code[h] : a.code[h][k].do \notin {"mount", "build", "dispose"}

Scoped == Disciplined /\ InScope(app)

Live(s) == scopes[s].alive

\* The call f is of the scope s: an effect, a builder or cleanup, or a dispose.
CallOf(a, f, s) ==
  \/ f.op = "dispose" /\ f.of = s
  \/ EffectCall(a, f) /\ a.owner[f.of] = s
  \/ f.op = "handler" /\ f.of \notin a.onEvent /\ Belongs(a, f.of, s)

TearsDown(a, f) ==
  f.op = "dispose" \/ (f.op = "handler" /\ \E s \in Scope : CleansUp(a, f.of, s)) \/ MemoCall(a, f)

\* f above g: above a dispose only disposing, cleanups and memos; and the scope
\* of f is within that of g, and below it if f disposes it.
MayNest(a, f, g) ==
  /\ g.op = "dispose" => TearsDown(a, f)
  /\ \A s, t \in Scope : CallOf(a, f, s) /\ CallOf(a, g, t) =>
       Within(a, s, t) /\ (f.op = "dispose" => s # t)

Nests(a, s) == \A i, j \in 1..Len(s) : i < j => MayNest(a, s[i], s[j])

\* A handler belongs to a scope, and what a dispose still has to go through are
\* the scopes right below it, then its cleanups.
PlaceOK(a, f) ==
  /\ f.op = "handler" => \E s \in Scope : Belongs(a, f.of, s)
  /\ f.op = "dispose" =>
       /\ f.of # Root
       /\ f.pc = 1 => \A c \in Scope : Contains(f.todo, c) => c # Root /\ a.parent[c] = f.of
       /\ f.pc # 1 => \A h \in Handler : Contains(f.todo, h) => CleansUp(a, h, f.of)

NestInv ==
  /\ Nests(app, stack)
  /\ \A f \in TypedFrame : Contains(stack, f) => PlaceOK(app, f)
  /\ \A s \in Scope :
       /\ \A c \in Scope : Contains(scopes[s].children, c) => c # Root /\ app.parent[c] = s
       /\ \A h \in Handler : Contains(scopes[s].cleanups, h) => CleansUp(app, h, s)

\* A dispose of p is still to come to c.
ToDispose(s, p, c) ==
  \E f \in TypedFrame : Contains(s, f) /\ f.op = "dispose" /\ f.of = p /\ f.pc = 1 /\ Contains(f.todo, c)

\* A living scope's parent lives, and knows it or is disposing it.
ScopeTree ==
  /\ Live(Root)
  /\ \A s \in Scope \ {Root} : Live(s) =>
       /\ Live(app.parent[s])
       /\ \/ Contains(scopes[app.parent[s]].children, s)
          \/ ToDispose(stack, app.parent[s], s)
          \/ Called(stack, "dispose", s)
  /\ \A s \in Scope : Called(stack, "dispose", s) => scopes[s].children = <<>>

\* The signals and memos of a scope exist as long as it does, its effects no longer.
NodesOfScopes ==
  \A n \in Node : IF IsEffect(n) THEN n \in alive => Live(app.owner[n])
                  ELSE n \in alive <=> Live(app.owner[n])

\* What a call in progress is about exists.
InLife(f) ==
  /\ f.op \in Working => f.of \in alive
  /\ f.op = "visit" => \A m \in Node : Contains(f.todo, m) => m \in alive
  /\ \A s \in Scope : CallOf(app, f, s) => Live(s)

LivingCalls == \A f \in TypedFrame : Contains(stack, f) => InLife(f)

LivingLinks ==
  /\ \A m, n \in Node : DependsOn(m, n) => m \in alive /\ n \in alive
  /\ \A n \in Node : Marked(agenda, n) => n \in alive

ScopesInv == NestInv /\ ScopeTree /\ NodesOfScopes /\ LivingCalls /\ LivingLinks

\* What exists and is not to be computed anew has a value.
ValuesInv ==
  /\ \A n \in alive : IsSignal(n) => value[n] # NoValue
  /\ \A n \in alive : IsMemo(n) /\ (state[n] # "Dirty" \/ (Called(stack, "settle", n) /\ n \in ready)) =>
       value[n] # NoValue
  /\ ~panicked

LEMMA WithinSelf == \A a, s : Within(a, s, s)
  BY DEF Within

LEMMA WithinParent ==
  ASSUME NEW a, NEW s \in Scope \ {Root}, NEW t, Within(a, a.parent[s], t)
  PROVE  Within(a, s, t)
  BY DEF Within

LEMMA WithinTrans ==
  ASSUME NEW a, NEW s, NEW t, NEW u, Within(a, s, t), Within(a, t, u)
  PROVE  Within(a, s, u)
  BY DEF Within

\* One step up.
LEMMA WithinUp ==
  ASSUME NEW a, NEW s \in Scope \ {Root}, NEW t, Within(a, s, t), s # t
  PROVE  Within(a, a.parent[s], t)
  <1> SUFFICES ASSUME NEW S \in SUBSET Scope, a.parent[s] \in S,
                      \A x \in S \ {Root} : a.parent[x] \in S
               PROVE  t \in S
    BY DEF Within
  <1> DEFINE U == S \cup {s}
  <1>1. U \in SUBSET Scope /\ s \in U /\ \A x \in U \ {Root} : a.parent[x] \in U
    OBVIOUS
  <1>2. t \in U
    BY <1>1 DEF Within
  <1> QED
    BY <1>2

LEMMA AboveRoot ==
  ASSUME NEW a, NEW t, Within(a, Root, t) PROVE t = Root
  <1>1. {Root} \in SUBSET Scope
    BY NamesAssumption
  <1> QED
    BY <1>1 DEF Within

\* In a tree no scope is below one that is below it.
LEMMA WithinOneWay ==
  ASSUME NEW a, Tree(a), NEW s \in Scope, NEW t \in Scope, Within(a, s, t), Within(a, t, s)
  PROVE  s = t
  <1> SUFFICES ASSUME s # t PROVE FALSE
    OBVIOUS
  <1>1. s # Root
    BY AboveRoot
  <1>2. Within(a, a.parent[s], t)
    BY <1>1, WithinUp
  <1>3. Within(a, a.parent[s], s)
    BY <1>2, WithinTrans
  <1> QED
    BY <1>1, <1>3 DEF Tree

\* Above a living scope everything lives.
LEMMA LiveAbove ==
  ASSUME StoreType, ScopeTree, NEW s \in Scope, NEW t, Live(s), Within(app, s, t)
  PROVE  t \in Scope /\ Live(t)
  <1> DEFINE S == {x \in Scope : Live(x)}
  <1>1. S \in SUBSET Scope /\ s \in S
    OBVIOUS
  <1>2. \A x \in S \ {Root} : app.parent[x] \in S
    <2> SUFFICES ASSUME NEW x \in S \ {Root} PROVE app.parent[x] \in S
      OBVIOUS
    <2>1. Live(app.parent[x]) /\ app.parent[x] \in Scope
      BY ScopeTypes DEF ScopeTree
    <2> QED
      BY <2>1
  <1>3. t \in S
    BY <1>1, <1>2 DEF Within
  <1> QED
    BY <1>3

LEMMA NestsPush ==
  ASSUME NEW a, NEW s \in Seq(TypedFrame), Nests(a, s), NEW f \in TypedFrame,
         \A g \in TypedFrame : Contains(s, g) => MayNest(a, f, g)
  PROVE  Nests(a, <<f>> \o s)
  <1> DEFINE t == <<f>> \o s
  <1>1. /\ t \in Seq(TypedFrame) /\ Len(t) = Len(s) + 1 /\ t[1] = f /\ Len(s) \in Nat
        /\ \A i \in 2..(Len(s) + 1) : t[i] = s[i - 1]
    BY Pushed
  <1> HIDE DEF t
  <1>2. SUFFICES ASSUME NEW i \in 1..Len(t), NEW j \in 1..Len(t), i < j
                 PROVE  MayNest(a, t[i], t[j])
    BY DEF Nests, t
  <1>3. j - 1 \in 1..Len(s) /\ t[j] = s[j - 1]
    BY <1>1, <1>2
  <1>4. CASE i = 1
    <2>1. s[j - 1] \in TypedFrame /\ Contains(s, s[j - 1])
      BY <1>3 DEF Contains
    <2> QED
      BY <1>1, <1>3, <1>4, <2>1
  <1>5. CASE i # 1
    <2>1. i - 1 \in 1..Len(s) /\ t[i] = s[i - 1] /\ i - 1 < j - 1
      BY <1>1, <1>2, <1>5
    <2> QED
      BY <1>3, <2>1 DEF Nests
  <1> QED
    BY <1>4, <1>5

LEMMA NestsPop ==
  ASSUME NEW a, NEW s \in Seq(TypedFrame), Nests(a, s), s # <<>>
  PROVE  /\ Nests(a, Tail(s))
         /\ \A g \in TypedFrame : Contains(Tail(s), g) => MayNest(a, Head(s), g)
  <1> DEFINE t == Tail(s)
  <1>1. /\ t \in Seq(TypedFrame) /\ Len(s) = Len(t) + 1 /\ Len(t) \in Nat /\ Head(s) = s[1]
        /\ \A i \in 1..Len(t) : t[i] = s[i + 1]
    BY Popped
  <1> HIDE DEF t
  <1>2. ASSUME NEW i \in 1..Len(t), NEW j \in 1..Len(t), i < j
        PROVE  MayNest(a, t[i], t[j])
    <2>1. i + 1 \in 1..Len(s) /\ j + 1 \in 1..Len(s) /\ i + 1 < j + 1
      BY <1>1, <1>2
    <2> QED
      BY <1>1, <2>1 DEF Nests
  <1>3. ASSUME NEW g \in TypedFrame, Contains(t, g) PROVE MayNest(a, Head(s), g)
    <2>1. PICK j \in 1..Len(t) : t[j] = g
      BY <1>3 DEF Contains
    <2>2. 1 \in 1..Len(s) /\ j + 1 \in 1..Len(s) /\ 1 < j + 1
      BY <1>1
    <2> QED
      BY <1>1, <2>1, <2>2 DEF Nests
  <1> QED
    BY <1>2, <1>3 DEF Nests, t

LEMMA NestsSwap ==
  ASSUME NEW a, NEW s \in Seq(TypedFrame), Nests(a, s), s # <<>>,
         NEW f \in TypedFrame, f.op = Head(s).op, f.of = Head(s).of
  PROVE  Nests(a, <<f>> \o Tail(s))
  <1>1. /\ Nests(a, Tail(s)) /\ Tail(s) \in Seq(TypedFrame)
        /\ \A g \in TypedFrame : Contains(Tail(s), g) => MayNest(a, Head(s), g)
    BY NestsPop, Popped
  <1>2. /\ \A q : CallOf(a, f, q) <=> CallOf(a, Head(s), q)
        /\ TearsDown(a, Head(s)) => TearsDown(a, f)
    BY DEF CallOf, EffectCall, TearsDown, MemoCall
  <1>3. \A g \in TypedFrame : MayNest(a, Head(s), g) => MayNest(a, f, g)
    BY <1>2 DEF MayNest
  <1> QED
    BY <1>1, <1>3, NestsPush

\* What is called above it, and the innermost call, nest.
LEMMA NestsTop ==
  ASSUME StackType(stack, depth), stack # <<>>, Nests(app, stack)
  PROVE  /\ Nests(app, Below)
         /\ \A g : Contains(Below, g) => MayNest(app, Top, g)
         /\ \A f \in TypedFrame : f.op = Top.op /\ f.of = Top.of =>
              /\ Nests(app, <<f>> \o Below)
              /\ \A g : MayNest(app, Top, g) => MayNest(app, f, g)
              /\ \A s : CallOf(app, f, s) <=> CallOf(app, Top, s)
  <1>0. stack \in Seq(TypedFrame) /\ \A g : Contains(Below, g) => g \in TypedFrame
    BY HeldFrames DEF StackType
  <1>1. Nests(app, Below) /\ \A g : Contains(Below, g) => MayNest(app, Top, g)
    BY <1>0, NestsPop DEF Top, Below
  <1>2. ASSUME NEW f \in TypedFrame, f.op = Top.op, f.of = Top.of
        PROVE  /\ Nests(app, <<f>> \o Below)
               /\ \A g : MayNest(app, Top, g) => MayNest(app, f, g)
               /\ \A s : CallOf(app, f, s) <=> CallOf(app, Top, s)
    <2>1. Nests(app, <<f>> \o Below)
      BY <1>0, <1>2, NestsSwap DEF Top, Below
    <2>2. \A s : CallOf(app, f, s) <=> CallOf(app, Top, s)
      BY <1>2 DEF CallOf, EffectCall
    <2>3. TearsDown(app, Top) => TearsDown(app, f)
      BY <1>2 DEF TearsDown, MemoCall
    <2> QED
      BY <1>2, <2>1, <2>2, <2>3 DEF MayNest
  <1> QED
    BY <1>1, <1>2

\* The scope whose closure is on top.
LEMMA CodeOfScope ==
  ASSUME StoreType, StackType(stack, depth), Scoped, InCode, Shape(app, stack, observer),
         ~MemoCall(app, Top), ~EventCall(app, Top), NEW s \in Scope, CallOf(app, Top, s)
  PROVE  Belongs(app, Top.of, s)
  BY CodeFacts DEF CallOf, EffectCall, Belongs, Working

\* What user code that is not an event's or a memo's mounts, builds and disposes.
LEMMA StructureInReach ==
  ASSUME StoreType, StackType(stack, depth), Scoped, Shape(app, stack, observer),
         NEW i \in {"mount", "build", "dispose"}, Doing(i)
  PROVE  /\ ~MemoCall(app, Top) /\ ~EventCall(app, Top) /\ ~TearsDown(app, Top)
         /\ i = "mount" => Arg \in Node /\ IsEffect(Arg)
         /\ i # "mount" => Arg \in Scope
         /\ \A s \in Scope : CallOf(app, Top, s) =>
              /\ i = "mount" => app.owner[Arg] = s
              /\ i = "build" => Arg # Root /\ app.parent[Arg] = s
              /\ i = "dispose" => Arg # s /\ Within(app, Arg, s)
  <1>1. /\ InCode /\ Top.pc \in DOMAIN Code /\ Code[Top.pc].do = i /\ Arg = Code[Top.pc].of
        /\ WellTyped(app, Code[Top.pc])
    BY DoingFacts
  <1>2. Top \in TypedFrame /\ Top.op \in {"run", "handler", "batch"} /\ Top.of \in Node \cup Handler
    BY <1>1, CodeFacts
  <1>3. ~EventCall(app, Top)
    BY DisciplinedCode DEF Scoped
  <1>4. ~MemoCall(app, Top)
    BY NotPulling DEF Pulls
  <1>5. Code = app.code[Top.of]
    BY DEF Code
  <1>6. ~TearsDown(app, Top)
    <2> SUFFICES ASSUME Top.op = "handler", NEW s \in Scope, CleansUp(app, Top.of, s) PROVE FALSE
      BY <1>2, <1>4 DEF TearsDown
    <2>1. Top.of \in Handler
      BY <1>2, FrameFields
    <2> QED
      BY <1>1, <1>5, <2>1 DEF Scoped, InScope
  <1>7. ASSUME NEW s \in Scope, CallOf(app, Top, s) PROVE InReach(app, s, Code[Top.pc])
    <2>1. Belongs(app, Top.of, s)
      BY <1>1, <1>3, <1>4, <1>7, CodeOfScope
    <2> QED
      BY <1>1, <1>2, <1>5, <2>1 DEF Scoped, InScope
  <1> QED
    BY <1>1, <1>3, <1>4, <1>6, <1>7 DEF InReach, WellTyped, IsEffect

\* What a step calls above the innermost call nests above it.
LEMMA EnteredNestsTop ==
  ASSUME TypeInv, CallsInv, Scoped, NestInv, [Next]_vars, stack # <<>>, NEW h, Entered(h)
  PROVE  MayNest(app, h, Top)
  <1>0. /\ StoreType /\ StackType(stack, depth) /\ Shape(app, stack, observer)
        /\ app \in App /\ h \in TypedFrame /\ Top \in TypedFrame /\ Contains(stack, Top)
    BY TypeInvParts, HeldFrames DEF CallsInv, StoreType, Entered
  <1>1. CASE (GetStale \/ CheckSource) /\ h.op = "visit" /\ IsMemo(h.of)
    BY <1>1 DEF MayNest, CallOf, EffectCall, TearsDown, MemoCall, Working, IsMemo
  <1>2. CASE (FlushRun \/ Set) /\ h.op \in {"visit", "flush"}
    <2>1. \A s : ~CallOf(app, Top, s)
      <3>1. CASE FlushRun
        BY <3>1 DEF FlushRun, At, CallOf, EffectCall, Working
      <3>2. CASE Set
        <4>1. EventCall(app, Top)
          BY <1>0, <3>2, DisciplinedCode DEF Set, Scoped
        <4> QED
          BY <4>1 DEF EventCall, CallOf, EffectCall, Working
      <3> QED
        BY <1>2, <3>1, <3>2
    <2>2. Top.op # "dispose"
      <3>1. CASE FlushRun
        BY <3>1 DEF FlushRun, At
      <3>2. CASE Set
        BY <3>2 DEF Set, Doing, InCode, At
      <3> QED
        BY <1>2, <3>1, <3>2
    <2> QED
      BY <2>1, <2>2 DEF MayNest
  <1>3. CASE Mount /\ h.op = "visit" /\ h.of = Arg
    <2>1. Doing("mount")
      BY <1>3 DEF Mount
    <2>2. /\ ~TearsDown(app, Top)
          /\ \A s \in Scope : CallOf(app, Top, s) => app.owner[Arg] = s
      BY <1>0, <2>1, StructureInReach
    <2>3. ASSUME NEW s \in Scope, NEW t \in Scope, CallOf(app, h, s), CallOf(app, Top, t)
          PROVE  Within(app, s, t)
      <3>1. s = app.owner[Arg]
        BY <1>3, <2>3 DEF CallOf, EffectCall
      <3> QED
        BY <2>2, <2>3, <3>1, WithinSelf
    <2> QED
      BY <1>3, <2>2, <2>3 DEF MayNest, TearsDown
  <1>4. CASE BuildBranch /\ h.op = "handler" /\ h.of = app.build[Arg]
    <2>1. Doing("build")
      BY <1>4 DEF BuildBranch
    <2>2. /\ Arg \in Scope /\ ~TearsDown(app, Top)
          /\ \A s \in Scope : CallOf(app, Top, s) => Arg # Root /\ app.parent[Arg] = s
      BY <1>0, <2>1, StructureInReach
    <2>3. ASSUME NEW s \in Scope, NEW t \in Scope, CallOf(app, h, s), CallOf(app, Top, t)
          PROVE  Within(app, s, t)
      <3>1. h.of \in Handler /\ Belongs(app, h.of, s) /\ Belongs(app, h.of, Arg)
        BY <1>0, <1>4, <2>2, <2>3, ScopeTypes DEF CallOf, EffectCall, Working, Belongs
      <3>2. s = Arg
        BY <2>2, <3>1 DEF Scoped, InScope
      <3> QED
        BY <2>2, <2>3, <3>2, WithinSelf, WithinParent
    <2> QED
      BY <1>4, <2>2, <2>3 DEF MayNest, TearsDown
  <1>5. CASE Dispose /\ h.op = "dispose" /\ h.of = Arg
    <2>1. Doing("dispose")
      BY <1>5 DEF Dispose
    <2>2. /\ Arg \in Scope /\ ~TearsDown(app, Top)
          /\ \A s \in Scope : CallOf(app, Top, s) => Arg # s /\ Within(app, Arg, s)
      BY <1>0, <2>1, StructureInReach
    <2> QED
      BY <1>5, <2>2 DEF MayNest, TearsDown, CallOf, EffectCall, Working
  <1>6. CASE DisposeChild /\ h.op = "dispose" /\ h.of = Head(Top.todo)
    <2>1. Top.op = "dispose" /\ Top.pc = 1 /\ Top.todo # <<>>
      BY <1>6 DEF DisposeChild, At
    <2>2. PlaceOK(app, Top) /\ Top.todo \in Seq(Scope) /\ Top.of \in Scope
      BY <1>0, <2>1, DisposeTop DEF NestInv
    <2>3. h.of \in Scope /\ Contains(Top.todo, h.of)
      BY <1>6, <2>1, <2>2 DEF Contains
    <2>4. h.of # Root /\ app.parent[h.of] = Top.of
      BY <2>1, <2>2, <2>3 DEF PlaceOK
    <2>5. Within(app, h.of, Top.of)
      BY <2>3, <2>4, WithinSelf, WithinParent
    <2>6. h.of # Top.of
      BY <2>3, <2>4, WithinSelf DEF Scoped, InScope, Tree
    <2> QED
      BY <1>6, <2>1, <2>5, <2>6 DEF MayNest, TearsDown, CallOf, EffectCall, Working
  <1>7. CASE RunCleanup /\ h.op = "handler" /\ h.of = Head(Top.todo)
    <2>1. Top.op = "dispose" /\ Top.pc = 2 /\ Top.todo # <<>>
      BY <1>7 DEF RunCleanup, At
    <2>2. PlaceOK(app, Top) /\ Top.todo \in Seq(Handler) /\ Top.of \in Scope
      BY <1>0, <2>1, DisposeTop DEF NestInv
    <2>3. h.of \in Handler /\ Contains(Top.todo, h.of)
      BY <1>7, <2>1, <2>2 DEF Contains
    <2>4. CleansUp(app, h.of, Top.of)
      BY <2>1, <2>2, <2>3 DEF PlaceOK
    <2>5. ASSUME NEW s \in Scope, NEW t \in Scope, CallOf(app, h, s), CallOf(app, Top, t)
          PROVE  Within(app, s, t)
      <3>1. t = Top.of /\ Belongs(app, h.of, s) /\ Belongs(app, h.of, Top.of)
        BY <1>7, <2>1, <2>3, <2>4, <2>5 DEF CallOf, EffectCall, Working, Belongs
      <3>2. s = Top.of
        BY <2>2, <2>3, <3>1 DEF Scoped, InScope
      <3> QED
        BY <3>1, <3>2, WithinSelf
    <2> QED
      BY <1>7, <2>2, <2>4, <2>5 DEF MayNest, TearsDown
  <1> QED
    BY <1>1, <1>2, <1>3, <1>4, <1>5, <1>6, <1>7 DEF Entered

\* Nesting is transitive over a call that is of a scope.
LEMMA NestsOver ==
  ASSUME NEW a, Tree(a), NEW h, NEW f, NEW g, NEW u \in Scope, CallOf(a, f, u),
         MayNest(a, h, f), MayNest(a, f, g), g.op = "dispose" => TearsDown(a, h)
  PROVE  MayNest(a, h, g)
  <1>1. ASSUME NEW s \in Scope, NEW t \in Scope, CallOf(a, h, s), CallOf(a, g, t)
        PROVE  Within(a, s, t) /\ (h.op = "dispose" => s # t)
    <2>1. Within(a, s, u) /\ (h.op = "dispose" => s # u) /\ Within(a, u, t)
      BY <1>1 DEF MayNest
    <2> QED
      BY <2>1, WithinTrans, WithinOneWay
  <1> QED
    BY <1>1 DEF MayNest

\* What calls something that is not a memo's is of a scope, unless it is the host's.
LEMMA CallsAreOf ==
  ASSUME StoreType, StackType(stack, depth), Shape(app, stack, observer), TurnsInv, NestInv,
         stack # <<>>, InCode \/ Top.op = "dispose", ~MemoCall(app, Top), ~EventCall(app, Top)
  PROVE  \E u \in Scope : CallOf(app, Top, u)
  <1>1. Top \in TypedFrame /\ Contains(stack, Top) /\ app \in App
    BY HeldFrames DEF StoreType
  <1>2. CASE Top.op = "dispose"
    BY <1>1, <1>2, FrameFields DEF CallOf
  <1>3. CASE Top.op = "handler"
    <2>1. Top.of \in Handler
      BY <1>1, <1>3, FrameFields
    <2>2. PICK u \in Scope : Belongs(app, Top.of, u)
      BY <1>1, <1>3 DEF NestInv, PlaceOK
    <2> QED
      BY <1>3, <2>2 DEF CallOf, EventCall
  <1>4. CASE Top.op = "batch"
    BY <1>1, <1>4 DEF TurnsInv, FrameOK, EventCall
  <1>5. CASE Top.op = "run"
    <2>1. Top.of \in Node
      BY <1>1, <1>5, FrameFields
    <2>2. Top = stack[1] /\ 1 \in 1..Len(stack)
      BY TopFacts DEF StackType
    <2>3. app.kind[Top.of] = "effect"
      <3>1. app.kind[Top.of] # "signal"
        BY <1>5, <2>2 DEF Shape, NoSignals, Working
      <3>2. app.kind[Top.of] # "memo"
        BY <1>5 DEF MemoCall, Working
      <3> QED
        BY <1>1, <2>1, <3>1, <3>2, AppAssumption
    <2>4. app.owner[Top.of] \in Scope
      BY <1>1, <2>1, AppAssumption
    <2> QED
      BY <1>5, <2>3, <2>4 DEF CallOf, EffectCall, Working
  <1> QED
    BY <1>2, <1>3, <1>4, <1>5 DEF InCode, At

LEMMA EnteredNests ==
  ASSUME TypeInv, CallsInv, Scoped, NestInv, TurnsInv, [Next]_vars, stack # <<>>, NEW h, Entered(h)
  PROVE  \A g : Contains(stack, g) => MayNest(app, h, g)
  <1>0. /\ StoreType /\ StackType(stack, depth) /\ Shape(app, stack, observer) /\ Tree(app)
        /\ h \in TypedFrame /\ Top \in TypedFrame /\ MayNest(app, h, Top)
        /\ \A g : Contains(stack, g) <=> g = Top \/ Contains(Below, g)
        /\ \A g : Contains(Below, g) => MayNest(app, Top, g)
    BY TypeInvParts, HeldFrames, EnteredNestsTop, NestsTop
    DEF CallsInv, Entered, NestInv, Scoped, InScope
  <1>1. SUFFICES ASSUME NEW g, Contains(stack, g) PROVE MayNest(app, h, g)
    OBVIOUS
  <1>2. CASE MemoCall(app, h)
    BY <1>2 DEF MayNest, CallOf, EffectCall, TearsDown, MemoCall, Working
  <1>3. CASE FlushRun
    <2>1. Top.op = "flush"
      BY <1>3 DEF FlushRun, At
    <2>2. g = Top \/ EventCall(app, g)
      BY <1>0, <1>1, <2>1, FlushTop
    <2> QED
      BY <2>1, <2>2 DEF MayNest, CallOf, EffectCall, EventCall, Working
  <1>4. CASE Set
    <2>1. EventCall(app, Top)
      BY <1>0, <1>4, DisciplinedCode DEF Set, Scoped
    <2>2. g = Top
      BY <1>0, <1>1, <2>1, EventIsLast DEF TurnsInv
    <2> QED
      BY <1>0, <2>2
  <1>5. CASE Mount \/ BuildBranch \/ Dispose
    <2>1. \E i \in {"mount", "build", "dispose"} : Doing(i)
      BY <1>5 DEF Mount, BuildBranch, Dispose
    <2>2. ~MemoCall(app, Top) /\ ~EventCall(app, Top) /\ ~TearsDown(app, Top) /\ InCode
      BY <1>0, <2>1, StructureInReach DEF Doing
    <2>3. PICK u \in Scope : CallOf(app, Top, u)
      BY <1>0, <2>2, CallsAreOf
    <2>4. Contains(Below, g) => g.op # "dispose"
      BY <1>0, <2>2 DEF MayNest
    <2> QED
      BY <1>0, <1>1, <2>3, <2>4, NestsOver
  <1>6. CASE DisposeChild \/ RunCleanup
    <2>1. Top.op = "dispose" /\ ~MemoCall(app, Top) /\ ~EventCall(app, Top)
      BY <1>6 DEF DisposeChild, RunCleanup, At, MemoCall, EventCall, Working
    <2>2. PICK u \in Scope : CallOf(app, Top, u)
      BY <1>0, <2>1, CallsAreOf
    <2>3. TearsDown(app, h)
      BY <1>0, <2>1 DEF MayNest
    <2> QED
      BY <1>0, <1>1, <2>2, <2>3, NestsOver
  <1> QED
    BY <1>2, <1>3, <1>4, <1>5, <1>6 DEF Entered, MemoCall, Working, IsMemo

\* A node's visit, settling and closure are of the same scope.
LEMMA NestsSame ==
  ASSUME NEW a, NEW f, NEW h, f.op \in Working, h.op \in Working, h.of = f.of
  PROVE  /\ \A g : MayNest(a, f, g) => MayNest(a, h, g)
         /\ MayNest(a, h, f)
  <1>1. (\A s : CallOf(a, h, s) <=> CallOf(a, f, s)) /\ (TearsDown(a, f) <=> TearsDown(a, h))
    BY DEF CallOf, EffectCall, TearsDown, MemoCall, Working
  <1>2. \A s, t : CallOf(a, f, s) /\ CallOf(a, f, t) => s = t
    BY DEF CallOf, EffectCall, Working
  <1>3. f.op # "dispose" /\ h.op # "dispose"
    BY DEF Working
  <1> QED
    BY <1>1, <1>2, <1>3, WithinSelf DEF MayNest

LEMMA NestsStep ==
  ASSUME TypeInv, CallsInv, Scoped, NestInv, TurnsInv, [Next]_vars
  PROVE  Nests(app', stack')
  <1>0. /\ StoreType /\ StackType(stack, depth) /\ stack \in Seq(TypedFrame) /\ app' = app
        /\ Nests(app, stack)
    BY TypeInvParts, LinksOKStep DEF StackType, NestInv
  <1>1. stack # <<>> =>
          /\ Top \in TypedFrame /\ Below \in Seq(TypedFrame) /\ Nests(app, Below)
          /\ \A g : Contains(Below, g) => MayNest(app, Top, g)
          /\ \A g : Contains(stack, g) <=> g = Top \/ Contains(Below, g)
          /\ \A f \in TypedFrame : /\ <<f>> \o Below \in Seq(TypedFrame)
                                   /\ \A g : Contains(<<f>> \o Below, g) <=> g = f \/ Contains(Below, g)
    BY <1>0, HeldFrames, NestsTop, TopOn, Pushed
  <1>2. \A f : stack # <<>> /\ OnAs(f) => f \in TypedFrame /\ Nests(app, <<f>> \o Below)
    BY <1>0, NestsTop DEF OnAs
  <1>3. CASE stack' = stack \/ (stack # <<>> /\ stack' = Below)
    BY <1>0, <1>1, <1>3
  <1>9. CASE stack # <<>> /\ \E f : OnAs(f) /\ Continues(f)
    <2>1. PICK f : OnAs(f) /\ Continues(f)
      BY <1>9
    <2> QED
      BY <1>0, <1>2, <1>9, <2>1 DEF Continues
  <1>4. CASE stack # <<>> /\ \E f, h : OnAs(f) /\ Entered(h) /\ Enters(h, f)
    <2>1. PICK f, h : OnAs(f) /\ Entered(h) /\ Enters(h, f)
      BY <1>4
    <2> DEFINE s == <<f>> \o Below
    <2>2. /\ h \in TypedFrame /\ Nests(app, s) /\ s \in Seq(TypedFrame) /\ stack' = <<h>> \o s
          /\ f \in TypedFrame /\ \A g : Contains(s, g) <=> g = f \/ Contains(Below, g)
      BY <1>1, <1>2, <1>4, <2>1 DEF Entered, Enters
    <2> HIDE DEF s
    <2>3. \A g : Contains(stack, g) => MayNest(app, h, g)
      BY <1>4, <2>1, EnteredNests
    <2>4. \A q : CallOf(app, f, q) <=> CallOf(app, Top, q)
      BY <1>0, <1>4, <2>1, NestsTop DEF OnAs
    <2>5. MayNest(app, h, Top) => MayNest(app, h, f)
      BY <2>1, <2>4 DEF MayNest, OnAs
    <2>6. \A g \in TypedFrame : Contains(s, g) => MayNest(app, h, g)
      BY <1>1, <1>4, <2>2, <2>3, <2>5
    <2> QED
      BY <1>0, <2>2, <2>6, NestsPush
  <1>5. CASE stack # <<>> /\ \E f, h \in TypedFrame :
               /\ Update /\ f.op = "settle" /\ f.of = Top.of
               /\ Continues(f) \/ (Enters(h, f) /\ h.op = "run" /\ h.of = Top.of)
    <2>1. PICK f \in TypedFrame, h \in TypedFrame :
               /\ Update /\ f.op = "settle" /\ f.of = Top.of
               /\ Continues(f) \/ (Enters(h, f) /\ h.op = "run" /\ h.of = Top.of)
      BY <1>5
    <2> DEFINE s == <<f>> \o Below
    <2>2. Top.op \in Working /\ f.op \in Working
      BY <2>1 DEF Update, At, Working
    <2>3. \A g : MayNest(app, Top, g) => MayNest(app, f, g)
      BY <2>1, <2>2, NestsSame
    <2>4. /\ Nests(app, s) /\ s \in Seq(TypedFrame)
          /\ \A g : Contains(s, g) <=> g = f \/ Contains(Below, g)
      BY <1>1, <1>5, <2>3, NestsPush
    <2>5. (Continues(f) => stack' = s) /\ (Enters(h, f) => stack' = <<h>> \o s)
      BY DEF Continues, Enters
    <2> HIDE DEF s
    <2>6. CASE Continues(f)
      BY <1>0, <2>4, <2>5, <2>6
    <2>7. CASE Enters(h, f) /\ h.op = "run" /\ h.of = Top.of
      <3>1. h.op \in Working
        BY <2>7 DEF Working
      <3>2. MayNest(app, h, f) /\ \A g : MayNest(app, f, g) => MayNest(app, h, g)
        BY <2>1, <2>2, <2>7, <3>1, NestsSame
      <3>3. \A g \in TypedFrame : Contains(s, g) => MayNest(app, h, g)
        BY <1>1, <1>5, <2>3, <2>4, <3>2
      <3> QED
        BY <1>0, <2>4, <2>5, <2>7, <3>3, NestsPush
    <2> QED
      BY <2>1, <2>6, <2>7
  <1>6. ASSUME NEW s \in Seq(TypedFrame), s = <<>>, NEW h \in TypedFrame, stack' = <<h>> \o s
        PROVE  Nests(app, stack')
    <2>1. \A g \in TypedFrame : ~Contains(s, g)
      BY <1>6, NothingListed
    <2>2. Nests(app, s)
      BY <1>6 DEF Nests
    <2> QED
      BY <1>6, <2>1, <2>2, NestsPush
  <1>7. CASE stack # <<>> /\ Below = <<>> /\ \E h \in TypedFrame : Continues(h)
    BY <1>0, <1>1, <1>6, <1>7 DEF Continues
  <1>8. CASE stack = <<>> /\ \E h \in TypedFrame : stack' = <<h>> \o stack
    BY <1>0, <1>6, <1>8
  <1> QED
    BY <1>3, <1>4, <1>5, <1>7, <1>8, <1>9, StepForms DEF StepForm

\* What is disposed is not the root.
LEMMA DisposedNotRoot ==
  ASSUME TypeInv, CallsInv, Scoped, NestInv, TurnsInv, stack # <<>>, NEW h, Entered(h), h.op = "dispose"
  PROVE  h.of # Root
  <1>0. /\ StoreType /\ StackType(stack, depth) /\ Shape(app, stack, observer)
        /\ Top \in TypedFrame /\ Contains(stack, Top)
    BY TypeInvParts, HeldFrames DEF CallsInv
  <1>1. CASE Dispose /\ h.of = Arg
    <2>1. Doing("dispose") /\ InCode
      BY <1>1 DEF Dispose, Doing
    <2>2. /\ ~MemoCall(app, Top) /\ ~EventCall(app, Top)
          /\ \A s \in Scope : CallOf(app, Top, s) => Arg # s /\ Within(app, Arg, s)
      BY <1>0, <2>1, StructureInReach
    <2>3. PICK u \in Scope : CallOf(app, Top, u)
      BY <1>0, <2>1, <2>2, CallsAreOf
    <2> QED
      BY <1>1, <2>2, <2>3, AboveRoot
  <1>2. CASE DisposeChild /\ h.of = Head(Top.todo)
    <2>1. Top.op = "dispose" /\ Top.pc = 1 /\ Top.todo # <<>>
      BY <1>2 DEF DisposeChild, At
    <2>2. PlaceOK(app, Top) /\ Top.todo \in Seq(Scope)
      BY <1>0, <2>1, DisposeTop DEF NestInv
    <2>3. h.of \in Scope /\ Contains(Top.todo, h.of)
      BY <1>2, <2>1, <2>2 DEF Contains
    <2> QED
      BY <2>1, <2>2, <2>3 DEF PlaceOK
  <1> QED
    BY <1>1, <1>2 DEF Entered

LEMMA TailItems ==
  ASSUME NEW T, NEW s \in Seq(T), s # <<>>
  PROVE  /\ \A x : Contains(s, x) <=> x = Head(s) \/ Contains(Tail(s), x)
         /\ Head(s) \in T /\ Tail(s) \in Seq(T)
  <1>1. Once({}, s)
    BY DEF Once
  <1> QED
    BY <1>1, OnceFacts, Popped

LEMMA PlaceStep ==
  ASSUME TypeInv, CallsInv, Scoped, NestInv, TurnsInv, [Next]_vars,
         NEW g \in TypedFrame, Contains(stack', g)
  PROVE  PlaceOK(app, g)
  <1>0. /\ StoreType /\ StackType(stack, depth) /\ Shape(app, stack, observer) /\ app \in App
        /\ \A f \in TypedFrame : Contains(stack, f) => PlaceOK(app, f)
    BY TypeInvParts DEF CallsInv, StoreType, NestInv
  <1>1. stack # <<>> => Top \in TypedFrame /\ Contains(stack, Top) /\ PlaceOK(app, Top)
    BY <1>0, HeldFrames
  <1>2. CASE stack # <<>> /\ OnAs(g)
    <2>1. CASE g.op = "dispose" /\ g.pc = 1
      <3>1. Top.op = "dispose" /\ Top.pc = 1 /\ Top.todo # <<>> /\ g.todo = Tail(Top.todo) /\ g.of = Top.of
        BY <1>2, <2>1 DEF OnAs
      <3>2. Top.todo \in Seq(Scope)
        BY <1>0, <1>2, <3>1, DisposeTop
      <3>3. \A c : Contains(g.todo, c) => Contains(Top.todo, c)
        BY <3>1, <3>2, TailItems
      <3> QED
        BY <1>1, <1>2, <2>1, <3>1, <3>3 DEF PlaceOK
    <2>2. CASE g.op = "dispose" /\ g.pc # 1 /\ RunCleanup
      <3>1. Top.op = "dispose" /\ Top.pc # 1 /\ Top.todo # <<>> /\ g.todo = Tail(Top.todo) /\ g.of = Top.of
        BY <1>2, <2>2 DEF OnAs, RunCleanup, TakeCleanups, At
      <3>2. Top.todo \in Seq(Handler)
        BY <1>0, <1>2, <3>1, DisposeTop
      <3>3. \A c : Contains(g.todo, c) => Contains(Top.todo, c)
        BY <3>1, <3>2, TailItems
      <3> QED
        BY <1>1, <1>2, <2>2, <3>1, <3>3 DEF PlaceOK
    <2>3. CASE g.op = "dispose" /\ g.pc # 1 /\ TakeCleanups
      <3>1. Top.op = "dispose" /\ g.of = Top.of /\ g.todo = Reverse(scopes[Top.of].cleanups)
        BY <1>2, <2>3 DEF OnAs, RunCleanup, TakeCleanups, At
      <3>2. Top.of \in Scope /\ scopes[Top.of].cleanups \in Seq(Handler)
        BY <1>0, <1>2, <3>1, DisposeTop, ScopeTypes
      <3>3. \A h : Contains(g.todo, h) => Contains(scopes[Top.of].cleanups, h)
        BY <3>1, <3>2, ReversedItems
      <3> QED
        BY <1>1, <1>2, <2>3, <3>1, <3>2, <3>3 DEF PlaceOK, NestInv
    <2>4. CASE g.op # "dispose"
      BY <1>1, <1>2, <2>4 DEF PlaceOK, OnAs
    <2> QED
      BY <1>2, <2>1, <2>2, <2>3, <2>4 DEF OnAs
  <1>3. CASE stack # <<>> /\ Entered(g)
    <2>1. CASE g.op = "dispose"
      <3>1. g.of # Root
        BY <1>3, <2>1, DisposedNotRoot
      <3>2. g.pc = 1 /\ g.of \in Scope /\ g.todo = scopes[g.of].children
        BY <1>3, <2>1 DEF Entered
      <3> QED
        BY <2>1, <3>1, <3>2 DEF PlaceOK, NestInv
    <2>2. CASE BuildBranch /\ g.op = "handler" /\ g.of = app.build[Arg]
      <3>1. Arg \in Scope /\ app.build[Arg] \in Handler
        BY <1>0, <2>2, DoingFacts, ScopeTypes DEF BuildBranch, WellTyped
      <3> QED
        BY <2>2, <3>1 DEF PlaceOK, Belongs
    <2>3. CASE RunCleanup /\ g.op = "handler" /\ g.of = Head(Top.todo)
      <3>1. Top.op = "dispose" /\ Top.pc = 2 /\ Top.todo # <<>>
        BY <2>3 DEF RunCleanup, At
      <3>2. Top.todo \in Seq(Handler) /\ Top.of \in Scope
        BY <1>0, <1>3, <3>1, DisposeTop
      <3>3. g.of \in Handler /\ Contains(Top.todo, g.of)
        BY <2>3, <3>1, <3>2 DEF Contains
      <3>4. CleansUp(app, g.of, Top.of)
        BY <1>1, <1>3, <3>1, <3>3 DEF PlaceOK
      <3> QED
        BY <2>3, <3>2, <3>3, <3>4 DEF PlaceOK, Belongs
    <2>4. CASE g.op \notin {"handler", "dispose"}
      BY <2>4 DEF PlaceOK
    <2> QED
      BY <1>3, <2>1, <2>2, <2>3, <2>4 DEF Entered
  <1>4. CASE Event /\ g.op \in {"handler", "batch"} /\ g.of \in app.onEvent
    <2>1. Root \in Scope /\ g.of \in Handler
      BY <1>4, NamesAssumption, FrameFields
    <2> QED
      BY <1>4, <2>1 DEF PlaceOK, Belongs
  <1>5. CASE g.op \in {"settle", "run", "flush"}
    BY <1>5 DEF PlaceOK
  <1> QED
    BY <1>0, <1>2, <1>3, <1>4, <1>5, NextFrames

LEMMA ScopesCallDispose ==
  ASSUME StoreType, NEW t \in Scope, NEW rest, CallDispose(t, rest), NEW s \in Scope
  PROVE  /\ scopes'[s].alive = scopes[s].alive /\ scopes'[s].cleanups = scopes[s].cleanups
         /\ s = t /\ Live(s) =>
              scopes'[s].children = <<>> /\ stack' = <<DisposeFrame(s)>> \o rest
         /\ s # t \/ ~Live(s) => scopes'[s].children = scopes[s].children
  <1>0. scopes \in [Scope -> ScopeRecord] /\ scopes[s] \in ScopeRecord
    BY DEF StoreType
  <1>1. CASE Live(t)
    <2>1. /\ scopes' = [scopes EXCEPT ![t].children = <<>>]
          /\ stack' = <<DisposeFrame(t)>> \o rest
      BY <1>1 DEF CallDispose, Live
    <2>2. scopes'[s] = IF s = t THEN [scopes[s] EXCEPT !.children = <<>>] ELSE scopes[s]
      BY <1>0, <2>1
    <2> QED
      BY <1>0, <1>1, <2>1, <2>2 DEF ScopeRecord
  <1>2. CASE ~Live(t)
    BY <1>2 DEF CallDispose, Live
  <1> QED
    BY <1>1, <1>2

LEMMA ScopesBuild ==
  ASSUME TypeInv, BuildBranch, NEW s \in Scope
  PROVE  /\ Arg \in Scope \ {Root} /\ app.parent[Arg] \in Scope /\ ~Live(Arg)
         /\ s = Arg => Live(s)' /\ scopes'[s].children = <<>> /\ scopes'[s].cleanups = app.cleanups[s]
         /\ s # Arg =>
              /\ scopes'[s].alive = scopes[s].alive /\ scopes'[s].cleanups = scopes[s].cleanups
              /\ s # app.parent[Arg] => scopes'[s].children = scopes[s].children
              /\ s = app.parent[Arg] => scopes'[s].children = Append(scopes[s].children, Arg)
  <1>0. StoreType /\ StackType(stack, depth) /\ scopes \in [Scope -> ScopeRecord]
    BY TypeInvParts DEF StoreType
  <1>1. scopes[s] \in ScopeRecord
    BY <1>0
  <1>2. Arg \in Scope \ {Root} /\ app.parent[Arg] \in Scope /\ ~Live(Arg)
    BY <1>0, DoingFacts, ScopeTypes DEF BuildBranch, WellTyped, Live
  <1>3. scopes'[s] = IF s = Arg THEN [alive |-> TRUE, children |-> <<>>, cleanups |-> app.cleanups[Arg]]
                     ELSE IF s # app.parent[Arg] THEN scopes[s]
                     ELSE [scopes[s] EXCEPT !.children = Append(scopes[s].children, Arg)]
    BY DEF BuildBranch
  <1>4. s = Arg => Live(s)' /\ scopes'[s].children = <<>> /\ scopes'[s].cleanups = app.cleanups[s]
    BY <1>3 DEF Live
  <1>5. \A r \in ScopeRecord : \A d : [r EXCEPT !.children = d] =
                [alive |-> r.alive, children |-> d, cleanups |-> r.cleanups]
    <2> SUFFICES ASSUME NEW r \in ScopeRecord, NEW d
                 PROVE  [r EXCEPT !.children = d] =
                          [alive |-> r.alive, children |-> d, cleanups |-> r.cleanups]
      OBVIOUS
    <2> DEFINE q == [r EXCEPT !.children = d]
    <2>1. r = [alive |-> r.alive, children |-> r.children, cleanups |-> r.cleanups]
      BY DEF ScopeRecord
    <2> QED
      BY <2>1
  <1>7. [scopes[s] EXCEPT !.children = Append(scopes[s].children, Arg)] =
          [alive |-> scopes[s].alive, children |-> Append(scopes[s].children, Arg),
           cleanups |-> scopes[s].cleanups]
    BY <1>1, <1>5
  <1>6. s # Arg =>
          /\ scopes'[s].alive = scopes[s].alive /\ scopes'[s].cleanups = scopes[s].cleanups
          /\ s # app.parent[Arg] => scopes'[s].children = scopes[s].children
          /\ s = app.parent[Arg] => scopes'[s].children = Append(scopes[s].children, Arg)
    BY <1>3, <1>7
  <1> QED
    BY <1>2, <1>4, <1>6

LEMMA ScopesDisposed ==
  ASSUME TypeInv, DisposeNodes, NEW s \in Scope
  PROVE  /\ Top.of \in Scope /\ stack # <<>> /\ Top.op = "dispose" /\ Top.pc = 2
         /\ scopes'[s].alive <=> scopes[s].alive /\ s # Top.of
         /\ scopes'[s].cleanups = scopes[s].cleanups
         /\ scopes'[s].children = scopes[s].children
              \/ scopes'[s].children = Without(scopes[s].children, Top.of)
  <1>0. StoreType /\ StackType(stack, depth) /\ scopes \in [Scope -> ScopeRecord]
    BY TypeInvParts DEF StoreType
  <1>1. scopes[s] \in ScopeRecord /\ scopes[s].alive \in BOOLEAN
    BY <1>0, ScopeTypes
  <1>2. stack # <<>> /\ Top.op = "dispose" /\ Top.pc = 2 /\ Top.of \in Scope
    BY <1>0, DisposeTop DEF DisposeNodes, At
  <1>3. scopes'[s] = [scopes[s] EXCEPT
                        !.alive = @ /\ s # Top.of,
                        !.children = IF Top.of # Root /\ s = app.parent[Top.of]
                                     THEN Without(@, Top.of) ELSE @]
    BY DEF DisposeNodes
  <1> QED
    BY <1>1, <1>2, <1>3 DEF ScopeRecord

LEMMA ScopesKept ==
  ASSUME TypeInv, [Next]_vars, ~BuildBranch, ~Dispose, ~DisposeChild, ~DisposeNodes, NEW s \in Scope
  PROVE  scopes'[s].alive = scopes[s].alive /\ scopes'[s].children = scopes[s].children
  <1>0. scopes \in [Scope -> ScopeRecord] /\ scopes[s] \in ScopeRecord
    BY TypeInvParts DEF StoreType
  <1>1. CASE TakeCleanups
    <2>1. scopes' = [scopes EXCEPT ![Top.of].cleanups = <<>>]
      BY <1>1 DEF TakeCleanups
    <2>2. scopes'[s] \in {scopes[s], [scopes[s] EXCEPT !.cleanups = <<>>]}
      BY <1>0, <2>1
    <2> QED
      BY <1>0, <2>2 DEF ScopeRecord
  <1>2. CASE ~TakeCleanups
    <2>1. scopes' = scopes
      BY <1>2 DEF Next, Step, Notify, CheckSource, CheckPassed, Update, Return, Settle, FlushTake,
         FlushRun, FlushDone, GetStale, Get, Peek, Set, Mount, BuildMounted, Jump, HandlerReturns,
         RunCleanup, Event, Dispatch, Rest, OnlyTheStack, vars
    <2> QED
      BY <2>1
  <1> QED
    BY <1>1, <1>2

\* Disposing s is called on top of the calls in rest.
LEMMA CallsDispose ==
  ASSUME TypeInv, Dispose \/ DisposeChild
  PROVE  /\ stack # <<>>
         /\ \E f \in TypedFrame, t \in Scope :
              /\ OnAs(f) /\ CallDispose(t, <<f>> \o Below)
              /\ (Dispose /\ t = Arg) \/ (DisposeChild /\ t = Head(Top.todo))
              /\ DisposeFrame(t) \in TypedFrame
  <1>0. StoreType /\ StackType(stack, depth)
    BY TypeInvParts
  <1>1. CASE Dispose
    <2>1. Doing("dispose") /\ InCode /\ CallDispose(Arg, <<Skipping(0)>> \o Below)
      BY <1>1 DEF Dispose, Doing, Advanced
    <2>2. stack # <<>> /\ OnAs(Skipping(0)) /\ Skipping(0) \in TypedFrame
      BY <1>0, <2>1, OnInCode, CodeFacts DEF OnAs
    <2>3. Arg \in Scope /\ scopes[Arg].children \in Seq(Scope)
      BY <1>0, <2>1, DoingFacts, ScopeTypes DEF WellTyped
    <2>4. DisposeFrame(Arg) \in TypedFrame
      BY <2>3, NewFrames DEF DisposeFrame
    <2> QED
      BY <1>1, <2>1, <2>2, <2>3, <2>4
  <1>2. CASE DisposeChild
    <2> DEFINE f == [Top EXCEPT !.todo = Tail(Top.todo)]
               t == Head(Top.todo)
    <2>1. /\ stack # <<>> /\ Top.op = "dispose" /\ Top.pc = 1 /\ Top.todo # <<>>
          /\ CallDispose(t, <<f>> \o Below)
      BY <1>2 DEF DisposeChild, At
    <2>2. Top \in TypedFrame /\ Top.todo \in Seq(Scope)
      BY <1>0, <2>1, DisposeTop
    <2>3. Tail(Top.todo) \in Seq(Scope) /\ t \in Scope
      BY <2>1, <2>2
    <2>4. f \in TypedFrame /\ f.op = Top.op /\ f.of = Top.of
      BY <2>1, <2>2, <2>3, FrameGoesOn, FrameSame
    <2>5. f.pc = 1 /\ f.todo = Tail(Top.todo)
      BY <2>1, <2>2 DEF TypedFrame, Frame
    <2>6. DisposeFrame(t) \in TypedFrame
      BY <1>0, <2>3, ScopeTypes, NewFrames DEF DisposeFrame
    <2> HIDE DEF f
    <2>7. OnAs(f)
      BY <1>2, <2>1, <2>4, <2>5 DEF OnAs
    <2> QED
      BY <1>2, <2>1, <2>3, <2>4, <2>6, <2>7
  <1> QED
    BY <1>1, <1>2

\* The lists of the scopes.
LEMMA ScopeLists ==
  ASSUME TypeInv, CallsInv, Scoped, NestInv, TurnsInv, [Next]_vars, NEW s \in Scope
  PROVE  /\ \A c \in Scope : Contains(scopes'[s].children, c) => c # Root /\ app.parent[c] = s
         /\ \A h \in Handler : Contains(scopes'[s].cleanups, h) => CleansUp(app, h, s)
  <1>0. StoreType /\ \A t \in Scope : scopes[t].children \in Seq(Scope)
    BY TypeInvParts, ScopeTypes
  <1>1. /\ \A c \in Scope : Contains(scopes[s].children, c) => c # Root /\ app.parent[c] = s
        /\ \A h \in Handler : Contains(scopes[s].cleanups, h) => CleansUp(app, h, s)
    BY DEF NestInv
  <1>2. scopes'[s].cleanups \in {scopes[s].cleanups, app.cleanups[s], <<>>}
    BY CleanupsStep
  <1>3. \A h \in Handler : Contains(scopes'[s].cleanups, h) => CleansUp(app, h, s)
    BY <1>1, <1>2, NothingListed DEF CleansUp
  <1>4. ASSUME NEW c \in Scope, Contains(scopes'[s].children, c)
        PROVE  c # Root /\ app.parent[c] = s
    <2>1. CASE BuildBranch
      <3>1. s = Arg => scopes'[s].children = <<>>
        BY <2>1, ScopesBuild
      <3>2. s # Arg =>
              /\ s # app.parent[Arg] => scopes'[s].children = scopes[s].children
              /\ s = app.parent[Arg] => scopes'[s].children = Append(scopes[s].children, Arg)
        BY <2>1, ScopesBuild
      <3>3. Arg \in Scope \ {Root}
        BY <2>1, ScopesBuild
      <3>4. Contains(Append(scopes[s].children, Arg), c) <=> Contains(scopes[s].children, c) \/ c = Arg
        BY <1>0, <3>3, AppendedList
      <3> QED
        BY <1>1, <1>4, <3>1, <3>2, <3>3, <3>4, NothingListed
    <2>2. CASE Dispose \/ DisposeChild
      <3>1. PICK f \in TypedFrame, t \in Scope : CallDispose(t, <<f>> \o Below)
        BY <2>2, CallsDispose
      <3>2. scopes'[s].children \in {<<>>, scopes[s].children}
        BY <1>0, <3>1, ScopesCallDispose
      <3> QED
        BY <1>1, <1>4, <3>2, NothingListed
    <2>3. CASE DisposeNodes
      <3>1. \/ scopes'[s].children = scopes[s].children
            \/ scopes'[s].children = Without(scopes[s].children, Top.of)
        BY <2>3, ScopesDisposed
      <3>2. Contains(Without(scopes[s].children, Top.of), c) => Contains(scopes[s].children, c)
        BY <1>0, LivingList DEF Without
      <3> QED
        BY <1>1, <1>4, <3>1, <3>2
    <2> QED
      BY <1>1, <1>4, <2>1, <2>2, <2>3, ScopesKept
  <1> QED
    BY <1>3, <1>4

LEMMA NestStep ==
  ASSUME TypeInv, CallsInv, Scoped, NestInv, TurnsInv, [Next]_vars
  PROVE  NestInv'
  <1>1. app' = app
    BY LinksOKStep
  <1> QED
    BY <1>1, NestsStep, PlaceStep, ScopeLists DEF NestInv

\* The calls below the innermost one stay, and that one goes on or returns.
LEMMA BelowStays ==
  ASSUME TypeInv, CallsInv, [Next]_vars, NEW g, Contains(stack, g), g # Top
  PROVE  Contains(stack', g)
  <1>0. StoreType /\ StackType(stack, depth) /\ stack \in Seq(TypedFrame)
    BY TypeInvParts DEF StackType
  <1>1. stack # <<>>
    BY NothingListed
  <1>2. Contains(Below, g)
    BY <1>0, <1>1, HeldFrames
  <1>3. \A f \in TypedFrame : Continues(f) => Contains(stack', g)
    BY <1>0, <1>1, <1>2, ContinuesHolds
  <1>4. \A f, h \in TypedFrame : Enters(h, f) => Contains(stack', g)
    BY <1>0, <1>1, <1>2, EntersHolds
  <1>5. stack' = stack \/ stack' = Below => Contains(stack', g)
    BY <1>2
  <1>6. \A f : OnAs(f) \/ Entered(f) => f \in TypedFrame
    BY DEF OnAs, Entered
  <1>7. CASE stack' = stack \/ stack' = Below
    BY <1>5, <1>7
  <1>8. CASE \E f : OnAs(f) /\ Continues(f)
    BY <1>3, <1>6, <1>8
  <1>9. CASE \E f, h : OnAs(f) /\ Entered(h) /\ Enters(h, f)
    BY <1>4, <1>6, <1>9
  <1>10. CASE \E f, h \in TypedFrame : Continues(f) \/ Enters(h, f)
    BY <1>3, <1>4, <1>10
  <1> QED
    BY <1>1, <1>7, <1>8, <1>9, <1>10, StepForms DEF StepForm

\* Only the last step of a dispose returns from it.
LEMMA DisposeReturns ==
  ASSUME TypeInv, CallsInv, [Next]_vars, stack # <<>>, Top.op = "dispose", stack' = Below
  PROVE  DisposeNodes
  <1>0. /\ StoreType /\ StackType(stack, depth)
        /\ Below \in Seq(TypedFrame) /\ Len(stack) = Len(Below) + 1 /\ Len(Below) \in Nat
    BY TypeInvParts, TopFacts
  <1>1. stack # Below
    BY <1>0
  <1>2. \A f \in TypedFrame : ~Continues(f)
    <2> SUFFICES ASSUME NEW f \in TypedFrame, Below = <<f>> \o Below PROVE FALSE
      BY DEF Continues
    <2>1. Len(<<f>> \o Below) = Len(Below) + 1
      BY <1>0
    <2> QED
      BY <1>0, <2>1
  <1>3. \A f, h \in TypedFrame : ~Enters(h, f)
    <2> SUFFICES ASSUME NEW f \in TypedFrame, NEW h \in TypedFrame, Below = <<h>> \o (<<f>> \o Below)
                 PROVE FALSE
      BY DEF Enters
    <2>1. <<f>> \o Below \in Seq(TypedFrame) /\ Len(<<f>> \o Below) = Len(Below) + 1
      BY <1>0
    <2>2. Len(<<h>> \o (<<f>> \o Below)) = Len(<<f>> \o Below) + 1
      BY <2>1
    <2> QED
      BY <1>0, <2>1, <2>2
  <1>4. CASE DisposeChild \/ TakeCleanups \/ RunCleanup
    <2>1. \A f : OnAs(f) \/ Entered(f) => f \in TypedFrame
      BY DEF OnAs, Entered
    <2> QED
      BY <1>0, <1>2, <1>3, <1>4, <2>1, FormDisposes
  <1>5. CASE stack' = stack
    BY <1>1, <1>5
  <1>6. Notify \/ Rest \/ UNCHANGED vars => stack' = stack
    BY DEF Notify, Rest, vars
  <1>7. ~Event
    BY DEF Event, Dispatch
  <1>8. ~InCode
    BY DEF InCode, At
  <1> QED
    BY <1>4, <1>5, <1>6, <1>7, <1>8
    DEF Next, Step, At, CheckSource, CheckPassed, Update, Return, Settle, FlushTake, FlushRun,
        FlushDone, GetStale, Get, Peek, Set, Mount, BuildBranch, BuildMounted, Jump, HandlerReturns,
        Dispose, Doing

\* A dispose goes on until its last step.
LEMMA DisposeStays ==
  ASSUME TypeInv, CallsInv, [Next]_vars, NEW s, Called(stack, "dispose", s)
  PROVE  Called(stack', "dispose", s) \/ (DisposeNodes /\ s = Top.of)
  <1>0. StoreType /\ StackType(stack, depth) /\ stack \in Seq(TypedFrame) /\ stack' \in Seq(TypedFrame)
    BY TypeInvParts, NextStack DEF StackType
  <1>1. PICK g \in TypedFrame : Contains(stack, g) /\ g.op = "dispose" /\ g.of = s
    BY <1>0, CalledHolds
  <1>2. CASE g # Top
    BY <1>0, <1>1, <1>2, BelowStays, HoldsCalled
  <1>3. CASE g = Top
    <2>1. stack # <<>>
      BY <1>1, NothingListed
    <2>2. \A f \in TypedFrame : f.op = "dispose" /\ f.of = s /\ Contains(stack', f) => Called(stack', "dispose", s)
      BY <1>0, HoldsCalled
    <2>3. \A f : OnAs(f) => f \in TypedFrame /\ f.op = "dispose" /\ f.of = s
      BY <1>1, <1>3 DEF OnAs
    <2>4. CASE stack' = stack
      BY <2>4
    <2>5. CASE \E f : OnAs(f) /\ Continues(f)
      <3>1. PICK f : OnAs(f) /\ Continues(f)
        BY <2>5
      <3> QED
        BY <1>0, <2>1, <2>2, <2>3, <3>1, ContinuesHolds
    <2>6. CASE \E f, h : OnAs(f) /\ Entered(h) /\ Enters(h, f)
      <3>1. PICK f, h : OnAs(f) /\ Entered(h) /\ Enters(h, f)
        BY <2>6
      <3>2. h \in TypedFrame
        BY <3>1 DEF Entered
      <3> QED
        BY <1>0, <2>1, <2>2, <2>3, <3>1, <3>2, EntersHolds
    <2>7. CASE stack' = Below
      <3>1. DisposeNodes
        BY <1>1, <1>3, <2>1, <2>7, DisposeReturns
      <3> QED
        BY <1>1, <1>3, <3>1
    <2>8. ~Update /\ ~HandlerReturns
      BY <1>1, <1>3 DEF Update, HandlerReturns, At
    <2> QED
      BY <2>1, <2>4, <2>5, <2>6, <2>7, <2>8, StepForms DEF StepForm
  <1> QED
    BY <1>2, <1>3

\* No scope is being disposed twice.
LEMMA DisposedOnce ==
  ASSUME StoreType, StackType(stack, depth), NestInv, stack # <<>>, Top.op = "dispose",
         NEW g, Contains(Below, g), g.op = "dispose"
  PROVE  Within(app, Top.of, g.of) /\ Top.of # g.of
  <1>1. MayNest(app, Top, g) /\ g \in TypedFrame /\ Top \in TypedFrame
    BY NestsTop, HeldFrames DEF NestInv
  <1>2. Top.of \in Scope /\ g.of \in Scope
    BY <1>1, FrameFields
  <1> QED
    BY <1>1, <1>2 DEF MayNest, CallOf

\* When a scope's last step comes, no living scope is right below it.
LEMMA NoOrphans ==
  ASSUME TypeInv, Scoped, NestInv, ScopeTree, DisposeNodes,
         NEW s \in Scope \ {Root}, Live(s), app.parent[s] = Top.of
  PROVE  FALSE
  <1>0. /\ StoreType /\ StackType(stack, depth) /\ stack \in Seq(TypedFrame) /\ stack # <<>>
        /\ Top.op = "dispose" /\ Top.pc = 2 /\ Top.of \in Scope /\ Top \in TypedFrame
        /\ \A g : Contains(stack, g) <=> g = Top \/ Contains(Below, g)
    BY TypeInvParts, ScopesDisposed, HeldFrames, TopOn DEF StackType, DisposeNodes, At
  <1>1. Called(stack, "dispose", Top.of)
    BY <1>0, HoldsCalled
  <1>2. ~Contains(scopes[Top.of].children, s)
    BY <1>0, <1>1, NothingListed DEF ScopeTree
  <1>3. ~ToDispose(stack, Top.of, s)
    BY <1>0, DisposedOnce DEF ToDispose
  <1>4. ASSUME Called(stack, "dispose", s) PROVE FALSE
    <2>1. PICK g \in TypedFrame : Contains(stack, g) /\ g.op = "dispose" /\ g.of = s
      BY <1>0, <1>4, CalledHolds
    <2>2. Within(app, s, Top.of) /\ s # Top.of
      BY WithinSelf, WithinParent DEF Scoped, InScope, Tree
    <2>3. Within(app, Top.of, s)
      BY <1>0, <2>1, <2>2, DisposedOnce
    <2> QED
      BY <1>0, <2>2, <2>3, WithinOneWay DEF Scoped, InScope
  <1> QED
    BY <1>2, <1>3, <1>4 DEF ScopeTree

\* A scope that a dispose of its parent is to come to is come to, or dead.
LEMMA ToDisposeStep ==
  ASSUME TypeInv, CallsInv, Scoped, NestInv, [Next]_vars,
         NEW p, NEW s \in Scope, ToDispose(stack, p, s)
  PROVE  \/ ToDispose(stack', p, s)
         \/ Called(stack', "dispose", s)
         \/ ~Live(s)
  <1>0. /\ StoreType /\ StackType(stack, depth) /\ stack' \in Seq(TypedFrame)
    BY TypeInvParts, NextStack
  <1>1. PICK g \in TypedFrame : /\ Contains(stack, g) /\ g.op = "dispose" /\ g.of = p
                                /\ g.pc = 1 /\ Contains(g.todo, s)
    BY DEF ToDispose
  <1>2. CASE g # Top
    BY <1>1, <1>2, BelowStays DEF ToDispose
  <1>3. CASE g = Top
    <2>1. stack # <<>> /\ Top.todo # <<>> /\ Top \in TypedFrame
      BY <1>1, <1>3, NothingListed
    <2>2. \A f \in TypedFrame : Contains(stack', f) /\ f.op = "dispose" /\ f.of = p /\ f.pc = 1
                                  /\ Contains(f.todo, s) => ToDispose(stack', p, s)
      BY DEF ToDispose
    <2>3. CASE stack' = stack
      BY <1>1, <1>3, <2>2, <2>3
    <2>4. stack' # Below
      BY <1>1, <1>3, <2>1, DisposeReturns DEF DisposeNodes
    <2>5. Top.todo \in Seq(Scope)
      BY <1>0, <1>1, <1>3, <2>1, DisposeTop
    <2>6. ASSUME NEW f, OnAs(f) PROVE /\ DisposeChild /\ f.todo = Tail(Top.todo) /\ f.pc = 1
                                      /\ f \in TypedFrame /\ f.op = "dispose" /\ f.of = p
      BY <1>1, <1>3, <2>1, <2>6 DEF OnAs, TakeCleanups
    <2>7. CASE DisposeChild
      <3>1. ASSUME NEW t \in Scope, NEW f \in TypedFrame, CallDispose(t, <<f>> \o Below),
                   f.todo = Tail(Top.todo), t = Head(Top.todo), OnAs(f), DisposeFrame(t) \in TypedFrame,
                   Live(s)
            PROVE  ToDispose(stack', p, s) \/ Called(stack', "dispose", s)
        <4>1. \/ Live(t) /\ Enters(DisposeFrame(t), f)
              \/ ~Live(t) /\ Continues(f)
          BY <3>1 DEF CallDispose, Live, Enters, Continues
        <4>2. Contains(stack', f) /\ (Live(t) => Contains(stack', DisposeFrame(t)))
          BY <1>0, <2>1, <3>1, <4>1, ContinuesHolds, EntersHolds
        <4>3. DisposeFrame(t).op = "dispose" /\ DisposeFrame(t).of = t
          BY DEF DisposeFrame, NewFrame
        <4>4. CASE s = t
          BY <1>0, <3>1, <4>2, <4>3, <4>4, HoldsCalled
        <4>5. CASE s # t
          <5>1. Contains(f.todo, s)
            BY <1>1, <1>3, <2>1, <2>5, <3>1, <4>5, TailItems
          <5> QED
            BY <2>2, <2>6, <3>1, <4>2, <5>1
        <4> QED
          BY <4>4, <4>5
      <3>2. ~Dispose
        BY <1>1, <1>3 DEF Dispose, Doing, InCode, At
      <3>3. PICK f \in TypedFrame, t \in Scope :
              /\ OnAs(f) /\ CallDispose(t, <<f>> \o Below) /\ t = Head(Top.todo)
              /\ DisposeFrame(t) \in TypedFrame
        BY <2>7, <3>2, CallsDispose
      <3> QED
        BY <2>6, <3>1, <3>3
    <2>8. ~Update /\ ~HandlerReturns
      BY <1>1, <1>3 DEF Update, HandlerReturns, At
    <2> QED
      BY <2>1, <2>3, <2>4, <2>6, <2>7, <2>8, StepForms DEF StepForm
  <1> QED
    BY <1>2, <1>3

\* While a branch is built nothing is being disposed, and its parent lives.
LEMMA BuildsInLife ==
  ASSUME TypeInv, CallsInv, Scoped, NestInv, TurnsInv, LivingCalls, BuildBranch
  PROVE  /\ Live(app.parent[Arg])
         /\ \A s : ~Called(stack, "dispose", s)
  <1>0. /\ StoreType /\ StackType(stack, depth) /\ Shape(app, stack, observer) /\ stack \in Seq(TypedFrame)
        /\ Doing("build") /\ InCode /\ stack # <<>>
    BY TypeInvParts, CodeFacts DEF CallsInv, StackType, BuildBranch, Doing
  <1>1. /\ ~MemoCall(app, Top) /\ ~EventCall(app, Top) /\ ~TearsDown(app, Top)
        /\ \A s \in Scope : CallOf(app, Top, s) => app.parent[Arg] = s
    BY <1>0, StructureInReach
  <1>2. /\ Top \in TypedFrame /\ Contains(stack, Top)
        /\ \A g : Contains(stack, g) => g = Top \/ (Contains(Below, g) /\ MayNest(app, Top, g))
    BY <1>0, HeldFrames, NestsTop DEF NestInv
  <1>3. PICK u \in Scope : CallOf(app, Top, u)
    BY <1>0, <1>1, CallsAreOf
  <1>4. Live(app.parent[Arg])
    BY <1>1, <1>2, <1>3 DEF LivingCalls, InLife
  <1>5. ASSUME NEW s, Called(stack, "dispose", s) PROVE FALSE
    <2>1. PICK g \in TypedFrame : Contains(stack, g) /\ g.op = "dispose" /\ g.of = s
      BY <1>0, <1>5, CalledHolds
    <2> QED
      BY <1>1, <1>2, <2>1 DEF MayNest, TearsDown
  <1> QED
    BY <1>4, <1>5

\* How the lists of children change.
LEMMA ChildrenStep ==
  ASSUME TypeInv, [Next]_vars, NEW s \in Scope
  PROVE  \/ scopes'[s].children = scopes[s].children
         \/ BuildBranch /\ s = Arg /\ scopes'[s].children = <<>>
         \/ BuildBranch /\ s = app.parent[Arg] /\ scopes'[s].children = Append(scopes[s].children, Arg)
         \/ /\ scopes'[s].children = <<>> /\ Live(s) /\ stack # <<>>
            /\ \E f \in TypedFrame : OnAs(f) /\ DisposeFrame(s) \in TypedFrame /\ Enters(DisposeFrame(s), f)
         \/ DisposeNodes /\ scopes'[s].children = Without(scopes[s].children, Top.of)
  <1>1. CASE BuildBranch
    BY <1>1, ScopesBuild
  <1>2. CASE Dispose \/ DisposeChild
    <2>1. PICK f \in TypedFrame, t \in Scope :
            OnAs(f) /\ CallDispose(t, <<f>> \o Below) /\ DisposeFrame(t) \in TypedFrame
      BY <1>2, CallsDispose
    <2>2. StoreType
      BY TypeInvParts
    <2>3. stack # <<>>
      BY <1>2, CallsDispose
    <2>4. CASE s = t /\ Live(s)
      <3>1. scopes'[s].children = <<>> /\ stack' = <<DisposeFrame(s)>> \o (<<f>> \o Below)
        BY <2>1, <2>2, <2>4, ScopesCallDispose
      <3>2. Enters(DisposeFrame(s), f) /\ DisposeFrame(s) \in TypedFrame
        BY <2>1, <2>4, <3>1 DEF Enters
      <3> QED
        BY <2>1, <2>3, <2>4, <3>1, <3>2
    <2>5. CASE ~(s = t /\ Live(s))
      BY <2>1, <2>2, <2>5, ScopesCallDispose
    <2> QED
      BY <2>4, <2>5
  <1>3. CASE DisposeNodes
    BY <1>3, ScopesDisposed
  <1> QED
    BY <1>1, <1>2, <1>3, ScopesKept

\* Which scopes live.
LEMMA LiveStep ==
  ASSUME TypeInv, [Next]_vars, NEW s \in Scope
  PROVE  /\ BuildBranch => (Live(s)' <=> Live(s) \/ s = Arg)
         /\ DisposeNodes => (Live(s)' <=> Live(s) /\ s # Top.of)
         /\ ~BuildBranch /\ ~DisposeNodes => (Live(s)' <=> Live(s))
  <1>1. CASE BuildBranch
    <2>1. ~DisposeNodes
      BY <1>1 DEF BuildBranch, DisposeNodes, Doing, InCode, At
    <2> QED
      BY <1>1, <2>1, ScopesBuild DEF Live
  <1>2. CASE Dispose \/ DisposeChild
    <2>1. PICK f \in TypedFrame, t \in Scope : CallDispose(t, <<f>> \o Below)
      BY <1>2, CallsDispose
    <2>2. StoreType
      BY TypeInvParts
    <2>3. Live(s)' <=> Live(s)
      BY <2>1, <2>2, ScopesCallDispose DEF Live
    <2>4. ~DisposeNodes
      BY <1>2 DEF Dispose, DisposeChild, DisposeNodes, Doing, InCode, At
    <2> QED
      BY <2>3, <2>4, ScopesBuild
  <1>3. CASE DisposeNodes
    <2>1. ~BuildBranch
      BY <1>3 DEF BuildBranch, DisposeNodes, Doing, InCode, At
    <2>2. Live(s)' <=> Live(s) /\ s # Top.of
      BY <1>3, ScopesDisposed DEF Live
    <2> QED
      BY <1>3, <2>1, <2>2
  <1> QED
    BY <1>1, <1>2, <1>3, ScopesKept DEF Live

LEMMA ScopeTreeStep ==
  ASSUME TypeInv, CallsInv, Scoped, NestInv, TurnsInv, LivingCalls, ScopeTree, [Next]_vars
  PROVE  ScopeTree'
  <1>0. /\ StoreType /\ StackType(stack, depth) /\ stack \in Seq(TypedFrame) /\ stack' \in Seq(TypedFrame)
        /\ app' = app /\ Root \in Scope /\ Tree(app)
        /\ \A s \in Scope \ {Root} : app.parent[s] \in Scope
        /\ \A s \in Scope : scopes[s].children \in Seq(Scope)
    BY TypeInvParts, NextStack, LinksOKStep, NamesAssumption, ScopeTypes
    DEF StackType, Scoped, InScope
  <1>1. Live(Root)'
    <2>1. DisposeNodes => Top.of # Root
      <3>1. DisposeNodes => stack # <<>> /\ Top.op = "dispose"
        BY DEF DisposeNodes, At
      <3> QED
        BY <1>0, <3>1, HeldFrames DEF NestInv, PlaceOK
    <2> QED
      BY <1>0, <2>1, LiveStep DEF ScopeTree
  <1>2. ASSUME NEW s \in Scope, Called(stack', "dispose", s) PROVE scopes'[s].children = <<>>
    <2>1. PICK g \in TypedFrame : Contains(stack', g) /\ g.op = "dispose" /\ g.of = s
      BY <1>0, <1>2, CalledHolds
    <2>2. CASE Called(stack, "dispose", s)
      <3>1. scopes[s].children = <<>> /\ ~BuildBranch
        BY <2>2, BuildsInLife DEF ScopeTree
      <3>2. \A x : Without(<<>>, x) = <<>>
        <4> SUFFICES ASSUME NEW x PROVE Living(<<>>, {x}) = <<>>
          BY DEF Without
        <4>1. <<>> \in Seq(Scope) /\ \A q \in Seq(Scope) : q = <<>> \/ Contains(q, q[1])
          BY DEF Contains
        <4>2. /\ Living(<<>>, {x}) \in Seq(Scope)
              /\ \A y : Contains(Living(<<>>, {x}), y) => Contains(<<>>, y)
          BY <4>1, LivingList
        <4> HIDE DEF Living
        <4> QED
          BY <4>1, <4>2, NothingListed
      <3> QED
        BY <3>1, <3>2, ChildrenStep
    <2>3. CASE ~Called(stack, "dispose", s)
      <3>1. ~Contains(stack, g)
        BY <1>0, <2>1, <2>3, HoldsCalled
      <3>2. ~(stack # <<>> /\ OnAs(g))
        BY <1>0, <2>1, <2>3, HeldFrames, HoldsCalled DEF OnAs
      <3>3. stack # <<>> /\ Entered(g)
        BY <2>1, <3>1, <3>2, NextFrames
      <3>4. (Dispose /\ s = Arg) \/ (DisposeChild /\ s = Head(Top.todo))
        BY <2>1, <3>3 DEF Entered
      <3>5. Live(s)
        BY <2>1, <3>3 DEF Entered, Live
      <3>6. PICK f \in TypedFrame, t \in Scope :
              /\ CallDispose(t, <<f>> \o Below)
              /\ (Dispose /\ t = Arg) \/ (DisposeChild /\ t = Head(Top.todo))
        BY <3>4, CallsDispose
      <3>7. t = s
        <4>1. ~(Dispose /\ DisposeChild)
          BY DEF Dispose, DisposeChild, Doing, InCode, At
        <4> QED
          BY <3>4, <3>6, <4>1
      <3> QED
        BY <1>0, <3>5, <3>6, <3>7, ScopesCallDispose
    <2> QED
      BY <2>2, <2>3
  <1>3. ASSUME NEW s \in Scope \ {Root}, Live(s)'
        PROVE  /\ Live(app.parent[s])'
               /\ \/ Contains(scopes'[app.parent[s]].children, s)
                  \/ ToDispose(stack', app.parent[s], s)
                  \/ Called(stack', "dispose", s)
    <2>00. app.parent[s] \in Scope /\ app.parent[s] # s
      BY <1>0, WithinSelf DEF Tree
    <2>0. PICK p \in Scope : p = app.parent[s] /\ p # s
      BY <2>00
    <2>9. SUFFICES /\ Live(p)'
                   /\ Contains(scopes'[p].children, s) \/ ToDispose(stack', p, s) \/ Called(stack', "dispose", s)
      BY <1>0, <2>0
    <2>1. CASE Live(s)
      <3>1. /\ Live(p)
            /\ Contains(scopes[p].children, s) \/ ToDispose(stack, p, s) \/ Called(stack, "dispose", s)
        BY <2>0, <2>1 DEF ScopeTree
      <3>2. ~(DisposeNodes /\ Top.of = p)
        BY <2>0, <2>1, NoOrphans
      <3>3. Live(p)'
        BY <2>0, <3>1, <3>2, LiveStep
      <3>4. ~(DisposeNodes /\ Top.of = s)
        BY <1>3, LiveStep
      <3>5. CASE Contains(scopes[p].children, s)
        <4>1. CASE scopes'[p].children = scopes[p].children
          BY <3>3, <3>5, <4>1
        <4>2. ~(BuildBranch /\ p = Arg)
          BY <3>1, ScopesBuild
        <4>3. CASE BuildBranch /\ scopes'[p].children = Append(scopes[p].children, Arg)
          <5>1. Arg \in Scope
            BY <2>0, <4>3, ScopesBuild
          <5> QED
            BY <1>0, <2>0, <3>3, <3>5, <4>3, <5>1, AppendedList
        <4>4. CASE stack # <<>> /\ \E f \in TypedFrame : OnAs(f) /\ DisposeFrame(p) \in TypedFrame /\ Enters(DisposeFrame(p), f)
          <5>1. PICK f \in TypedFrame : OnAs(f) /\ DisposeFrame(p) \in TypedFrame /\ Enters(DisposeFrame(p), f)
            BY <4>4
          <5>3. Contains(stack', DisposeFrame(p))
            BY <1>0, <4>4, <5>1, EntersHolds
          <5>4. /\ DisposeFrame(p).op = "dispose" /\ DisposeFrame(p).of = p /\ DisposeFrame(p).pc = 1
                /\ DisposeFrame(p).todo = scopes[p].children
            BY DEF DisposeFrame, NewFrame
          <5>5. ToDispose(stack', p, s)
            BY <3>5, <5>1, <5>3, <5>4 DEF ToDispose
          <5> QED
            BY <3>3, <5>5
        <4>5. CASE DisposeNodes /\ scopes'[p].children = Without(scopes[p].children, Top.of)
          BY <1>0, <2>0, <3>3, <3>4, <3>5, <4>5, LivingList DEF Without
        <4> QED
          BY <2>0, <3>3, <4>1, <4>2, <4>3, <4>4, <4>5, ChildrenStep
      <3>6. CASE ToDispose(stack, p, s)
        BY <2>1, <3>3, <3>6, ToDisposeStep
      <3>7. CASE Called(stack, "dispose", s)
        BY <3>3, <3>4, <3>7, DisposeStays
      <3> QED
        BY <3>1, <3>5, <3>6, <3>7
    <2>2. CASE ~Live(s)
      <3>1. BuildBranch /\ s = Arg
        BY <1>3, <2>2, LiveStep
      <3>2. Live(p) /\ ~DisposeNodes
        BY <3>1, BuildsInLife, <2>0 DEF BuildBranch, DisposeNodes, Doing, InCode, At
      <3>3. Live(p)'
        BY <2>0, <3>1, <3>2, LiveStep
      <3>4. scopes'[p].children = Append(scopes[p].children, s)
        BY <2>0, <3>1, ScopesBuild
      <3>5. Contains(scopes'[p].children, s)
        BY <1>0, <2>0, <3>4, AppendedList
      <3> QED
        BY <3>3, <3>5
    <2> QED
      BY <2>1, <2>2
  <1> QED
    BY <1>0, <1>1, <1>2, <1>3 DEF ScopeTree, Live

\* The closure that runs is of a living scope.
LEMMA CodeLives ==
  ASSUME TypeInv, CallsInv, NestInv, TurnsInv, ScopeTree, NodesOfScopes, LivingCalls, InCode
  PROVE  \E s \in Scope : Belongs(app, Top.of, s) /\ Live(s)
  <1>0. /\ StoreType /\ StackType(stack, depth) /\ stack # <<>> /\ app \in App
        /\ Top \in TypedFrame /\ Contains(stack, Top) /\ Root \in Scope
    BY TypeInvParts, CodeFacts, HeldFrames, NamesAssumption
  <1>1. CASE Top.op = "run"
    <2>1. Top.of \in Node /\ Top.of \in alive
      BY <1>0, <1>1, FrameFields DEF LivingCalls, InLife, Working
    <2>2. app.owner[Top.of] \in Scope /\ Live(app.owner[Top.of])
      BY <1>0, <2>1, AppAssumption DEF NodesOfScopes
    <2> QED
      BY <2>1, <2>2 DEF Belongs
  <1>2. CASE Top.op # "run"
    <2>1. Top.op \in {"handler", "batch"} /\ Top.of \in Handler
      BY <1>0, <1>2, CodeFacts, FrameFields
    <2>2. CASE Top.of \in app.onEvent
      BY <1>0, <2>1, <2>2 DEF Belongs, ScopeTree
    <2>3. CASE Top.of \notin app.onEvent
      <3>1. Top.op = "handler"
        BY <1>0, <2>1, <2>3 DEF TurnsInv, FrameOK
      <3>2. PICK s \in Scope : Belongs(app, Top.of, s)
        BY <1>0, <3>1 DEF NestInv, PlaceOK
      <3>3. CallOf(app, Top, s)
        BY <2>3, <3>1, <3>2 DEF CallOf
      <3> QED
        BY <1>0, <3>2, <3>3 DEF LivingCalls, InLife
    <2> QED
      BY <2>2, <2>3
  <1> QED
    BY <1>1, <1>2

\* What a closure reads exists.
LEMMA ArgLives ==
  ASSUME TypeInv, CallsInv, Scoped, NestInv, TurnsInv, ScopeTree, NodesOfScopes, LivingCalls,
         Doing("get") \/ Doing("peek")
  PROVE  Arg \in Node /\ Arg \in alive /\ ~IsEffect(Arg)
  <1>0. StoreType /\ StackType(stack, depth) /\ app \in App
    BY TypeInvParts DEF StoreType
  <1>1. PICK i \in {"get", "peek"} : Doing(i)
    OBVIOUS
  <1>2. /\ InCode /\ Top.pc \in DOMAIN Code /\ Code[Top.pc].do = i /\ Arg = Code[Top.pc].of
        /\ WellTyped(app, Code[Top.pc])
    BY <1>0, <1>1, DoingFacts
  <1>3. Arg \in Node /\ ~IsEffect(Arg)
    BY <1>1, <1>2 DEF WellTyped, IsEffect
  <1>4. PICK s \in Scope : Belongs(app, Top.of, s) /\ Live(s)
    BY <1>2, CodeLives
  <1>5. Top.of \in Node \cup Handler /\ Code = app.code[Top.of]
    BY <1>0, <1>2, CodeFacts DEF Code
  <1>6. InReach(app, s, Code[Top.pc])
    BY <1>2, <1>4, <1>5 DEF Scoped, InScope
  <1>7. Within(app, s, app.owner[Arg])
    BY <1>1, <1>2, <1>6 DEF InReach
  <1>8. Live(app.owner[Arg])
    BY <1>0, <1>4, <1>7, LiveAbove
  <1> QED
    BY <1>3, <1>8 DEF NodesOfScopes

\* What is mounted is of a living scope.
LEMMA MountsInLife ==
  ASSUME TypeInv, CallsInv, Scoped, NestInv, TurnsInv, LivingCalls, Mount
  PROVE  Arg \in Node /\ IsEffect(Arg) /\ Live(app.owner[Arg])
  <1>0. /\ StoreType /\ StackType(stack, depth) /\ Shape(app, stack, observer)
        /\ Doing("mount") /\ InCode /\ stack # <<>>
    BY TypeInvParts, CodeFacts DEF CallsInv, Mount, Doing
  <1>1. /\ ~MemoCall(app, Top) /\ ~EventCall(app, Top) /\ Arg \in Node /\ IsEffect(Arg)
        /\ \A s \in Scope : CallOf(app, Top, s) => app.owner[Arg] = s
    BY <1>0, StructureInReach
  <1>2. PICK u \in Scope : CallOf(app, Top, u)
    BY <1>0, <1>1, CallsAreOf
  <1>3. Top \in TypedFrame /\ Contains(stack, Top)
    BY <1>0, HeldFrames
  <1> QED
    BY <1>1, <1>2, <1>3 DEF LivingCalls, InLife

\* Which nodes exist.
LEMMA AliveStep ==
  ASSUME TypeInv, [Next]_vars, NEW n \in Node
  PROVE  /\ Mount => (n \in alive' <=> n \in alive \/ n = Arg)
         /\ BuildBranch => (n \in alive' <=> n \in alive \/ (~IsEffect(n) /\ app.owner[n] = Arg))
         /\ DisposeNodes => (n \in alive' <=> n \in alive /\ app.owner[n] # Top.of)
         /\ ~Mount /\ ~BuildBranch /\ ~DisposeNodes => (n \in alive' <=> n \in alive)
  <1>1. CASE Mount
    <2>1. ~BuildBranch /\ ~DisposeNodes
      BY <1>1 DEF Mount, BuildBranch, DisposeNodes, Doing, InCode, At
    <2>2. alive' = alive \cup {Arg}
      BY <1>1 DEF Mount
    <2> QED
      BY <1>1, <2>1, <2>2
  <1>2. CASE BuildBranch
    <2>1. ~Mount /\ ~DisposeNodes
      BY <1>2 DEF Mount, BuildBranch, DisposeNodes, Doing, InCode, At
    <2>2. alive' = alive \cup {k \in Owned(Arg) : ~IsEffect(k)}
      BY <1>2 DEF BuildBranch
    <2> QED
      BY <1>2, <2>1, <2>2 DEF Owned
  <1>3. CASE DisposeNodes
    <2>1. ~Mount /\ ~BuildBranch
      BY <1>3 DEF Mount, BuildBranch, DisposeNodes, Doing, InCode, At
    <2>2. alive' = alive \ Dying(Top.of)
      BY <1>3, DisposeNodesParts
    <2> QED
      BY <1>3, <2>1, <2>2 DEF Dying, Owned
  <1>4. CASE ~Mount /\ ~BuildBranch /\ ~DisposeNodes
    <2>1. alive' = alive
      BY <1>4 DEF Next, Step, Notify, CheckSource, CheckPassed, Update, Return, Settle, FlushTake,
         FlushRun, FlushDone, GetStale, Get, Peek, Set, BuildMounted, Jump, HandlerReturns,
         Dispose, DisposeChild, CallDispose, TakeCleanups, RunCleanup, Event, Dispatch, Rest,
         OnlyTheStack, graph, vars
    <2> QED
      BY <1>4, <2>1
  <1> QED
    BY <1>1, <1>2, <1>3, <1>4

LEMMA NodesStep ==
  ASSUME TypeInv, CallsInv, Scoped, NestInv, TurnsInv, NodesOfScopes, LivingCalls, [Next]_vars
  PROVE  NodesOfScopes'
  <1>0. app' = app /\ \A n : IsEffect(n)' <=> IsEffect(n)
    BY LinksOKStep DEF IsEffect
  <1>1. \A n \in Node : app.owner[n] \in Scope
    BY TypeInvParts, AppAssumption DEF StoreType
  <1>2. SUFFICES ASSUME NEW n \in Node
                 PROVE  IF IsEffect(n) THEN n \in alive' => Live(app.owner[n])'
                        ELSE n \in alive' <=> Live(app.owner[n])'
    BY <1>0 DEF NodesOfScopes
  <1>3. PICK s \in Scope : s = app.owner[n]
    BY <1>1
  <1>4. SUFFICES IF IsEffect(n) THEN n \in alive' => Live(s)' ELSE n \in alive' <=> Live(s)'
    BY <1>0, <1>3
  <1>5. IF IsEffect(n) THEN n \in alive => Live(s) ELSE n \in alive <=> Live(s)
    BY <1>3 DEF NodesOfScopes
  <1>6. CASE Mount
    <2>1. ~BuildBranch /\ ~DisposeNodes
      BY <1>6 DEF Mount, BuildBranch, DisposeNodes, Doing, InCode, At
    <2>2. n = Arg => IsEffect(n) /\ Live(s)
      BY <1>3, <1>6, MountsInLife
    <2> QED
      BY <1>5, <1>6, <2>1, <2>2, AliveStep, LiveStep
  <1>7. CASE BuildBranch
    BY <1>3, <1>5, <1>7, AliveStep, LiveStep
  <1>8. CASE DisposeNodes
    BY <1>3, <1>5, <1>8, AliveStep, LiveStep
  <1>9. CASE ~Mount /\ ~BuildBranch /\ ~DisposeNodes
    BY <1>5, <1>9, AliveStep, LiveStep
  <1> QED
    BY <1>6, <1>7, <1>8, <1>9

\* What a call is about stays, unless the scope is disposed in this step.
LEMMA LifeKept ==
  ASSUME TypeInv, CallsInv, [Next]_vars, ~DisposeNodes, NEW g \in TypedFrame, InLife(g)
  PROVE  InLife(g)'
  <1>1. \A n \in Node : n \in alive => n \in alive'
    BY AliveStep
  <1>2. \A s \in Scope : Live(s) => Live(s)'
    BY LiveStep
  <1>3. app' = app /\ alive \subseteq Node
    BY TypeInvParts, LinksOKStep DEF StoreType
  <1> QED
    BY <1>1, <1>2, <1>3 DEF InLife

\* Under the last step of a dispose everything is of other scopes.
LEMMA LifeBelow ==
  ASSUME TypeInv, CallsInv, NestInv, LivingCalls, [Next]_vars, DisposeNodes,
         NEW g \in TypedFrame, Contains(Below, g)
  PROVE  InLife(g)'
  <1>a. /\ StoreType /\ StackType(stack, depth) /\ stack \in Seq(TypedFrame) /\ app \in App
        /\ app' = app /\ Shape(app, stack, observer)
    BY TypeInvParts, LinksOKStep DEF CallsInv, StackType, StoreType
  <1>b. stack # <<>> /\ Top.op = "dispose"
    BY DEF DisposeNodes, At
  <1>0. /\ StoreType /\ StackType(stack, depth) /\ stack \in Seq(TypedFrame) /\ app \in App
        /\ stack # <<>> /\ Top.op = "dispose" /\ Top.of \in Scope /\ app' = app
        /\ Shape(app, stack, observer) /\ Top \in TypedFrame /\ Contains(stack, g)
    BY <1>a, <1>b, DisposeTop, HeldFrames
  <1>1. /\ InLife(g) /\ MayNest(app, Top, g) /\ CallOf(app, Top, Top.of)
    BY <1>0, NestsTop DEF LivingCalls, NestInv, CallOf
  <1>2. \A s \in Scope : CallOf(app, g, s) => s # Top.of
    BY <1>0, <1>1 DEF MayNest
  <1>3. PICK i \in 1..Len(stack) : stack[i] = g
    BY <1>0 DEF Contains
  <1>4. ~Pulls(app, g)
    <2>1. ~Pulls(app, stack[1])
      BY <1>0, DisposeTop, TopFacts
    <2> QED
      BY <1>0, <1>3, <2>1, Calm
  <1>5. ASSUME g.op \in Working PROVE g.of \in alive'
    <2>1. g.of \in Node /\ g.of \in alive
      BY <1>1, <1>5, FrameFields DEF InLife, Working
    <2>2. app.kind[g.of] # "signal" /\ app.kind[g.of] # "memo"
      BY <1>0, <1>3, <1>4, <1>5 DEF Shape, NoSignals, Pulls, MemoCall
    <2>3. app.kind[g.of] = "effect" /\ app.owner[g.of] \in Scope
      BY <1>0, <2>1, <2>2, AppAssumption
    <2>4. CallOf(app, g, app.owner[g.of])
      BY <1>5, <2>3 DEF CallOf, EffectCall
    <2>5. app.owner[g.of] # Top.of
      BY <1>2, <2>3, <2>4
    <2> QED
      BY <2>1, <2>5, AliveStep
  <1>6. g.op # "visit"
    BY <1>4 DEF Pulls
  <1>7. ASSUME NEW s \in Scope, CallOf(app, g, s) PROVE Live(s)'
    <2>1. Live(s) /\ s # Top.of
      BY <1>1, <1>2, <1>7 DEF InLife
    <2> QED
      BY <2>1, LiveStep
  <1> QED
    BY <1>0, <1>5, <1>6, <1>7 DEF InLife

\* What a step calls, is about something that exists.
LEMMA EnteredLives ==
  ASSUME TypeInv, CallsInv, Scoped, NestInv, TurnsInv, ScopeTree, NodesOfScopes, LivingCalls,
         LivingLinks, [Next]_vars, stack # <<>>, NEW h, Entered(h)
  PROVE  InLife(h)'
  <1>0. /\ StoreType /\ StackType(stack, depth) /\ app \in App /\ h \in TypedFrame /\ app' = app
        /\ Top \in TypedFrame /\ Contains(stack, Top) /\ InLife(Top)
    BY TypeInvParts, HeldFrames, LinksOKStep DEF Entered, StoreType, LivingCalls
  <1>1. /\ ~DisposeNodes
        /\ \A n \in Node : n \in alive => n \in alive'
        /\ \A s \in Scope : Live(s) => Live(s)'
    <2>1. ~DisposeNodes
      BY DEF Entered, DisposeNodes, At, GetStale, CheckSource, FlushRun, Set, Mount, BuildBranch,
         Dispose, DisposeChild, RunCleanup, Doing, InCode
    <2> QED
      BY <2>1, AliveStep, LiveStep
  <1>2. ASSUME h.op = "visit" PROVE \A m \in Node : Contains(h.todo, m) => m \in alive'
    <2>1. h.of \in Node /\ h.todo \in {<<>>, sources[h.of]}
      BY <1>0, <1>2, FrameFields DEF Entered
    <2>2. \A m \in Node : Contains(h.todo, m) => m \in alive
      BY <2>1, NothingListed DEF LivingLinks, DependsOn
    <2> QED
      BY <1>1, <2>2
  <1>3. CASE h.op = "visit" /\ IsMemo(h.of) /\ (GetStale \/ CheckSource)
    <2>1. h.of \in Node
      BY <1>0, <1>3, FrameFields
    <2>2. h.of \in alive
      <3>1. CASE GetStale /\ h.of = Arg
        BY <3>1, ArgLives DEF GetStale
      <3>2. CASE CheckSource /\ h.of = Head(Top.todo)
        <4>1. Top.op = "visit" /\ Top.todo # <<>>
          BY <3>2 DEF CheckSource, At
        <4>2. Top.todo \in Seq(Node)
          BY <1>0, <4>1, FrameFields
        <4>3. Contains(Top.todo, h.of)
          BY <3>2, <4>1, <4>2, TailItems
        <4> QED
          BY <1>0, <2>1, <4>1, <4>3 DEF InLife
      <3>3. ~(GetStale /\ CheckSource)
        BY DEF GetStale, CheckSource, Doing, InCode, At
      <3> QED
        BY <1>3, <3>1, <3>2, <3>3
           DEF Entered, FlushRun, Mount, GetStale, CheckSource, Doing, InCode, At
    <2>3. \A s \in Scope : ~CallOf(app, h, s)
      BY <1>3 DEF CallOf, EffectCall, IsMemo
    <2> QED
      BY <1>0, <1>1, <1>2, <2>1, <2>2, <2>3 DEF InLife
  <1>4. CASE FlushRun /\ h.op = "visit" /\ h.of = Head(Top.todo) /\ h.of \in alive
    <2>1. h.of \in Node
      BY <1>0, <1>4, FrameFields
    <2>2. ASSUME NEW s \in Scope, CallOf(app, h, s) PROVE Live(s)'
      <3>1. app.kind[h.of] = "effect" /\ s = app.owner[h.of]
        BY <1>4, <2>2 DEF CallOf, EffectCall
      <3> QED
        BY <1>1, <1>4, <2>1, <2>2, <3>1 DEF NodesOfScopes, IsEffect
    <2> QED
      BY <1>0, <1>1, <1>2, <1>4, <2>1, <2>2 DEF InLife
  <1>5. CASE Set /\ h.op = "flush"
    BY <1>0, <1>5 DEF InLife, CallOf, EffectCall, Working
  <1>6. CASE Mount /\ h.op = "visit" /\ h.of = Arg
    <2>1. Arg \in Node /\ IsEffect(Arg) /\ Live(app.owner[Arg])
      BY <1>6, MountsInLife
    <2>2. Arg \in alive'
      BY <1>6, <2>1, AliveStep
    <2>3. ASSUME NEW s \in Scope, CallOf(app, h, s) PROVE Live(s)'
      <3>1. s = app.owner[Arg]
        BY <1>6, <2>3 DEF CallOf, EffectCall
      <3> QED
        BY <1>1, <2>1, <2>3, <3>1
    <2> QED
      BY <1>0, <1>2, <1>6, <2>2, <2>3 DEF InLife
  <1>7. CASE BuildBranch /\ h.op = "handler" /\ h.of = app.build[Arg]
    <2>1. Arg \in Scope /\ app.build[Arg] \in Handler
      <3>1. Arg \in Scope
        BY <1>0, <1>7, DoingFacts DEF BuildBranch, WellTyped
      <3> QED
        BY <1>0, <3>1, ScopeTypes
    <2>2. ASSUME NEW s \in Scope, CallOf(app, h, s) PROVE s = Arg
      <3>1. Belongs(app, h.of, s) /\ Belongs(app, h.of, Arg) /\ h.of \in Handler
        BY <1>7, <2>1, <2>2 DEF CallOf, EffectCall, Working, Belongs
      <3> QED
        BY <2>1, <2>2, <3>1 DEF Scoped, InScope
    <2>3. \A s \in Scope : CallOf(app, h, s) => Live(s)'
      <3> SUFFICES ASSUME NEW s \in Scope, CallOf(app, h, s) PROVE Live(s)'
        OBVIOUS
      <3>1. s = Arg
        BY <2>2
      <3>2. s = Arg => Live(s)'
        BY <1>7, ScopesBuild
      <3> QED
        BY <3>1, <3>2
    <2> QED
      BY <1>0, <1>7, <2>3 DEF InLife, Working
  <1>8. CASE (Dispose \/ DisposeChild) /\ h.op = "dispose"
    <2>1. h.of \in Scope /\ Live(h.of)
      BY <1>8 DEF Entered, Live
    <2>2. ASSUME NEW s \in Scope, CallOf(app, h, s) PROVE Live(s)'
      <3>1. s = h.of
        BY <1>8, <2>2 DEF CallOf, EffectCall, Working
      <3> QED
        BY <1>1, <2>1, <2>2, <3>1
    <2> QED
      BY <1>0, <1>8, <2>2 DEF InLife, Working
  <1>9. CASE RunCleanup /\ h.op = "handler" /\ h.of = Head(Top.todo)
    <2>1. Top.op = "dispose" /\ Top.pc = 2 /\ Top.todo # <<>>
      BY <1>9 DEF RunCleanup, At
    <2>2. PlaceOK(app, Top) /\ Top.todo \in Seq(Handler) /\ Top.of \in Scope
      BY <1>0, <2>1, DisposeTop DEF NestInv
    <2>3. h.of \in Handler /\ Contains(Top.todo, h.of)
      BY <1>9, <2>1, <2>2, TailItems
    <2>4. CleansUp(app, h.of, Top.of)
      BY <2>1, <2>2, <2>3 DEF PlaceOK
    <2>5. Live(Top.of)
      BY <1>0, <2>1, <2>2 DEF InLife, CallOf
    <2>6. ASSUME NEW s \in Scope, CallOf(app, h, s) PROVE Live(s)'
      <3>1. Belongs(app, h.of, s) /\ Belongs(app, h.of, Top.of)
        BY <1>9, <2>3, <2>4, <2>6 DEF CallOf, EffectCall, Working, Belongs
      <3>2. s = Top.of
        BY <2>2, <2>3, <2>6, <3>1 DEF Scoped, InScope
      <3> QED
        BY <1>1, <2>2, <2>5, <2>6, <3>2
    <2> QED
      BY <1>0, <1>9, <2>6 DEF InLife, Working
  <1> QED
    BY <1>3, <1>4, <1>5, <1>6, <1>7, <1>8, <1>9 DEF Entered

LEMMA LivingCallsStep ==
  ASSUME TypeInv, CallsInv, Scoped, NestInv, TurnsInv, ScopeTree, NodesOfScopes, LivingCalls,
         LivingLinks, [Next]_vars
  PROVE  LivingCalls'
  <1>0. /\ StoreType /\ StackType(stack, depth) /\ app \in App /\ app' = app
    BY TypeInvParts, LinksOKStep DEF StoreType
  <1>1. SUFFICES ASSUME NEW g \in TypedFrame, Contains(stack', g) PROVE InLife(g)'
    BY DEF LivingCalls
  <1>2. stack # <<>> => Top \in TypedFrame /\ Contains(stack, Top) /\ InLife(Top)
    BY <1>0, HeldFrames DEF LivingCalls
  <1>3. CASE DisposeNodes
    <2>1. Contains(Below, g)
      BY <1>1, <1>3 DEF DisposeNodes
    <2> QED
      BY <1>3, <2>1, LifeBelow
  <1>4. CASE ~DisposeNodes
    <2>1. CASE Contains(stack, g)
      BY <1>4, <2>1, LifeKept DEF LivingCalls
    <2>2. CASE stack # <<>> /\ OnAs(g)
      <3>1. g.op = Top.op /\ g.of = Top.of
        BY <2>2 DEF OnAs
      <3>2. \A s \in Scope : CallOf(app, g, s) <=> CallOf(app, Top, s)
        BY <3>1 DEF CallOf, EffectCall
      <3>3. g.op = "visit" => \A m : Contains(g.todo, m) => Contains(Top.todo, m)
        <4> SUFFICES ASSUME g.op = "visit" PROVE \A m : Contains(g.todo, m) => Contains(Top.todo, m)
          OBVIOUS
        <4>1. Top.todo # <<>> /\ g.todo = Tail(Top.todo)
          BY <2>2 DEF OnAs
        <4>2. Top.todo \in Seq(Node)
          BY <1>2, <2>2, <3>1, FrameFields
        <4> QED
          BY <4>1, <4>2, TailItems
      <3>4. InLife(g)
        BY <1>2, <2>2, <3>1, <3>2, <3>3 DEF InLife
      <3> QED
        BY <1>4, <3>4, LifeKept
    <2>3. CASE stack # <<>> /\ Entered(g)
      BY <2>3, EnteredLives
    <2>4. CASE Update /\ g.op \in {"settle", "run"} /\ g.of = Top.of
      <3>1. stack # <<>> /\ Top.op = "visit"
        BY <2>4 DEF Update, At
      <3>2. Top.of \in alive
        BY <1>2, <3>1 DEF InLife, Working
      <3>3. \A s \in Scope : CallOf(app, g, s) => CallOf(app, Top, s)
        BY <2>4, <3>1 DEF CallOf, EffectCall, Working
      <3>4. InLife(g)
        BY <1>2, <2>4, <3>1, <3>2, <3>3 DEF InLife
      <3> QED
        BY <1>4, <3>4, LifeKept
    <2>5. CASE g.op = "flush" \/ (g.op \in {"handler", "batch"} /\ g.of \in app.onEvent)
      <3>1. InLife(g)
        BY <2>5 DEF InLife, CallOf, EffectCall, Working
      <3> QED
        BY <1>4, <3>1, LifeKept
    <2> QED
      BY <1>1, <2>1, <2>2, <2>3, <2>4, <2>5, NextFrames
  <1> QED
    BY <1>3, <1>4

\* Who notify() may be called for: those who depend on something.
LEMMA AsksObservers ==
  ASSUME TypeInv, CallsInv, LivingLinks, [Next]_vars, NEW n \in Node, Marked(agenda', n)
  PROVE  n \in alive
  <1>0. StoreType /\ StackType(stack, depth) /\ LinksAgree
    BY TypeInvParts DEF CallsInv
  <1>1. \A m \in Node : Contains(observers[m], n) => n \in alive
    <2> SUFFICES ASSUME NEW m \in Node, Contains(observers[m], n) PROVE n \in alive
      OBVIOUS
    <2>1. Contains(sources[n], m)
      BY <1>0 DEF LinksAgree
    <2> QED
      BY <2>1 DEF LivingLinks, DependsOn
  <1>2. PICK mk : Asked(agenda', n, mk)
    BY DEF Marked
  <1>3. Asked(agenda, n, mk) => n \in alive
    BY DEF LivingLinks, Marked
  <1>4. CASE Notify
    <2> DEFINE k == Head(agenda).node
               m == Head(agenda).mark
    <2>1. /\ k \in Node
          /\ \A j, q : Asked(agenda, j, q) <=> (j = k /\ q = m) \/ Asked(Tail(agenda), j, q)
          /\ Rank[state[k]] >= Rank[m] => \A j, q : Asked(agenda', j, q) <=> Asked(Tail(agenda), j, q)
          /\ ~(Rank[state[k]] >= Rank[m]) =>
               \A j, q : Asked(agenda', j, q) <=>
                 (Contains(observers[k], j) /\ q = "Check") \/ Asked(Tail(agenda), j, q)
      BY <1>0, <1>4, NotifyAsks
    <2> HIDE DEF k, m
    <2> QED
      BY <1>1, <1>2, <1>3, <2>1
  <1>5. CASE Step /\ ~Notify
    <2>1. \/ agenda' = <<>>
          \/ \E m \in Node : \A j, q : Asked(agenda', j, q) <=> Contains(observers[m], j) /\ q = "Dirty"
      BY <1>0, <1>5, OthersAsk
    <2> QED
      BY <1>1, <1>2, <2>1, EmptyAgenda
  <1>6. CASE Event \/ Rest \/ UNCHANGED vars
    <2>1. agenda' = agenda
      BY <1>6 DEF Event, Dispatch, Rest, vars
    <2> QED
      BY <1>2, <1>3, <2>1
  <1> QED
    BY <1>4, <1>5, <1>6 DEF Next

LEMMA LivingLinksStep ==
  ASSUME TypeInv, CallsInv, Scoped, NestInv, TurnsInv, ScopeTree, NodesOfScopes, LivingCalls,
         LivingLinks, [Next]_vars
  PROVE  LivingLinks'
  <1>0. /\ StoreType /\ StackType(stack, depth) /\ Shape(app, stack, observer) /\ LinksAgree
        /\ stack \in Seq(TypedFrame)
    BY TypeInvParts DEF CallsInv, StackType
  <1>1. ASSUME NEW n \in Node, Marked(agenda', n) PROVE n \in alive'
    <2>1. n \in alive
      BY <1>1, AsksObservers
    <2>2. ~DisposeNodes
      <3>1. DisposeNodes => agenda' = <<>>
        BY DEF DisposeNodes, At
      <3> QED
        BY <1>1, <3>1, EmptyAgenda DEF Marked
    <2> QED
      BY <2>1, <2>2, AliveStep
  <1>2. ASSUME NEW m \in Node, NEW n \in Node, DependsOn(m, n)' PROVE m \in alive' /\ n \in alive'
    <2>1. CASE DependsOn(m, n) /\ ~DisposeNodes
      <3>1. m \in alive /\ n \in alive
        BY <2>1 DEF LivingLinks
      <3> QED
        BY <2>1, <3>1, AliveStep
    <2>2. CASE DisposeNodes
      <3>1. m \notin Dying(Top.of) /\ n \notin Dying(Top.of) /\ DependsOn(m, n)
        BY <1>0, <1>2, <2>2, DisposedLinks
      <3>2. m \in alive /\ n \in alive
        BY <3>1 DEF LivingLinks
      <3>3. alive' = alive \ Dying(Top.of)
        BY <2>2, DisposeNodesParts
      <3> QED
        BY <3>1, <3>2, <3>3
    <2>3. CASE (GetStale \/ Get) /\ m = observer /\ n = Arg
      <3>1. n \in alive
        BY <2>3, ArgLives DEF GetStale, Get
      <3>2. Called(stack, "run", m)
        BY <1>0, <2>3, ObserverRuns
      <3>3. PICK g \in TypedFrame : Contains(stack, g) /\ g.op = "run" /\ g.of = m
        BY <1>0, <3>2, CalledHolds
      <3>4. m \in alive
        BY <3>3 DEF LivingCalls, InLife, Working
      <3>5. ~DisposeNodes
        BY <2>3 DEF GetStale, Get, DisposeNodes, Doing, InCode, At
      <3> QED
        BY <3>1, <3>4, <3>5, AliveStep
    <2> QED
      BY <1>2, <2>1, <2>2, <2>3, DependsStep
  <1> QED
    BY <1>1, <1>2 DEF LivingLinks

LEMMA ScopesInit ==
  ASSUME Init, Scoped PROVE ScopesInv
  <1> DEFINE f == NewFrame("handler", app.build[Root], <<>>)
  <1>1. /\ stack = <<f>> /\ app \in App /\ Root \in Scope /\ TypeInv
        /\ scopes = [s \in Scope |-> [alive |-> s = Root, children |-> <<>>, cleanups |-> <<>>]]
        /\ agenda = <<>> /\ sources = [n \in Node |-> <<>>]
        /\ alive = {n \in Owned(Root) : ~IsEffect(n)}
    BY TypeInit, NamesAssumption DEF Init
  <1>2. app.build[Root] \in Handler
    BY <1>1, AppAssumption
  <1>3. f \in TypedFrame /\ f.op = "handler" /\ f.of = app.build[Root] /\ f.todo = <<>>
    BY <1>2, OtherFrames DEF NewFrame
  <1> HIDE DEF f
  <1>4. \A g : Contains(stack, g) <=> g = f
    BY <1>1 DEF Contains
  <1>5. /\ \A s \in Scope : scopes[s].children = <<>> /\ scopes[s].cleanups = <<>>
        /\ \A s \in Scope : Live(s) <=> s = Root
    BY <1>1 DEF Live
  <1>6. \A op, n : Called(stack, op, n) => op = "handler"
    BY <1>1, <1>3 DEF Called
  <1>7. Nests(app, stack)
    BY <1>1 DEF Nests
  <1>8. Belongs(app, f.of, Root)
    BY <1>2, <1>3 DEF Belongs
  <1>9. NestInv
    BY <1>1, <1>3, <1>4, <1>5, <1>7, <1>8, NothingListed DEF NestInv, PlaceOK
  <1>10. ScopeTree
    BY <1>1, <1>5, <1>6 DEF ScopeTree
  <1>11. NodesOfScopes
    <2>1. \A n \in Node : app.owner[n] \in Scope
      BY <1>1, AppAssumption
    <2> QED
      BY <1>1, <1>5, <2>1 DEF NodesOfScopes, Owned
  <1>12. LivingCalls
    <2>1. ASSUME NEW s \in Scope, CallOf(app, f, s) PROVE s = Root
      <3>1. Belongs(app, f.of, s)
        BY <1>3, <2>1 DEF CallOf, EffectCall, Working
      <3> QED
        BY <1>1, <1>2, <1>3, <1>8, <2>1, <3>1 DEF Scoped, InScope
    <2> QED
      BY <1>3, <1>4, <1>5, <2>1 DEF LivingCalls, InLife, Working
  <1>13. LivingLinks
    BY <1>1, NothingListed, EmptyAgenda DEF LivingLinks, DependsOn, Marked
  <1> QED
    BY <1>9, <1>10, <1>11, <1>12, <1>13 DEF ScopesInv

LEMMA ScopesStep ==
  ASSUME TypeInv, CallsInv, Scoped, TurnsInv, ScopesInv, [Next]_vars PROVE ScopesInv'
  <1>1. NestInv /\ ScopeTree /\ NodesOfScopes /\ LivingCalls /\ LivingLinks
    BY DEF ScopesInv
  <1>2. NestInv' /\ ScopeTree' /\ NodesOfScopes'
    BY <1>1, NestStep, ScopeTreeStep, NodesStep
  <1>3. LivingCalls' /\ LivingLinks'
    BY <1>1, LivingCallsStep, LivingLinksStep
  <1> QED
    BY <1>2, <1>3 DEF ScopesInv

LEMMA ScopedStays ==
  ASSUME app' = app PROVE Scoped' <=> Scoped
  <1>1. InScope(app)' <=> InScope(app)
    BY DEF InScope, Tree, Belongs, CleansUp, InReach, Within
  <1>2. Disciplined' <=> Disciplined
    BY DEF Disciplined, OnlyHandlersWrite, HandlersOnlyWrite
  <1> QED
    BY <1>1, <1>2 DEF Scoped

\* Where closures reach only what their own scope or one above it owns, and
\* effects build and dispose only scopes below their own: nothing that is dead is
\* called, linked, marked or under way in a call, and the parent of a living
\* scope lives and knows it or is disposing it.
THEOREM ReactiveScopes == Spec => [](Scoped => ScopesInv)
  <1> DEFINE Inv == Scoped => ScopesInv
  <1>1. Init => Inv
    BY ScopesInit
  <1>2. TypeInv /\ CallsInv /\ (Disciplined => EffectsInv) /\ Inv /\ [Next]_vars => Inv'
    <2> SUFFICES ASSUME TypeInv, CallsInv, Disciplined => EffectsInv, Inv, [Next]_vars, Scoped'
                 PROVE  ScopesInv'
      OBVIOUS
    <2>1. Scoped
      BY LinksOKStep, ScopedStays
    <2>2. TurnsInv
      BY <2>1 DEF Scoped, EffectsInv
    <2> QED
      BY <2>1, <2>2, ScopesStep
  <1> QED
    BY <1>1, <1>2, TypeInvHolds, ReactiveCalls, ReactiveEffects, PTL DEF Spec

LEMMA ScopesConsistent ==
  ASSUME TypeInv, CallsInv, ScopesInv PROVE GraphIsConsistent
  <1>0. /\ LinksAgree /\ LivingLinks /\ NodesOfScopes /\ ScopeTree
        /\ sources \in [Node -> Seq(Node)] /\ observers \in [Node -> Seq(Node)]
    BY TypeInvParts DEF CallsInv, ScopesInv, StoreType
  <1>1. ASSUME NEW n \in Node \ alive PROVE sources[n] = <<>> /\ observers[n] = <<>>
    <2>1. \A m \in Node : ~Contains(sources[n], m) /\ ~Contains(observers[n], m)
      BY <1>0, <1>1 DEF LinksAgree, LivingLinks, DependsOn
    <2>2. ASSUME NEW q \in Seq(Node), q # <<>> PROVE \E m \in Node : Contains(q, m)
      <3>1. 1 \in 1..Len(q) /\ q[1] \in Node
        BY <2>2
      <3> QED
        BY <3>1 DEF Contains
    <2> QED
      BY <1>0, <2>1, <2>2
  <1>2. ASSUME NEW s \in Scope, ~scopes[s].alive PROVE Owned(s) \cap alive = {}
    BY <1>0, <1>2 DEF Owned, NodesOfScopes, Live
  <1>3. ASSUME NEW s \in Scope \ {Root}, scopes[s].alive PROVE scopes[app.parent[s]].alive
    BY <1>0, <1>3 DEF ScopeTree, Live
  <1> QED
    BY <1>0, <1>1, <1>2, <1>3 DEF GraphIsConsistent

\* The dependency graph stays consistent while effects create and dispose scopes
\* in the middle of a flush: both directions of every link agree, no dead node is
\* linked, a disposed scope leaves nothing of its own behind, and a scope
\* outlives its parent at most while a dispose is in progress.
THEOREM ReactiveGraph == Spec => [](Scoped => GraphIsConsistent)
  <1>1. TypeInv /\ CallsInv /\ (Scoped => ScopesInv) => (Scoped => GraphIsConsistent)
    BY ScopesConsistent
  <1> QED
    BY <1>1, TypeInvHolds, ReactiveCalls, ReactiveScopes, PTL

\* The nodes that the code of n reads.
ReadBy(n) ==
  {m \in Node : \E k \in DOMAIN app.code[n] : app.code[n][k].do = "get" /\ app.code[n][k].of = m}

\* What the code of a living node reads exists.
ReadsExist == \A n \in alive : ReadBy(n) \subseteq alive

LEMMA ScopesReadsExist ==
  ASSUME TypeInv, Scoped, ScopesInv PROVE ReadsExist
  <1> SUFFICES ASSUME NEW n \in alive, NEW m \in ReadBy(n) PROVE m \in alive
    BY DEF ReadsExist
  <1>0. /\ StoreType /\ app \in App /\ ScopeTree /\ NodesOfScopes /\ InScope(app)
        /\ alive \subseteq Node
    BY TypeInvParts DEF ScopesInv, Scoped, StoreType
  <1>1. PICK k \in DOMAIN app.code[n] : app.code[n][k].do = "get" /\ app.code[n][k].of = m
    BY DEF ReadBy
  <1>2. n \in Node /\ app.owner[n] \in Scope /\ m \in Node /\ ~IsEffect(m) /\ app.owner[m] \in Scope
    BY <1>0, <1>1, AppAssumption DEF WellTyped, IsEffect, ReadBy
  <1>3. Within(app, app.owner[n], app.owner[m])
    <2>1. Belongs(app, n, app.owner[n])
      BY <1>2 DEF Belongs
    <2>2. InReach(app, app.owner[n], app.code[n][k])
      BY <1>0, <1>2, <2>1 DEF InScope
    <2> QED
      BY <1>1, <2>2 DEF InReach
  <1>4. Live(app.owner[n])
    BY <1>0, <1>2 DEF NodesOfScopes
  <1>5. Live(app.owner[m])
    BY <1>0, <1>2, <1>3, <1>4, LiveAbove
  <1> QED
    BY <1>0, <1>2, <1>5 DEF NodesOfScopes

LEMMA ReadsLive ==
  ASSUME TypeInv, Scoped, ScopesInv PROVE ReadsAlive
  <1>1. app \in App /\ alive \subseteq Node
    BY TypeInvParts DEF StoreType
  <1> SUFFICES ASSUME NEW n \in alive, IsMemo(n), NEW k \in DOMAIN app.code[n],
                      app.code[n][k].do = "get"
               PROVE  app.code[n][k].of \in alive
    BY DEF ReadsAlive
  <1>2. app.code[n][k].of \in Node
    BY <1>1, AppAssumption DEF WellTyped
  <1>3. app.code[n][k].of \in ReadBy(n)
    BY <1>2 DEF ReadBy
  <1> QED
    BY <1>3, ScopesReadsExist DEF ReadsExist

\* In an application whose scopes hold together, a memo marked Clean holds what
\* its code would return from the current signals, whenever no mark is in flight:
\* that its sources exist need not be assumed.
THEOREM ReactiveScopedMemos == Spec => [](Scoped => CleanMemoIsCorrect)
  <1> DEFINE Memos == SourcesAreRead /\ RunsFromSources /\ MemosYield
             Inv == Scoped => Memos
             Alive == Scoped => ReadsAlive
  <1>1. Init => Inv
    BY ValuesInit
  <1>2. TypeInv /\ CallsInv /\ MarksInv /\ Alive' /\ Inv /\ [Next]_vars => Inv'
    <2> SUFFICES ASSUME TypeInv, CallsInv, MarksInv, Alive', Inv, [Next]_vars, Scoped'
                 PROVE  Memos'
      OBVIOUS
    <2>1. Scoped
      BY LinksOKStep, ScopedStays
    <2> QED
      BY <2>1, SourcesAreReadStep, RunsFromSourcesStep, MemosYieldStep
  <1>3. TypeInv /\ CallsInv /\ MarksInv /\ Alive /\ Inv => (Scoped => CleanMemoIsCorrect)
    BY CleanMemos
  <1>4. TypeInv /\ (Scoped => ScopesInv) => Alive
    BY ReadsLive
  <1> QED
    BY <1>1, <1>2, <1>3, <1>4, TypeInvHolds, ReactiveCalls, ReactiveMarks, ReactiveScopes, PTL DEF Spec

\* What the actions do to the values.
LEMMA ValueStep ==
  ASSUME TypeInv, [Next]_vars, NEW n \in Node
  PROVE  \/ value'[n] = value[n]
         \/ (Return \/ Set) /\ value'[n] \in Value
         \/ BuildBranch /\ Fresh(n) /\ ~IsEffect(n) /\ (IsSignal(n) => value'[n] \in Value)
         \/ DisposeNodes /\ n \notin alive'
  <1>0. /\ StoreType /\ StackType(stack, depth) /\ value \in [Node -> Value \cup {NoValue}]
        /\ app \in App
    BY TypeInvParts DEF StoreType
  <1>1. CASE Return
    <2>1. Top.acc \in Value
      BY <1>0, <1>1, TopFacts, FrameFields DEF Return, At
    <2>2. UNCHANGED value \/ value' = [value EXCEPT ![Top.of] = Top.acc]
      BY <1>1 DEF Return
    <2> QED
      BY <1>0, <1>1, <2>1, <2>2
  <1>2. CASE Set
    <2>1. Top.acc \in Value
      BY <1>0, <1>2, CodeFacts DEF Set, Doing
    <2>2. UNCHANGED value \/ value' = [value EXCEPT ![Arg] = Top.acc]
      BY <1>2 DEF Set
    <2> QED
      BY <1>0, <1>2, <2>1, <2>2
  <1>3. CASE BuildBranch
    <2> DEFINE new == {m \in Owned(Arg) : ~IsEffect(m)}
    <2>1. Top.acc \in Value
      BY <1>0, <1>3, CodeFacts DEF BuildBranch, Doing
    <2>2. /\ \A m \in new : Fresh(m)
          /\ value' = [m \in Node |-> IF m \notin new THEN value[m]
                                      ELSE IF IsSignal(m) THEN Top.acc ELSE NoValue]
      BY <1>3 DEF BuildBranch
    <2>3. n \in new => ~IsEffect(n)
      OBVIOUS
    <2> HIDE DEF new
    <2> QED
      BY <1>0, <1>3, <2>1, <2>2, <2>3
  <1>4. CASE DisposeNodes
    <2>1. /\ alive' = alive \ Dying(Top.of)
          /\ value' = [m \in Node |-> IF m \in Dying(Top.of) THEN NoValue ELSE value[m]]
      BY <1>4, DisposeNodesParts
    <2> QED
      BY <1>4, <2>1
  <1>5. CASE ~Return /\ ~Set /\ ~BuildBranch /\ ~DisposeNodes
    BY <1>5 DEF Next, Step, Notify, CheckSource, CheckPassed, Update, Settle, FlushTake, FlushRun,
           FlushDone, GetStale, Get, Peek, Mount, BuildMounted, Jump, HandlerReturns, Dispose,
           DisposeChild, CallDispose, TakeCleanups, RunCleanup, Event, Dispatch, Rest,
           OnlyTheStack, graph, vars
  <1> QED
    BY <1>1, <1>2, <1>3, <1>4, <1>5

\* A memo that was computed.
Computed(n) == state[n] # "Dirty" \/ (Called(stack, "settle", n) /\ n \in ready)

LEMMA SettleCalled ==
  ASSUME TypeInv, CallsInv, [Next]_vars, NEW n, Called(stack', "settle", n)
  PROVE  Called(stack, "settle", n) \/ (Update /\ n = Top.of)
  <1>0. /\ StackType(stack, depth) /\ stack \in Seq(TypedFrame) /\ stack' \in Seq(TypedFrame)
    BY TypeInvParts, NextStack DEF StackType
  <1>1. PICK g \in TypedFrame : Contains(stack', g) /\ g.op = "settle" /\ g.of = n
    BY <1>0, CalledHolds
  <1>2. Contains(stack, g) => Called(stack, "settle", n)
    BY <1>0, <1>1, HoldsCalled
  <1>3. stack # <<>> /\ OnAs(g) => Called(stack, "settle", n)
    <2>1. stack # <<>> => Contains(stack, Top) /\ Top \in TypedFrame
      BY <1>0, HeldFrames
    <2> QED
      BY <1>0, <1>1, <2>1, HoldsCalled DEF OnAs
  <1>4. ~Entered(g)
    BY <1>1 DEF Entered
  <1> QED
    BY <1>1, <1>2, <1>3, <1>4, NextFrames

\* The computation of a memo is not taken out twice.
LEMMA MemoReady ==
  ASSUME TypeInv, CallsInv, Settle \/ CheckPassed, Top.of \in alive, IsMemo(Top.of)
  PROVE  Top.of \in ready
  <1>0. /\ StoreType /\ StackType(stack, depth) /\ Shape(app, stack, observer) /\ MemosReady
        /\ stack \in Seq(TypedFrame) /\ app \in App /\ alive \subseteq Node
        /\ Top = Head(stack) /\ Below = Tail(stack)
    BY TypeInvParts DEF CallsInv, StackType, StoreType, Top, Below
  <1>1. stack # <<>> /\ Top.op \in {"settle", "visit"}
    BY DEF Settle, CheckPassed, At
  <1>2. SUFFICES ASSUME Called(stack, "run", Top.of) PROVE FALSE
    BY <1>0 DEF MemosReady
  <1>3. Called(Below, "run", Top.of)
    BY <1>0, <1>1, <1>2, CalledPop
  <1>4. MemoCall(app, Head(stack))
    BY <1>0, <1>1 DEF MemoCall, IsMemo, Working
  <1> QED
    BY <1>0, <1>1, <1>3, <1>4, CalledOnce DEF Working

LEMMA MemoComputed ==
  ASSUME TypeInv, CallsInv, MarksInv, [Next]_vars, NEW n \in alive, n \in alive', IsMemo(n),
         Computed(n)'
  PROVE  Computed(n) \/ (Return /\ n = Top.of)
  <1>0. /\ StoreType /\ StackType(stack, depth) /\ alive \subseteq Node /\ CallMarks
        /\ state \in [Node -> NodeState] /\ n \in Node /\ app \in App /\ stack \in Seq(TypedFrame)
    BY TypeInvParts DEF StoreType, CallsInv, StackType
  <1>1. ASSUME state'[n] # "Dirty", state[n] = "Dirty" PROVE Computed(n)
    <2>1. ~Notify
      BY <1>0, <1>1, NotifyStates DEF MarksInv
    <2>2. Step
      BY <1>1 DEF Next, Event, Dispatch, Rest, vars, graph
    <2>3. ~BuildBranch
      <3>1. BuildBranch => \A k \in Node : state'[k] # state[k] => Fresh(k)
        BY DEF BuildBranch
      <3> QED
        BY <1>0, <1>1, <3>1 DEF Fresh
    <2>4. ~DisposeNodes
      <3>1. DisposeNodes => /\ alive' = alive \ Dying(Top.of)
                            /\ \A k \in Node : k \notin Dying(Top.of) => state'[k] = state[k]
        BY DisposeNodesParts
      <3> QED
        BY <1>0, <1>1, <3>1
    <2>5. (CheckPassed \/ Settle) /\ n = Top.of
      BY <1>0, <1>1, <2>1, <2>2, <2>3, <2>4, StatesStep
    <2>6. Settle
      BY <1>1, <2>5 DEF CheckPassed
    <2>7. Called(stack, "settle", n)
      BY <1>0, <2>5, <2>6, PopWork DEF Settle, At
    <2> QED
      BY <2>5, <2>7, MemoReady DEF Computed
  <1>2. CASE state'[n] # "Dirty"
    BY <1>1, <1>2 DEF Computed
  <1>3. CASE Called(stack', "settle", n) /\ n \in ready'
    <2>1. n \in ready \/ (Return /\ n = Top.of)
      <3>1. CASE Mount \/ BuildBranch
        <4>1. \A k \in ready' : k \in ready \/ Fresh(k)
          BY <3>1 DEF Mount, BuildBranch
        <4> QED
          BY <1>3, <4>1 DEF Fresh
      <3>2. CASE ~Mount /\ ~BuildBranch
        BY <1>3, <3>2 DEF Next, Step, Notify, CheckSource, CheckPassed, Update, Return, Settle,
           FlushTake, FlushRun, FlushDone, GetStale, Get, Peek, Set, BuildMounted, Jump,
           HandlerReturns, Dispose, DisposeChild, CallDispose, TakeCleanups, RunCleanup,
           DisposeNodes, Event, Dispatch, Rest, OnlyTheStack, graph, vars
      <3> QED
        BY <3>1, <3>2
    <2>2. ~(Update /\ n = Top.of)
      BY <1>3, <2>1 DEF Update, Return, At
    <2> QED
      BY <1>3, <2>1, <2>2, SettleCalled DEF Computed
  <1> QED
    BY <1>2, <1>3 DEF Computed

LEMMA NoPanic ==
  ASSUME TypeInv, CallsInv, Scoped, TurnsInv, ScopesInv, ValuesInv, [Next]_vars
  PROVE  ~panicked'
  <1>0. /\ NestInv /\ ScopeTree /\ NodesOfScopes /\ LivingCalls /\ ~panicked
        /\ StoreType /\ StackType(stack, depth) /\ app \in App
    BY TypeInvParts DEF ScopesInv, ValuesInv, StoreType
  <1>1. CASE Get
    <2>1. Arg \in alive /\ Arg \in Node /\ ~IsEffect(Arg) /\ state[Arg] = "Clean"
      BY <1>0, <1>1, ArgLives DEF Get
    <2>2. IsSignal(Arg) \/ IsMemo(Arg)
      BY <1>0, <2>1, AppAssumption DEF IsSignal, IsMemo, IsEffect
    <2>3. value[Arg] # NoValue
      BY <2>1, <2>2 DEF ValuesInv
    <2> QED
      BY <1>0, <1>1, <2>3 DEF Get
  <1>2. CASE Peek
    <2>1. Arg \in alive
      BY <1>0, <1>2, ArgLives DEF Peek
    <2>2. IsSignal(Arg)
      BY <1>0, <1>2, DoingFacts DEF Peek, WellTyped, IsSignal
    <2>3. value[Arg] # NoValue
      BY <2>1, <2>2 DEF ValuesInv
    <2> QED
      BY <1>0, <1>2, <2>3 DEF Peek
  <1>3. CASE ~Get /\ ~Peek
    BY <1>0, <1>3 DEF Next, Step, Notify, CheckSource, CheckPassed, Update, Return, Settle, FlushTake,
           FlushRun, FlushDone, GetStale, Set, Mount, BuildBranch, BuildMounted, Jump, HandlerReturns,
           Dispose, DisposeChild, CallDispose, TakeCleanups, RunCleanup, DisposeNodes, Event,
           Dispatch, Rest, OnlyTheStack, vars
  <1> QED
    BY <1>1, <1>2, <1>3

LEMMA ValuesStep ==
  ASSUME TypeInv, CallsInv, MarksInv, Scoped, TurnsInv, ScopesInv, ValuesInv, [Next]_vars
  PROVE  ValuesInv'
  <1>0. /\ StoreType /\ StackType(stack, depth) /\ alive \subseteq Node /\ app' = app /\ app \in App
        /\ stack \in Seq(TypedFrame)
    BY TypeInvParts, LinksOKStep DEF StoreType, StackType
  <1>1. NoValue \notin Value
    BY BoundsAssumption DEF NoValue, Value
  <1>2. ASSUME NEW n \in alive', n \notin alive, IsSignal(n) PROVE value'[n] # NoValue
    <2>1. n \in Node /\ (Mount \/ BuildBranch) /\ ~IsEffect(n)
      BY <1>2, NewNodes DEF IsSignal, IsEffect
    <2>2. BuildBranch /\ app.owner[n] = Arg
      <3>1. ~Mount
        <4>1. Mount => IsEffect(Arg)
          BY <1>0, DoingFacts DEF Mount, WellTyped, IsEffect
        <4> QED
          BY <1>2, <2>1, <4>1, AliveStep
      <3> QED
        BY <1>2, <2>1, <3>1, AliveStep
    <2>3. value'[n] = Top.acc
      BY <1>2, <2>1, <2>2 DEF BuildBranch, Owned
    <2>4. Top.acc \in Value
      BY <1>0, <2>2, CodeFacts DEF BuildBranch, Doing
    <2> QED
      BY <1>1, <2>3, <2>4
  <1>3. ASSUME NEW n \in alive', n \in alive, value[n] # NoValue PROVE value'[n] # NoValue
    BY <1>0, <1>1, <1>3, ValueStep DEF Fresh
  <1>4. ASSUME NEW n \in alive', IsSignal(n)' PROVE value'[n] # NoValue
    <2>1. IsSignal(n)
      BY <1>0, <1>4 DEF IsSignal
    <2> QED
      BY <1>2, <1>3, <2>1 DEF ValuesInv
  <1>5. ASSUME NEW n \in alive', IsMemo(n)', Computed(n)' PROVE value'[n] # NoValue
    <2>1. IsMemo(n)
      BY <1>0, <1>5 DEF IsMemo
    <2>2. CASE n \in alive
      <3>1. CASE Computed(n)
        BY <1>3, <2>1, <2>2, <3>1 DEF ValuesInv, Computed
      <3>2. CASE Return /\ n = Top.of
        <4>1. Top.acc \in Value
          BY <1>0, <3>2, TopFacts, FrameFields DEF Return, At
        <4>2. value'[n] = Top.acc
          BY <1>0, <2>1, <2>2, <3>2 DEF Return, StoreType
        <4> QED
          BY <1>1, <4>1, <4>2
      <3> QED
        BY <1>5, <2>1, <2>2, <3>1, <3>2, MemoComputed
    <2>3. CASE n \notin alive
      <3>1. /\ n \in Node /\ Fresh(n) /\ (Mount \/ BuildBranch)
            /\ \A f : Contains(stack, f) => f.of # n
        BY <1>5, <2>3, NewNodes
      <3>2. ~Called(stack', "settle", n)
        <4>1. ~Called(stack, "settle", n)
          BY <1>0, <3>1, CalledHolds
        <4>2. ~Update
          BY <3>1 DEF Mount, BuildBranch, Update, Doing, InCode, At
        <4> QED
          BY <4>1, <4>2, SettleCalled
      <3>3. BuildBranch /\ app.owner[n] = Arg
        <4>1. ~Mount
          <5>1. Mount => IsEffect(Arg)
            BY <1>0, DoingFacts DEF Mount, WellTyped, IsEffect
          <5>2. ~IsEffect(n)
            BY <2>1 DEF IsMemo, IsEffect
          <5> QED
            BY <1>5, <2>3, <3>1, <5>1, <5>2, AliveStep
        <4> QED
          BY <1>5, <2>3, <3>1, <4>1, AliveStep
      <3>4. state'[n] = "Dirty"
        <4>1. ~IsEffect(n) /\ ~IsSignal(n)
          BY <2>1 DEF IsMemo, IsEffect, IsSignal
        <4> QED
          BY <3>1, <3>3, <4>1 DEF BuildBranch, Owned
      <3> QED
        BY <1>5, <3>2, <3>4 DEF Computed
    <2> QED
      BY <2>2, <2>3
  <1>6. ~panicked'
    BY NoPanic
  <1> QED
    BY <1>4, <1>5, <1>6 DEF ValuesInv, Computed

LEMMA ValuesHeld == Init => ValuesInv
  <1> SUFFICES ASSUME Init PROVE ValuesInv
    OBVIOUS
  <1>1. /\ ~panicked /\ Len(stack) = 1 /\ stack[1].op = "handler" /\ NoValue # 0
        /\ alive \subseteq Node
    BY DEF Init, NewFrame, NoValue, Owned
  <1>2. \A n : ~Called(stack, "settle", n)
    BY <1>1 DEF Called
  <1>3. \A n \in Node : (IsSignal(n) => value[n] = 0) /\ (IsMemo(n) => state[n] = "Dirty")
    BY DEF Init, IsSignal, IsMemo
  <1> QED
    BY <1>1, <1>2, <1>3 DEF ValuesInv

\* No closure reads a disposed node, whatever is torn down while it waits: where
\* closures reach only what their own scope or one above it owns, the runtime
\* never panics.
THEOREM ReactiveNoDisposedRead == Spec => [](Scoped => NoDisposedRead)
  <1> DEFINE Inv == Scoped => ValuesInv
  <1>1. Init => Inv
    BY ValuesHeld
  <1>2. /\ TypeInv /\ CallsInv /\ MarksInv /\ (Disciplined => EffectsInv) /\ (Scoped => ScopesInv)
        /\ Inv /\ [Next]_vars
        => Inv'
    <2> SUFFICES ASSUME TypeInv, CallsInv, MarksInv, Disciplined => EffectsInv, Scoped => ScopesInv,
                        Inv, [Next]_vars, Scoped'
                 PROVE  ValuesInv'
      OBVIOUS
    <2>1. Scoped
      BY LinksOKStep, ScopedStays
    <2>2. TurnsInv
      BY <2>1 DEF Scoped, EffectsInv
    <2> QED
      BY <2>1, <2>2, ValuesStep
  <1>3. Inv => (Scoped => NoDisposedRead)
    BY DEF ValuesInv, NoDisposedRead
  <1> QED
    BY <1>1, <1>2, <1>3, TypeInvHolds, ReactiveCalls, ReactiveMarks, ReactiveEffects, ReactiveScopes,
       PTL DEF Spec

-----------------------------------------------------------------------------
(* What the screen shows.  A marked effect is queued, awaited by a round or *)
(* in progress, and what it showed last is what its code yields from the    *)
(* sources it is linked to: at rest nothing waits, so every effect shows    *)
(* what its code would return now.                                          *)

EffectsReady ==
  \A n \in alive : IsEffect(n) => (n \notin ready <=> Called(stack, "run", n))

QueuedEffects ==
  \A n \in alive : IsEffect(n) /\ state[n] # "Clean" =>
    Contains(pending, n) \/ ToRun(stack, n) \/ \E op \in Working : Called(stack, op, n)

PendingWaits == pending # <<>> => Batching \/ AwaitsRound

\* A call that brings a node up to date stays in progress until it returns.
LEMMA CallStays ==
  ASSUME TypeInv, CallsInv, [Next]_vars, NEW op \in Working, NEW n, Called(stack, op, n)
  PROVE  \/ Called(stack', op, n)
         \/ /\ stack # <<>> /\ Top.op = op /\ Top.of = n
            /\ CheckPassed \/ Settle \/ Return \/ (Update /\ Called(stack', "settle", n))
  <1>0. /\ StoreType /\ StackType(stack, depth) /\ stack \in Seq(TypedFrame)
        /\ stack' \in Seq(TypedFrame) /\ SignalsClean /\ Shape(app, stack, observer)
    BY TypeInvParts, NextStack DEF StackType, CallsInv
  <1>1. PICK g \in TypedFrame : Contains(stack, g) /\ g.op = op /\ g.of = n
    BY <1>0, CalledHolds
  <1>2. stack # <<>>
    BY <1>1, NothingListed
  <1>3. CASE g # Top
    BY <1>0, <1>1, <1>3, BelowStays, HoldsCalled
  <1>4. CASE g = Top
    <2>1. CASE stack' = stack
      BY <2>1
    <2>2. ASSUME NEW f, OnAs(f), Contains(stack', f) PROVE Called(stack', op, n)
      BY <1>0, <1>1, <1>4, <2>2, HoldsCalled DEF OnAs
    <2>3. CASE \E f : OnAs(f) /\ Continues(f)
      <3>1. PICK f : OnAs(f) /\ Continues(f)
        BY <2>3
      <3>2. f \in TypedFrame
        BY <3>1 DEF OnAs
      <3> QED
        BY <1>0, <1>2, <2>2, <3>1, <3>2, ContinuesHolds
    <2>4. CASE \E f, h : OnAs(f) /\ Entered(h) /\ Enters(h, f)
      <3>1. PICK f, h : OnAs(f) /\ Entered(h) /\ Enters(h, f)
        BY <2>4
      <3>2. f \in TypedFrame /\ h \in TypedFrame
        BY <3>1 DEF OnAs, Entered
      <3> QED
        BY <1>0, <1>2, <2>2, <3>1, <3>2, EntersHolds
    <2>5. CASE Update
      BY <1>0, <1>1, <1>2, <1>4, <2>5, UpdateWork
    <2>6. CASE CheckPassed \/ Settle \/ Return
      BY <1>1, <1>2, <1>4, <2>6
    <2>7. CASE FlushTake \/ FlushRun \/ FlushDone \/ DisposeNodes \/ HandlerReturns
      BY <1>1, <1>4, <2>7 DEF FlushTake, FlushRun, FlushDone, DisposeNodes, HandlerReturns, At, Working
    <2>8. CASE Notify \/ Rest \/ UNCHANGED vars
      BY <2>1, <2>8 DEF Notify, Rest, vars
    <2>9. CASE Event
      BY <1>2, <2>9 DEF Event, Dispatch
    <2>10. CASE Get \/ Peek \/ BuildMounted \/ Jump
      BY <1>0, <2>1, <2>3, <2>10, FormReads
    <2>11. CASE Set
      BY <1>0, <2>3, <2>4, <2>11, FormSet
    <2>12. CASE GetStale \/ Mount \/ BuildBranch
      BY <1>0, <2>4, <2>12, FormCode
    <2>13. CASE Dispose \/ DisposeChild \/ TakeCleanups \/ RunCleanup
      BY <1>0, <2>3, <2>4, <2>13, FormDisposes
    <2>14. CASE CheckSource
      BY <1>0, <2>3, <2>4, <2>14, FormCheckSource
    <2> QED
      BY <2>5, <2>6, <2>7, <2>8, <2>9, <2>10, <2>11, <2>12, <2>13, <2>14 DEF Next, Step
  <1> QED
    BY <1>3, <1>4

\* What the actions do to the computations.
LEMMA ReadyStep ==
  ASSUME TypeInv, [Next]_vars, NEW n \in Node
  PROVE  \/ n \in ready' <=> n \in ready
         \/ Update /\ n = Top.of /\ n \in ready /\ n \notin ready'
         \/ Return /\ n = Top.of /\ n \in ready'
         \/ (Mount \/ BuildBranch) /\ Fresh(n) /\ n \in alive'
         \/ DisposeNodes /\ n \notin alive'
  <1>1. CASE Update \/ Return \/ Mount
    BY <1>1 DEF Update, Return, Mount
  <1>2. CASE BuildBranch
    BY <1>2 DEF BuildBranch
  <1>3. CASE DisposeNodes
    <2>1. alive' = alive \ Dying(Top.of) /\ ready' = ready \ Dying(Top.of)
      BY <1>3, DisposeNodesParts
    <2> QED
      BY <1>3, <2>1
  <1>4. CASE ~Update /\ ~Return /\ ~Mount /\ ~BuildBranch /\ ~DisposeNodes
    BY <1>4 DEF Next, Step, Notify, CheckSource, CheckPassed, Settle, FlushTake, FlushRun, FlushDone,
           GetStale, Get, Peek, Set, BuildMounted, Jump, HandlerReturns, Dispose, DisposeChild,
           CallDispose, TakeCleanups, RunCleanup, Event, Dispatch, Rest, OnlyTheStack, graph, vars
  <1> QED
    BY <1>1, <1>2, <1>3, <1>4

\* A closure that returns runs once.
LEMMA RunOnTop ==
  ASSUME StackType(stack, depth), TurnsInv, stack # <<>>, Top.op = "run", IsEffect(Top.of)
  PROVE  Called(stack, "run", Top.of) /\ ~Called(Below, "run", Top.of)
  <1>1. Called(stack, Top.op, Top.of) /\ Below \in Seq(TypedFrame)
    BY HeldFrames, HoldsCalled, TopOn DEF StackType
  <1>2. ASSUME Called(Below, "run", Top.of) PROVE FALSE
    <2>1. PICK g \in TypedFrame : Contains(Below, g) /\ g.op = "run" /\ g.of = Top.of
      BY <1>1, <1>2, CalledHolds
    <2>2. MayWait(app, Top, g)
      BY <2>1, HeldFrames DEF TurnsInv
    <2> QED
      BY <2>1, <2>2 DEF MayWait, EffectCall, Working, IsEffect
  <1> QED
    BY <1>1, <1>2

LEMMA EffectsReadyStep ==
  ASSUME TypeInv, CallsInv, TurnsInv, EffectsReady, [Next]_vars PROVE EffectsReady'
  <1>0. /\ StoreType /\ StackType(stack, depth) /\ alive \subseteq Node /\ app' = app
        /\ stack \in Seq(TypedFrame) /\ stack' \in Seq(TypedFrame)
    BY TypeInvParts, LinksOKStep, NextStack DEF StoreType, StackType
  <1>1. SUFFICES ASSUME NEW n \in alive', IsEffect(n)
                 PROVE  n \notin ready' <=> Called(stack', "run", n)
    BY <1>0 DEF EffectsReady, IsEffect
  <1>2. CASE n \notin alive
    <2>1. n \in Node /\ Mount /\ n = Arg /\ \A op : ~Called(stack, op, n)
      BY <1>1, <1>2, EffectMounted
    <2>2. n \in ready'
      BY <2>1 DEF Mount
    <2>3. ~Called(stack', "run", n)
      <3>1. ~Update
        BY <2>1 DEF Mount, Update, Doing, InCode, At
      <3> QED
        BY <1>1, <2>1, <3>1, EffectCalls DEF Working
    <2> QED
      BY <2>2, <2>3
  <1>3. CASE n \in alive
    <2>0. n \in Node /\ (n \notin ready <=> Called(stack, "run", n))
      BY <1>0, <1>1, <1>3 DEF EffectsReady
    <2>1. CASE Update /\ n = Top.of
      <3>1. /\ \A o, j : Called(stack, o, j) <=> Called(Below, o, j) \/ (o = "visit" /\ Top.of = j)
            /\ \A o, j : Called(stack', o, j) <=>
                 \/ Called(Below, o, j)
                 \/ o = "settle" /\ j = Top.of
                 \/ o = "run" /\ j = Top.of /\ Top.of \in ready
        BY <1>0, <2>1, UpdateWork
      <3>2. n \notin ready'
        BY <2>1 DEF Update
      <3> QED
        BY <2>0, <2>1, <3>1, <3>2
    <2>2. CASE Return /\ n = Top.of
      <3>1. stack # <<>> /\ Top.op = "run" /\ stack' = Below /\ n \in ready'
        BY <2>2 DEF Return, At
      <3> QED
        BY <1>0, <1>1, <2>2, <3>1, RunOnTop
    <2>3. CASE ~(Update /\ n = Top.of) /\ ~(Return /\ n = Top.of)
      <3>1. n \in ready' <=> n \in ready
        BY <1>1, <1>3, <2>0, <2>3, ReadyStep DEF Fresh
      <3>2. Called(stack, "run", n) => Called(stack', "run", n)
        <4>1. Called(stack, "run", n) /\ Top.op = "run" => ~CheckPassed /\ ~Settle /\ ~Update
          BY DEF CheckPassed, Settle, Update, At
        <4> QED
          BY <2>3, <4>1, CallStays DEF Working
      <3>3. Called(stack', "run", n) => Called(stack, "run", n)
        BY <1>1, <2>0, <2>3, EffectCalls DEF Working
      <3> QED
        BY <2>0, <3>1, <3>2, <3>3
    <2> QED
      BY <2>1, <2>2, <2>3
  <1> QED
    BY <1>2, <1>3

LEMMA PendingWaitsStep ==
  ASSUME TypeInv, CallsInv, NoNewEffects, LivingLinks, PendingWaits, [Next]_vars
  PROVE  PendingWaits'
  <1>0. StoreType /\ StackType(stack, depth) /\ pending \in Seq(Node)
    BY TypeInvParts DEF StoreType
  <1>1. CASE Notify
    <2>1. stack' = stack /\ Top' = Top
      BY <1>1 DEF Notify, Top
    <2>2. CASE pending' = pending
      BY <2>1, <2>2 DEF PendingWaits, Batching, AwaitsRound
    <2>3. CASE pending' # pending
      <3> DEFINE n == Head(agenda).node
                 m == Head(agenda).mark
      <3>1. /\ n \in Node
            /\ \A k, mk : Asked(agenda, k, mk) <=> (k = n /\ mk = m) \/ Asked(Tail(agenda), k, mk)
        BY <1>0, <1>1, NotifyAsks
      <3>2. Queues(n, m)
        BY <1>1, <2>3 DEF Notify
      <3> HIDE DEF n, m
      <3>3. n \in alive
        BY <3>1 DEF Marked, LivingLinks
      <3>4. Writing
        BY <3>1, <3>2, <3>3 DEF NoNewEffects, Marked, Queues
      <3>5. Batching \/ AwaitsRound
        BY <1>0, <3>4, WritingBatches
      <3> QED
        BY <2>1, <3>5 DEF PendingWaits, Batching, AwaitsRound
    <2> QED
      BY <2>2, <2>3
  <1>2. CASE FlushTake
    BY <1>2 DEF FlushTake, PendingWaits
  <1>3. CASE ~Notify /\ ~FlushTake
    <2>1. pending' = pending
      BY <1>3 DEF Next, Step, CheckSource, CheckPassed, Update, Return, Settle, FlushRun, FlushDone,
           GetStale, Get, Peek, Set, Mount, BuildBranch, BuildMounted, Jump, HandlerReturns, Dispose,
           DisposeChild, CallDispose, TakeCleanups, RunCleanup, DisposeNodes, Event, Dispatch, Rest,
           OnlyTheStack, vars
    <2> QED
      BY <1>3, <2>1, BatchGoesOn DEF PendingWaits
  <1> QED
    BY <1>1, <1>2, <1>3

\* A flush keeps what it has not come to.
LEMMA ToRunStays ==
  ASSUME TypeInv, CallsInv, [Next]_vars, NEW n \in alive, state[n] # "Clean", ToRun(stack, n)
  PROVE  ToRun(stack', n) \/ Called(stack', "visit", n)
  <1>0. /\ StoreType /\ StackType(stack, depth) /\ stack \in Seq(TypedFrame)
        /\ stack' \in Seq(TypedFrame)
    BY TypeInvParts, NextStack DEF StackType
  <1>1. PICK g \in TypedFrame : Contains(stack, g) /\ g.op = "flush" /\ Contains(g.todo, n)
    BY DEF ToRun
  <1>2. stack # <<>>
    BY <1>1, NothingListed
  <1>3. CASE Contains(stack', g)
    BY <1>1, <1>3 DEF ToRun
  <1>4. CASE g = Top /\ FlushRun
    <2>1. /\ Top.todo # <<>> /\ Top.todo \in Seq(Node)
          /\ \A x : Contains(Top.todo, x) <=> x = Head(Top.todo) \/ Contains(Tail(Top.todo), x)
      <3>1. Top.todo # <<>> /\ Top.todo \in Seq(Node)
        BY <1>1, <1>4, FrameFields DEF FlushRun
      <3>2. ASSUME NEW q \in Seq(Node), q # <<>>
            PROVE  \A x : Contains(q, x) <=> x = Head(q) \/ Contains(Tail(q), x)
        <4>1. Once({}, q)
          BY DEF Once
        <4> QED
          BY <3>2, <4>1, OnceFacts
      <3> QED
        BY <3>1, <3>2
    <2>2. CASE n = Head(Top.todo)
      <3> DEFINE rest == <<[Top EXCEPT !.todo = Tail(@)]>> \o Below
      <3>1. stack' = Visit(n, rest)
        BY <1>4, <2>2 DEF FlushRun
      <3>2. state[n] \in NodeState /\ sources[n] \in Seq(Node) /\ n \in Node
        BY <1>0 DEF StoreType
      <3>3. PICK t \in Seq(Node) : Visit(n, rest) = <<NewFrame("visit", n, t)>> \o rest
        BY <3>2, VisitForm
      <3>4. NewFrame("visit", n, t) \in TypedFrame
        BY <3>2, NewFrames
      <3>5. rest \in Seq(TypedFrame)
        <4>1. [Top EXCEPT !.todo = Tail(@)] \in TypedFrame
          BY <1>1, <1>4, <2>1, Popped, TodoChanged
        <4>2. Below \in Seq(TypedFrame)
          BY <1>0, <1>2, TopOn
        <4> QED
          BY <4>1, <4>2, Pushed
      <3>6. Called(<<NewFrame("visit", n, t)>> \o rest, "visit", n)
        BY <3>4, <3>5, CalledPush DEF NewFrame
      <3> QED
        BY <3>1, <3>3, <3>6
    <2>3. CASE Contains(Tail(Top.todo), n)
      <3>1. PICK f : OnAs(f) /\ (Continues(f) \/ \E h : Entered(h) /\ Enters(h, f))
        BY <1>0, <1>4, FormFlush
      <3>2. f \in TypedFrame /\ f.op = "flush" /\ f.todo = Tail(Top.todo)
        <4>1. ~FlushTake
          BY <2>1 DEF FlushTake
        <4> QED
          BY <1>1, <1>4, <3>1, <4>1 DEF OnAs
      <3>3. Contains(stack', f)
        <4>1. CASE Continues(f)
          BY <1>0, <1>2, <3>2, <4>1, ContinuesHolds
        <4>2. CASE \E h : Entered(h) /\ Enters(h, f)
          <5>1. PICK h : Entered(h) /\ Enters(h, f)
            BY <4>2
          <5>2. h \in TypedFrame
            BY <5>1 DEF Entered
          <5> QED
            BY <1>0, <1>2, <3>2, <5>1, <5>2, EntersHolds
        <4> QED
          BY <3>1, <4>1, <4>2
      <3> QED
        BY <2>3, <3>2, <3>3 DEF ToRun
    <2> QED
      BY <1>1, <1>4, <2>1, <2>2, <2>3
  <1>5. CASE g # Top
    BY <1>1, <1>3, <1>5, BelowStays
  <1>6. CASE g = Top /\ ~FlushRun
    <2>1. Top.op = "flush" /\ Top.todo # <<>>
      BY <1>1, <1>6, NothingListed
    <2>2. stack' = stack
      BY <1>2, <1>6, <2>1 DEF Next, Step, Notify, CheckSource, CheckPassed, Update, Return, Settle,
         FlushTake, FlushDone, GetStale, Get, Peek, Set, Mount, BuildBranch, BuildMounted, Jump,
         HandlerReturns, Dispose, DisposeChild, CallDispose, TakeCleanups, RunCleanup, DisposeNodes,
         Event, Dispatch, Rest, Doing, InCode, At, vars
    <2> QED
      BY <1>1, <1>3, <2>2
  <1> QED
    BY <1>4, <1>5, <1>6

LEMMA QueuedEffectsStep ==
  ASSUME TypeInv, CallsInv, MarksInv, QueuedEffects, [Next]_vars PROVE QueuedEffects'
  <1>0. /\ StoreType /\ StackType(stack, depth) /\ alive \subseteq Node /\ app' = app
        /\ stack \in Seq(TypedFrame) /\ stack' \in Seq(TypedFrame) /\ pending \in Seq(Node)
        /\ state \in [Node -> NodeState] /\ Shape(app, stack, observer)
    BY TypeInvParts, LinksOKStep, NextStack DEF StoreType, StackType, CallsInv
  <1> DEFINE Held(n) ==
        \/ Contains(pending', n)
        \/ ToRun(stack', n)
        \/ \E op \in Working : Called(stack', op, n)
  <1>1. SUFFICES ASSUME NEW n \in alive', IsEffect(n), state'[n] # "Clean"
                 PROVE  Held(n)
    BY <1>0 DEF QueuedEffects, IsEffect
  <1>2. CASE n \notin alive
    <2>1. Mount /\ n = Arg
      BY <1>1, <1>2, EffectMounted
    <2>2. Called(stack', "visit", n)
      BY <1>0, <2>1, MountWork DEF Working
    <2> QED
      BY <2>2 DEF Working
  <1>3. CASE n \in alive /\ state[n] = "Clean"
    <2>1. Notify /\ n = Head(agenda).node
      BY <1>1, <1>3, EffectStates
    <2>2. pending' = Append(pending, n)
      BY <1>1, <1>3, <2>1 DEF Notify, Queues
    <2> QED
      BY <1>0, <1>3, <2>2, AppendedList
  <1>4. CASE n \in alive /\ state[n] # "Clean" /\ Contains(pending, n)
    <2>1. CASE Notify
      <3>1. pending' = pending \/ pending' = Append(pending, Head(agenda).node)
        BY <2>1 DEF Notify
      <3>2. Head(agenda).node \in Node
        BY <1>0, <2>1, NotifyAsks
      <3>3. Contains(pending', n)
        <4>1. \A x : Contains(Append(pending, Head(agenda).node), x)
                       <=> Contains(pending, x) \/ x = Head(agenda).node
          BY <1>0, <3>2, AppendedList
        <4> QED
          BY <1>4, <3>1, <4>1
      <3> QED
        BY <3>3
    <2>2. CASE FlushTake
      <3> DEFINE f == [Top EXCEPT !.todo = pending]
      <3>1. stack # <<>> /\ Top.op = "flush" /\ stack' = <<f>> \o Below
        BY <2>2 DEF FlushTake, At
      <3>2. Top \in TypedFrame /\ Below \in Seq(TypedFrame)
        BY <1>0, <3>1, TopOn
      <3>3. f \in TypedFrame /\ f.op = "flush" /\ f.todo = pending
        BY <1>0, <3>1, <3>2, TodoChanged
      <3> HIDE DEF f
      <3>4. Contains(stack', f)
        BY <3>1, <3>2, <3>3, HoldsPush
      <3> QED
        BY <1>4, <3>3, <3>4 DEF ToRun
    <2>3. CASE ~Notify /\ ~FlushTake
      <3>1. pending' = pending
        BY <2>3 DEF Next, Step, CheckSource, CheckPassed, Update, Return, Settle, FlushRun, FlushDone,
           GetStale, Get, Peek, Set, Mount, BuildBranch, BuildMounted, Jump, HandlerReturns, Dispose,
           DisposeChild, CallDispose, TakeCleanups, RunCleanup, DisposeNodes, Event, Dispatch, Rest,
           OnlyTheStack, vars
      <3> QED
        BY <1>4, <3>1
    <2> QED
      BY <2>1, <2>2, <2>3
  <1>5. CASE n \in alive /\ state[n] # "Clean" /\ ToRun(stack, n)
    BY <1>5, ToRunStays DEF Working
  <1>6. ASSUME n \in alive, NEW op \in Working, Called(stack, op, n) PROVE Held(n)
    <2>1. CASE CheckPassed \/ Settle
      <3>1. Top.of = n => state'[n] = "Clean"
        BY <1>0, <1>6, <2>1 DEF CheckPassed, Settle
      <3>2. ~Return /\ ~Update
        BY <2>1 DEF CheckPassed, Settle, Return, Update, At
      <3> QED
        BY <1>1, <1>6, <3>1, <3>2, CallStays
    <2>2. CASE Return
      <3>1. stack' # <<>> /\ Top'.op = "settle" /\ Top'.of = Top.of
        BY <1>0, <2>2, ReturnTop
      <3>2. Top.of = n => Called(stack', "settle", n)
        BY <1>0, <3>1, HoldsPop, HoldsCalled DEF Top
      <3>3. ~CheckPassed /\ ~Settle /\ ~Update
        BY <2>2 DEF CheckPassed, Settle, Return, Update, At
      <3> QED
        BY <1>6, <3>2, <3>3, CallStays DEF Working
    <2>3. CASE ~CheckPassed /\ ~Settle /\ ~Return
      BY <1>6, <2>3, CallStays DEF Working
    <2> QED
      BY <2>1, <2>2, <2>3
  <1> HIDE DEF Held
  <1> QED
    BY <1>0, <1>1, <1>2, <1>3, <1>4, <1>5, <1>6 DEF QueuedEffects

\* The applications whose effects read nothing untracked.
Tracking ==
  \A n \in Node : IsEffect(n) => \A k \in DOMAIN app.code[n] : app.code[n][k].do # "peek"

\* Of the sources of an effect, those that its own code reads: the branches it
\* builds link what they read to it as well.
OwnSources(n) == SourcesOf(n) \cap ReadBy(n)

CleanOwn(n) == CleanSources(n) \cap ReadBy(n)

EffectRun(g) == g.op = "run" /\ IsEffect(g.of)

\* The closure of an effect has come to where it is with the sources it has read.
EffectRuns ==
  \A g \in TypedFrame : Contains(stack, g) /\ EffectRun(g) =>
    ComesTo(app, g.of, g.pc, g.acc, CleanOwn(g.of), value)

LEMMA ComesToOn ==
  ASSUME NEW a, NEW n, NEW pc \in Nat \ {0}, NEW acc \in Value, NEW srcs, NEW val,
         ComesTo(a, n, pc, acc, srcs, val), pc \in DOMAIN a.code[n],
         a.code[n][pc].do \in {"set", "mount", "build", "dispose"}
  PROVE  ComesTo(a, n, pc + 1, acc, srcs, val)
  <1>1. \A v, f : Solves(a, n, v, f) => f[Point(n, pc, acc)] = f[Point(n, pc + 1, acc)]
    BY DEF Solves
  <1> QED
    BY <1>1 DEF ComesTo

\* What calls something goes on after the instruction.
LEMMA Stepped ==
  ASSUME StoreType, StackType(stack, depth), InCode
  PROVE  LET f == Skipping(0)
         IN /\ f \in TypedFrame /\ f.op = Top.op /\ f.of = Top.of
            /\ f.pc = Top.pc + 1 + 0 /\ f.acc = Top.acc
            /\ Advanced = <<f>> \o Below
  <1>1. /\ 0 \in Nat /\ Top.acc \in Value
    BY CodeFacts
  <1>2. /\ Skipping(0) = [Skipping(0) EXCEPT !.acc = Top.acc]
        /\ LET f == [Skipping(0) EXCEPT !.acc = Top.acc]
           IN f \in TypedFrame /\ f.op = Top.op /\ f.of = Top.of /\ f.pc = Top.pc + 1 + 0 /\ f.acc = Top.acc
    BY <1>1, MovedFrame
  <1> QED
    BY <1>2 DEF Advanced

\* How the closure of an effect starts and goes on.
LEMMA EffectRunsOn ==
  ASSUME TypeInv, CallsInv, [Next]_vars, NEW g \in TypedFrame, Contains(stack', g), EffectRun(g)
  PROVE  \/ Contains(stack, g)
         \/ Update /\ g.pc = 1 /\ g.acc = 0
         \/ /\ stack # <<>> /\ Top.op = "run" /\ g.of = Top.of /\ InCode
            /\ \/ Get /\ value[Arg] \in Value /\ g.pc = Top.pc + 1 + 0 /\ g.acc = Add(Top.acc, value[Arg])
               \/ Doing("peek")
               \/ Jump /\ Doing("ifzero") /\ g.acc = Top.acc
                  /\ g.pc = Top.pc + 1 + (IF Top.acc = 0 THEN Code[Top.pc].skip ELSE 0)
               \/ Jump /\ Doing("return") /\ g.acc = Top.acc /\ g.pc = Top.pc + 1 + Len(Code)
               \/ Jump /\ Doing("clear") /\ g.acc = 0 /\ g.pc = Top.pc + 1 + 0
               \/ /\ \E d \in {"set", "mount", "build", "dispose"} : Doing(d)
                  /\ ~Get /\ ~Jump /\ g.acc = Top.acc /\ g.pc = Top.pc + 1 + 0
  <1>0. /\ StoreType /\ StackType(stack, depth) /\ stack \in Seq(TypedFrame)
        /\ Shape(app, stack, observer) /\ SignalsClean
    BY TypeInvParts DEF StackType, CallsInv
  <1>1. g.op = "run"
    BY DEF EffectRun
  <1>2. CASE Update /\ g.of = Top.of /\ ~Contains(stack, g)
    <2> DEFINE e == NewFrame("settle", Top.of, <<>>)
               r == [NewFrame("run", Top.of, <<>>) EXCEPT !.prev = observer]
    <2>1. stack # <<>> /\ Top.op = "visit"
      BY <1>2 DEF Update, At
    <2>2. /\ Top \in TypedFrame /\ Below \in Seq(TypedFrame) /\ Top.of \in Node
          /\ \A h : Contains(stack, h) <=> h = Top \/ Contains(Below, h)
      BY <1>0, <2>1, HeldFrames, TopOn, FrameFields
    <2>3. observer \in Node \cup {None}
      BY <1>0 DEF StoreType
    <2>4. e \in TypedFrame /\ e.op = "settle" /\ r \in TypedFrame /\ r.pc = 1 /\ r.acc = 0
      BY <2>2, <2>3, NewFrames DEF NewFrame
    <2>5. stack' = <<e>> \o Below \/ stack' = <<r>> \o (<<e>> \o Below)
      BY <1>2 DEF Update
    <2> HIDE DEF e, r
    <2>6. \A h : Contains(<<e>> \o Below, h) <=> h = e \/ Contains(Below, h)
      BY <2>2, <2>4, HoldsPush
    <2>7. \A h : Contains(<<r>> \o (<<e>> \o Below), h) <=> h = r \/ Contains(<<e>> \o Below, h)
      BY <2>2, <2>4, Pushed, HoldsPush
    <2>8. g = r \/ g = e \/ Contains(Below, g)
      BY <2>5, <2>6, <2>7
    <2> QED
      BY <1>1, <1>2, <2>2, <2>4, <2>8
  <1>3. CASE stack # <<>> /\ OnAs(g) /\ ~Contains(stack, g)
    <2>1. /\ Top.op = "run" /\ g.of = Top.of /\ Top \in TypedFrame /\ Below \in Seq(TypedFrame)
          /\ \A h : Contains(stack, h) <=> h = Top \/ Contains(Below, h)
      BY <1>0, <1>1, <1>3, HeldFrames, TopOn DEF OnAs
    <2>2. ASSUME NEW k \in Nat, NEW v \in Value, Moved(k, v), InCode
          PROVE  g.pc = Top.pc + 1 + k /\ g.acc = v
      <3> DEFINE f == [Skipping(k) EXCEPT !.acc = v]
      <3>1. f \in TypedFrame /\ f.pc = Top.pc + 1 + k /\ f.acc = v
        BY <1>0, <2>2, MovedFrame
      <3>2. stack' = <<f>> \o Below
        BY <2>2 DEF Moved
      <3> HIDE DEF f
      <3> QED
        BY <1>3, <2>1, <3>1, <3>2, HoldsPush
    <2>3. ASSUME InCode, NEW h, h.op # "run", NEW s, s = <<h>> \o Advanced, stack' \in {Advanced, s},
                 h \in TypedFrame
          PROVE  g.pc = Top.pc + 1 + 0 /\ g.acc = Top.acc
      <3> DEFINE f == Skipping(0)
      <3>1. f \in TypedFrame /\ f.pc = Top.pc + 1 + 0 /\ f.acc = Top.acc /\ Advanced = <<f>> \o Below
        BY <1>0, <2>3, Stepped
      <3> HIDE DEF f
      <3>2. Contains(Advanced, g) => g = f \/ Contains(Below, g)
        BY <2>1, <3>1, HoldsPush
      <3>3. Advanced \in Seq(TypedFrame)
        BY <2>1, <3>1, Pushed
      <3>4. Contains(stack', g) => Contains(Advanced, g)
        BY <1>1, <2>3, <3>3, HoldsPush
      <3> QED
        BY <1>3, <2>1, <3>1, <3>2, <3>4
    <2>4. /\ 0 \in Nat /\ 0 \in Value /\ Top.acc \in Value
          /\ \A v \in Value : Add(Top.acc, v) \in Value
      BY <2>1, FrameFields, AddType, ZeroIsValue
    <2>5. CASE Get
      <3>1. Doing("get") /\ InCode
        BY <2>5 DEF Get, Doing
      <3>2. value[Arg] \in Value /\ Moved(0, Add(Top.acc, value[Arg]))
        BY <1>0, <1>3, <2>5, Moves
      <3> QED
        BY <1>3, <2>1, <2>2, <2>4, <2>5, <3>1, <3>2
    <2>6. CASE Peek
      BY <1>3, <2>1, <2>6 DEF Peek, Doing
    <2>7. CASE Jump
      <3>1. InCode /\ Code \in Seq(Instr)
        BY <1>0, <2>7, CodeFacts DEF Jump, Doing
      <3>2. Len(Code) \in Nat
        BY <3>1
      <3>3. Doing("ifzero") => (IF Top.acc = 0 THEN Code[Top.pc].skip ELSE 0) \in Nat
        <4>1. Doing("ifzero") => Code[Top.pc] \in Instr
          BY <1>0, DoingFacts
        <4> QED
          BY <4>1 DEF Instr
      <3>4. \/ Doing("ifzero") /\ Moved(IF Top.acc = 0 THEN Code[Top.pc].skip ELSE 0, Top.acc)
            \/ Doing("return") /\ Moved(Len(Code), Top.acc)
            \/ Doing("clear") /\ Moved(0, 0)
        BY <1>0, <2>7, Moves
      <3> QED
        BY <1>3, <2>1, <2>2, <2>4, <2>7, <3>1, <3>2, <3>3, <3>4
    <2>8. CASE Set \/ Mount \/ BuildBranch \/ BuildMounted \/ Dispose
      <3>1. /\ \E d \in {"set", "mount", "build", "dispose"} : Doing(d)
            /\ InCode /\ ~Get /\ ~Jump
        BY <2>8 DEF Set, Mount, BuildBranch, BuildMounted, Dispose, Get, Jump, Doing
      <3>2. CASE BuildMounted
        BY <1>0, <2>2, <2>4, <3>1, <3>2, <2>1, <1>3, Moves
      <3>3. CASE Set \/ Mount \/ BuildBranch \/ Dispose
        <4>1. \E h \in TypedFrame : h.op # "run" /\ stack' \in {Advanced, <<h>> \o Advanced}
          <5>1. CASE Set
            <6>1. NewFrame("flush", None, <<>>) \in TypedFrame /\ NewFrame("flush", None, <<>>).op # "run"
              BY NewFrames DEF NewFrame
            <6> QED
              BY <5>1, <6>1 DEF Set, Flush
          <5>2. CASE Mount
            <6>1. Arg \in Node
              BY <1>0, <5>2, DoingFacts DEF Mount, WellTyped
            <6>2. NewFrame("visit", Arg, <<>>) \in TypedFrame /\ NewFrame("visit", Arg, <<>>).op # "run"
              BY <6>1, NewFrames DEF NewFrame
            <6> QED
              BY <5>2, <6>2 DEF Mount
          <5>3. CASE BuildBranch
            <6>1. Arg \in Scope /\ app \in App
              BY <1>0, <5>3, DoingFacts DEF BuildBranch, WellTyped, StoreType
            <6>2. app.build[Arg] \in Handler
              BY <6>1, AppAssumption
            <6>3. /\ NewFrame("handler", app.build[Arg], <<>>) \in TypedFrame
                  /\ NewFrame("handler", app.build[Arg], <<>>).op # "run"
              BY <6>2, NewFrames DEF NewFrame
            <6> QED
              BY <5>3, <6>3 DEF BuildBranch
          <5>4. CASE Dispose
            <6>1. Arg \in Scope
              BY <1>0, <5>4, DoingFacts DEF Dispose, WellTyped
            <6>2. scopes[Arg].children \in Seq(Scope)
              BY <1>0, <6>1 DEF StoreType, ScopeRecord
            <6>3. DisposeFrame(Arg) \in TypedFrame /\ DisposeFrame(Arg).op # "run"
              BY <6>1, <6>2, NewFrames DEF NewFrame, DisposeFrame
            <6> QED
              BY <5>4, <6>3, NewFrames DEF Dispose, CallDispose
          <5> QED
            BY <3>3, <5>1, <5>2, <5>3, <5>4
        <4> QED
          BY <2>3, <3>1, <4>1, <2>1, <1>3
      <3> QED
        BY <2>8, <3>2, <3>3
    <2>9. CASE Notify \/ Rest \/ UNCHANGED vars
      BY <1>3, <2>9 DEF Notify, Rest, vars
    <2>10. CASE Return
      BY <1>3, <2>1, <2>10 DEF Return
    <2>11. CASE GetStale
      <3>1. Arg \in Node /\ stack' = Visit(Arg, stack) /\ state[Arg] # "Clean"
        BY <1>0, <2>11, Reads DEF GetStale
      <3>2. state[Arg] \in NodeState /\ sources[Arg] \in Seq(Node)
        BY <1>0, <3>1 DEF StoreType
      <3>3. PICK t \in Seq(Node) : Visit(Arg, stack) = <<NewFrame("visit", Arg, t)>> \o stack
        BY <3>1, <3>2, VisitForm
      <3>4. NewFrame("visit", Arg, t) \in TypedFrame /\ NewFrame("visit", Arg, t).op = "visit"
        BY <3>1, NewFrames DEF NewFrame
      <3> QED
        BY <1>0, <1>1, <1>3, <3>1, <3>3, <3>4, HoldsPush
    <2>12. CASE CheckSource \/ CheckPassed \/ Update \/ Settle \/ FlushTake \/ FlushRun \/ FlushDone
                \/ HandlerReturns \/ DisposeChild \/ TakeCleanups \/ RunCleanup \/ DisposeNodes \/ Event
      BY <1>3, <2>1, <2>12 DEF CheckSource, CheckPassed, Update, Settle, FlushTake, FlushRun,
         FlushDone, HandlerReturns, DisposeChild, TakeCleanups, RunCleanup, DisposeNodes, Event,
         Dispatch, At
    <2> QED
      BY <2>5, <2>6, <2>7, <2>8, <2>9, <2>10, <2>11, <2>12 DEF Next, Step
  <1>4. ~(stack # <<>> /\ Entered(g))
    BY <1>1 DEF Entered
  <1> QED
    BY <1>1, <1>2, <1>3, <1>4, NextFrames

\* What a running effect has read stays as it read it.
LEMMA KeptOwn ==
  ASSUME TypeInv, CallsInv, MarksInv, Scoped, EffectsInv, ScopesInv, [Next]_vars,
         NEW n \in Node, IsEffect(n), Called(stack, "run", n)
  PROVE  \A m \in CleanOwn(n) : m \in CleanOwn(n)' /\ value'[m] = value[m]
  <1>0. /\ StoreType /\ StackType(stack, depth) /\ stack \in Seq(TypedFrame)
        /\ Shape(app, stack, observer) /\ LinksAgree /\ CallMarks /\ LinksOK
        /\ app' = app /\ app \in App /\ TurnsInv /\ AgendaInv /\ NestInv /\ InScope(app)
        /\ state \in [Node -> NodeState] /\ value \in [Node -> Value \cup {NoValue}]
    BY TypeInvParts, LinksOKStep DEF StackType, CallsInv, StoreType, EffectsInv, ScopesInv, Scoped
  <1>1. PICK g \in TypedFrame : Contains(stack, g) /\ g.op = "run" /\ g.of = n
    BY <1>0, CalledHolds
  <1>2. stack # <<>> /\ ~Writing
    BY <1>0, <1>1, NothingListed, EffectsInTurn DEF Working
  <1>3. SUFFICES ASSUME NEW m \in Node, DependsOn(n, m), state[m] = "Clean", m \in ReadBy(n)
        PROVE  DependsOn(n, m)' /\ state'[m] = "Clean" /\ value'[m] = value[m]
    BY <1>0 DEF CleanOwn, CleanSources, ReadBy
  <1>4. CASE Notify
    <2>1. MemoCall(app, Top)
      BY <1>0, <1>2, <1>4 DEF AgendaInv, Notify
    <2>2. Pulling(app, stack)
      <3>1. Called(stack, Top.op, Top.of) /\ Top.op \in Working
        BY <1>0, <1>2, <2>1, HeldFrames, HoldsCalled DEF MemoCall
      <3> QED
        BY <2>1, <3>1 DEF Pulling, MemoCall
    <2>3. state'[m] = "Clean"
      BY <1>0, <1>3, <1>4, <2>2, NotifyStates DEF MarksInv, LinksOK
    <2> QED
      BY <1>3, <1>4, <2>3 DEF Notify, links, DependsOn
  <1>5. CASE CheckPassed \/ Settle
    <2>1. UNCHANGED <<value, sources>> /\ state' = [state EXCEPT ![Top.of] = "Clean"]
      BY <1>5 DEF CheckPassed, Settle, links
    <2> QED
      BY <1>0, <1>3, <2>1 DEF DependsOn
  <1>6. CASE Update
    <2>1. Unlinked(Top.of) /\ Top.op = "visit" /\ UNCHANGED <<state, value>>
      BY <1>6 DEF Update, At
    <2>2. Top.of \in Node
      BY <1>0, <1>2, <2>1, HeldFrames, FrameFields
    <2>3. Top.of # n
      <3>1. g # Top /\ Contains(Below, g)
        BY <1>0, <1>1, <1>2, <2>1, HeldFrames
      <3>2. Called(Below, "run", n)
        BY <1>0, <1>1, <1>2, <3>1, TopOn, HoldsCalled
      <3> QED
        BY <1>0, <1>2, <2>1, <3>2, TopOfEffect DEF Working
    <2>4. DependsOn(n, m)'
      BY <1>0, <1>3, <2>1, <2>2, <2>3, UnlinkedLinks
    <2> QED
      BY <1>3, <2>1, <2>4
  <1>7. CASE Return
    <2>1. UNCHANGED <<state, sources>> /\ Top.op = "run"
          /\ (value' # value => IsMemo(Top.of) /\ value' = [value EXCEPT ![Top.of] = Top.acc])
      BY <1>7 DEF Return, links, At
    <2>2. Top.of \in Node /\ Called(stack, "run", Top.of)
      BY <1>0, <1>2, <2>1, HeldFrames, FrameFields, HoldsCalled
    <2>3. value' # value => state[Top.of] = "Dirty"
      BY <1>0, <2>1, <2>2 DEF CallMarks
    <2>4. value'[m] = value[m]
      BY <1>0, <1>3, <2>1, <2>3
    <2> QED
      BY <1>3, <2>1, <2>4 DEF DependsOn
  <1>8. CASE GetStale \/ Get
    <2>1. Linked(Arg) /\ Doing("get") /\ UNCHANGED <<state, value>>
      BY <1>8 DEF GetStale, Get
    <2>2. DependsOn(n, m)'
      BY <1>0, <1>3, <2>1, LinkedLinks, Reads
    <2> QED
      BY <1>3, <2>1, <2>2
  <1>9. CASE Set
    <2>1. EventCall(app, Top)
      BY <1>0, <1>9, WriteTop DEF Scoped
    <2>2. g = Top
      BY <1>0, <1>1, <1>2, <2>1, EventIsLast DEF TurnsInv
    <2> QED
      BY <1>1, <2>1, <2>2 DEF EventCall
  <1>10. CASE Mount \/ BuildBranch
    <2>1. ~Fresh(m)
      BY <1>0, <1>3, FreshLinks
    <2>2. \A j \in Node : ~Fresh(j) => state'[j] = state[j] /\ value'[j] = value[j]
      <3>1. CASE Mount
        BY <1>0, <3>1 DEF Mount
      <3>2. CASE BuildBranch
        <4> DEFINE new == {j \in Owned(Arg) : ~IsEffect(j)}
        <4>1. /\ \A j \in new : Fresh(j)
              /\ \A j \in Node : j \notin new => state'[j] = state[j] /\ value'[j] = value[j]
          BY <3>2 DEF BuildBranch
        <4> HIDE DEF new
        <4> QED
          BY <4>1
      <3> QED
        BY <1>10, <3>1, <3>2
    <2>3. UNCHANGED sources
      BY <1>10 DEF Mount, BuildBranch, links
    <2> QED
      BY <1>3, <2>1, <2>2, <2>3 DEF DependsOn
  <1>11. CASE DisposeNodes
    <2>1. Top.op = "dispose" /\ Top.of \in Scope /\ Contains(Below, g)
      BY <1>0, <1>1, <1>2, <1>11, HeldFrames, FrameFields DEF DisposeNodes, At
    <2>2. app.owner[n] \in Scope /\ app.owner[m] \in Scope
      BY <1>0, AppAssumption
    <2>3. Within(app, Top.of, app.owner[n]) /\ Top.of # app.owner[n]
      <3>1. MayNest(app, Top, g)
        BY <1>0, <1>2, <2>1, NestsTop DEF NestInv
      <3>2. CallOf(app, Top, Top.of) /\ CallOf(app, g, app.owner[n])
        BY <1>1, <2>1 DEF CallOf, EffectCall, Working, IsEffect
      <3> QED
        BY <2>1, <2>2, <3>1, <3>2 DEF MayNest
    <2>4. Within(app, app.owner[n], app.owner[m])
      <3>1. PICK k \in DOMAIN app.code[n] : app.code[n][k].do = "get" /\ app.code[n][k].of = m
        BY <1>3 DEF ReadBy
      <3>2. Belongs(app, n, app.owner[n])
        BY DEF Belongs
      <3>3. InReach(app, app.owner[n], app.code[n][k])
        BY <1>0, <2>2, <3>2 DEF InScope
      <3> QED
        BY <3>1, <3>3 DEF InReach
    <2>5. app.owner[m] # Top.of
      BY <1>0, <2>1, <2>2, <2>3, <2>4, WithinOneWay DEF InScope
    <2>6. n \notin Dying(Top.of) /\ m \notin Dying(Top.of)
      BY <2>3, <2>5 DEF Dying, Owned
    <2>7. state'[m] = state[m] /\ value'[m] = value[m]
      BY <1>11, <2>6, DisposeNodesParts
    <2>8. DependsOn(n, m)'
      BY <1>0, <1>3, <1>11, <2>6, DisposedLinks
    <2> QED
      BY <1>3, <2>7, <2>8
  <1>12. CASE CheckSource \/ FlushTake \/ FlushRun \/ FlushDone \/ Peek \/ BuildMounted \/ Jump
              \/ HandlerReturns \/ Dispose \/ DisposeChild \/ TakeCleanups \/ RunCleanup \/ Event
              \/ Rest \/ UNCHANGED vars
    <2>1. UNCHANGED <<state, value, sources>>
      BY <1>12 DEF CheckSource, FlushTake, FlushRun, FlushDone, Peek, BuildMounted, Jump,
         HandlerReturns, Dispose, DisposeChild, TakeCleanups, RunCleanup, CallDispose, Event,
         Dispatch, Rest, OnlyTheStack, graph, links, vars
    <2> QED
      BY <1>3, <2>1 DEF DependsOn
  <1> QED
    BY <1>4, <1>5, <1>6, <1>7, <1>8, <1>9, <1>10, <1>11, <1>12 DEF Next, Step

LEMMA EffectRunsStep ==
  ASSUME TypeInv, CallsInv, MarksInv, Scoped, Tracking, EffectsInv, ScopesInv, EffectRuns, [Next]_vars
  PROVE  EffectRuns'
  <1>0. /\ StoreType /\ StackType(stack, depth) /\ stack \in Seq(TypedFrame)
        /\ Shape(app, stack, observer) /\ LinksAgree /\ app' = app /\ app \in App
    BY TypeInvParts, LinksOKStep DEF StackType, CallsInv, StoreType
  <1>1. SUFFICES ASSUME NEW g \in TypedFrame, Contains(stack', g), EffectRun(g)
        PROVE  ComesTo(app, g.of, g.pc, g.acc, CleanOwn(g.of)', value')
    BY <1>0 DEF EffectRuns, EffectRun, IsEffect
  <1> DEFINE n == g.of
  <1>2. n \in Node /\ IsEffect(n) /\ g.op = "run"
    BY <1>1, FrameFields DEF EffectRun
  <1> DEFINE G == ComesTo(app, n, g.pc, g.acc, CleanOwn(n)', value')
  <1>3. SUFFICES G
    OBVIOUS
  <1> HIDE DEF G
  <1>4. ASSUME NEW pc, NEW acc, Called(stack, "run", n),
               ComesTo(app, n, pc, acc, CleanOwn(n), value)
        PROVE  ComesTo(app, n, pc, acc, CleanOwn(n)', value')
    <2>1. \A m \in CleanOwn(n) : m \in CleanOwn(n)' /\ value'[m] = value[m]
      BY <1>2, <1>4, KeptOwn
    <2> DEFINE A == CleanOwn(n)
               B == CleanOwn(n)'
    <2>2. A \subseteq B /\ (\A m \in A : value'[m] = value[m]) /\ ComesTo(app, n, pc, acc, A, value)
      BY <1>4, <2>1
    <2> HIDE DEF A, B
    <2>3. ComesTo(app, n, pc, acc, B, value')
      BY <2>2, ComesToKept
    <2> QED
      BY <2>3 DEF B
  <1>5. CASE Contains(stack, g)
    <2>1. Called(stack, "run", n)
      BY <1>0, <1>2, <1>5, HoldsCalled
    <2>2. ComesTo(app, n, g.pc, g.acc, CleanOwn(n), value)
      BY <1>1, <1>5 DEF EffectRuns
    <2> QED
      BY <1>4, <2>1, <2>2 DEF G
  <1>6. CASE Update /\ g.pc = 1 /\ g.acc = 0
    BY <1>6, ComesToStart DEF G
  <1>7. CASE /\ stack # <<>> /\ Top.op = "run" /\ n = Top.of /\ InCode
             /\ \/ Get /\ value[Arg] \in Value /\ g.pc = Top.pc + 1 + 0 /\ g.acc = Add(Top.acc, value[Arg])
                \/ Doing("peek")
                \/ Jump /\ Doing("ifzero") /\ g.acc = Top.acc
                   /\ g.pc = Top.pc + 1 + (IF Top.acc = 0 THEN Code[Top.pc].skip ELSE 0)
                \/ Jump /\ Doing("return") /\ g.acc = Top.acc /\ g.pc = Top.pc + 1 + Len(Code)
                \/ Jump /\ Doing("clear") /\ g.acc = 0 /\ g.pc = Top.pc + 1 + 0
                \/ /\ \E d \in {"set", "mount", "build", "dispose"} : Doing(d)
                   /\ ~Get /\ ~Jump /\ g.acc = Top.acc /\ g.pc = Top.pc + 1 + 0
    <2>1. /\ Top \in TypedFrame /\ Contains(stack, Top) /\ Called(stack, "run", n)
          /\ Top.pc \in Nat \ {0} /\ Top.acc \in Value
      <3>1. Top \in TypedFrame /\ Contains(stack, Top)
        BY <1>0, <1>7, HeldFrames
      <3>2. Top.pc \in Nat /\ Top.pc >= 1 /\ Top.acc \in Value
        BY <3>1, FrameFields
      <3>3. Called(stack, "run", n)
        BY <1>0, <1>7, <3>1, HoldsCalled
      <3> QED
        BY <3>1, <3>2, <3>3
    <2>2. ComesTo(app, n, Top.pc, Top.acc, CleanOwn(n), value)
      BY <1>2, <1>7, <2>1 DEF EffectRuns, EffectRun
    <2> DEFINE B == CleanOwn(n)'
               i == app.code[n][Top.pc]
    <2>3. ComesTo(app, n, Top.pc, Top.acc, B, value')
      BY <1>4, <2>1, <2>2
    <2>4. Code = app.code[n] /\ Len(app.code[n]) \in Nat
      <3>1. Code \in Seq(Instr)
        BY <1>0, <1>7, CodeFacts
      <3> QED
        BY <1>7, <3>1 DEF Code
    <2>5. \A d : Doing(d) => Top.pc \in DOMAIN app.code[n] /\ i.do = d /\ Arg = i.of
      BY <1>0, <2>4, DoingFacts
    <2>6. Top.pc + 1 + 0 = Top.pc + 1
      BY <2>1
    <2>7. ~Doing("peek")
      BY <1>2, <2>5 DEF Tracking
    <2>8. CASE Get /\ value[Arg] \in Value /\ g.pc = Top.pc + 1 + 0 /\ g.acc = Add(Top.acc, value[Arg])
      <3>1. Doing("get") /\ Linked(Arg) /\ UNCHANGED <<state, value>> /\ state[Arg] = "Clean"
        BY <2>8 DEF Get
      <3>2. Arg \in Node /\ observer = n
        BY <1>0, <1>7, <3>1, Reads, Watcher
      <3>3. PICK m \in Node : m = Arg
        BY <3>2
      <3>4. DependsOn(n, m)'
        BY <1>0, <1>2, <3>1, <3>2, <3>3, LinkedLinks
      <3>5. m \in ReadBy(n)'
        BY <1>0, <2>5, <3>1, <3>3 DEF ReadBy
      <3>6. i.of \in B
        BY <2>5, <3>1, <3>3, <3>4, <3>5 DEF CleanOwn, CleanSources
      <3> HIDE DEF B
      <3>7. ComesTo(app, n, Top.pc + 1, Add(Top.acc, value'[i.of]), B, value')
        BY <2>1, <2>3, <2>5, <3>1, <3>6, ComesToGet
      <3>8. g.pc = Top.pc + 1 /\ g.acc = Add(Top.acc, value'[i.of])
        BY <2>5, <2>6, <2>8, <3>1
      <3> QED
        BY <3>7, <3>8 DEF B, G
    <2> HIDE DEF B
    <2>9. CASE Jump
      <3>2. Top.pc \in DOMAIN app.code[n] =>
              /\ i.do = "ifzero" =>
                   ComesTo(app, n, Top.pc + 1 + (IF Top.acc = 0 THEN i.skip ELSE 0), Top.acc, B, value')
              /\ i.do = "return" => ComesTo(app, n, Top.pc + 1 + Len(app.code[n]), Top.acc, B, value')
              /\ i.do = "clear" => ComesTo(app, n, Top.pc + 1, 0, B, value')
        BY <2>1, <2>3, <2>4, ComesToJump
      <3>3. ~Get
        BY <2>9 DEF Get, Jump, Doing
      <3>4. ComesTo(app, n, g.pc, g.acc, B, value')
        <4>1. CASE Doing("ifzero") /\ g.acc = Top.acc
                   /\ g.pc = Top.pc + 1 + (IF Top.acc = 0 THEN Code[Top.pc].skip ELSE 0)
          BY <2>4, <2>5, <3>2, <4>1
        <4>2. CASE Doing("return") /\ g.acc = Top.acc /\ g.pc = Top.pc + 1 + Len(Code)
          BY <2>4, <2>5, <3>2, <4>2
        <4>3. CASE Doing("clear") /\ g.acc = 0 /\ g.pc = Top.pc + 1 + 0
          BY <2>5, <2>6, <3>2, <4>3
        <4> QED
          BY <1>7, <2>7, <2>9, <3>3, <4>1, <4>2, <4>3
      <3> QED
        BY <3>4 DEF B, G
    <2>10. CASE /\ \E d \in {"set", "mount", "build", "dispose"} : Doing(d)
                /\ g.acc = Top.acc /\ g.pc = Top.pc + 1 + 0
      <3>1. Top.pc \in DOMAIN app.code[n] /\ i.do \in {"set", "mount", "build", "dispose"}
        BY <2>5, <2>10
      <3>2. ComesTo(app, n, Top.pc + 1, Top.acc, B, value')
        BY <2>1, <2>3, <3>1, ComesToOn
      <3> QED
        BY <2>6, <2>10, <3>2 DEF B, G
    <2> QED
      BY <1>7, <2>7, <2>8, <2>9, <2>10
  <1> QED
    BY <1>1, <1>5, <1>6, <1>7, EffectRunsOn

\* An effect whose run nothing called into question since shows what its code
\* yields from its own sources.
EffectsYield ==
  \A n \in Node : IsEffect(n) /\ Settled(n) => Yields(app, n, OwnSources(n), value, shown[n])

LEMMA EffectSettleOnTop ==
  ASSUME StackType(stack, depth), CallsInv, EffectsReady, NEW n \in alive, IsEffect(n),
         Called(stack, "settle", n), n \in ready
  PROVE  stack # <<>> /\ Top.op = "settle" /\ Top.of = n
  <1>1. PICK i \in 1..Len(stack) : stack[i].op = "settle" /\ stack[i].of = n
    BY DEF Called
  <1>2. stack \in Seq(TypedFrame) /\ Len(stack) \in Nat /\ stack # <<>> /\ Top = stack[1]
    BY <1>1, TopFacts DEF StackType
  <1>3. CASE i = 1
    BY <1>1, <1>2, <1>3
  <1>4. CASE i > 1
    <2>1. i - 1 \in 1..Len(stack) /\ stack[i - 1].op = "run" /\ (i - 1) + 1 = i
      BY <1>1, <1>2, <1>4 DEF CallsInv, Shape, Paired
    <2>2. stack[i - 1].of = n
      BY <1>1, <2>1 DEF CallsInv, Shape, Paired
    <2>3. Called(stack, "run", n)
      BY <2>1, <2>2 DEF Called
    <2> QED
      BY <2>3 DEF EffectsReady
  <1> QED
    BY <1>3, <1>4

\* Nothing but its own return settles an effect.
LEMMA EffectSettled ==
  ASSUME TypeInv, CallsInv, MarksInv, [Next]_vars, NEW n \in Node, IsEffect(n), Settled(n)'
  PROVE  /\ n \in alive
         /\ Settled(n) \/ (Return /\ n = Top.of)
         /\ ~(Update /\ n = Top.of)
  <1>0. /\ StoreType /\ StackType(stack, depth) /\ state \in [Node -> NodeState]
        /\ n \in alive' /\ n \in ready' /\ stack \in Seq(TypedFrame)
    BY TypeInvParts DEF StoreType, Settled, StackType
  <1>1. ASSUME Called(stack', "settle", n)
        PROVE  Called(stack, "settle", n) \/ (Update /\ n = Top.of)
    BY <1>1, SettleCalled
  <1>2. ~(Update /\ n = Top.of)
    BY <1>0 DEF Update
  <1>3. n \in alive
    <2>1. SUFFICES ASSUME n \notin alive PROVE FALSE
      OBVIOUS
    <2>2. Mount /\ n = Arg /\ \A op : ~Called(stack, op, n)
      BY <1>0, <2>1, EffectMounted
    <2>3. state'[n] = "Dirty"
      BY <1>0, <2>2 DEF Mount
    <2> QED
      BY <1>1, <1>2, <2>2, <2>3 DEF Settled
  <1>4. n \in ready \/ (Return /\ n = Top.of)
    BY <1>0, <1>2, <1>3, ReadyStep DEF Fresh
  <1>5. CASE Called(stack', "settle", n)
    BY <1>1, <1>2, <1>3, <1>4, <1>5 DEF Settled
  <1>6. CASE state'[n] # "Dirty" /\ ~Asked(agenda', n, "Dirty")
    <2>1. CASE Notify
      <3> DEFINE k == Head(agenda).node
                 mk == Head(agenda).mark
      <3>1. /\ k \in Node /\ mk \in {"Check", "Dirty"}
            /\ \A j, m : Asked(agenda, j, m) <=> (j = k /\ m = mk) \/ Asked(Tail(agenda), j, m)
            /\ Rank[state[k]] >= Rank[mk] =>
                 UNCHANGED state /\ \A j, m : Asked(agenda', j, m) <=> Asked(Tail(agenda), j, m)
            /\ ~(Rank[state[k]] >= Rank[mk]) =>
                 /\ state' = [state EXCEPT ![k] = mk]
                 /\ \A j, m : Asked(agenda', j, m) <=>
                      (Contains(observers[k], j) /\ m = "Check") \/ Asked(Tail(agenda), j, m)
        BY <1>0, <2>1, NotifyAsks
      <3> HIDE DEF k, mk
      <3>2. Rank["Clean"] = 0 /\ Rank["Check"] = 1 /\ Rank["Dirty"] = 2
        BY DEF Rank
      <3>3. state[n] \in {"Clean", "Check", "Dirty"} /\ state[k] \in {"Clean", "Check", "Dirty"}
        BY <1>0, <3>1 DEF NodeState
      <3>4. CASE Rank[state[k]] >= Rank[mk]
        <4>1. mk = "Dirty" => state[k] = "Dirty"
          BY <3>2, <3>3, <3>4
        <4> QED
          BY <1>2, <1>3, <1>4, <1>6, <2>1, <3>1, <3>4, <4>1 DEF Settled
      <3>5. CASE ~(Rank[state[k]] >= Rank[mk])
        <4>1. state'[n] = IF n = k THEN mk ELSE state[n]
          BY <1>0, <3>1, <3>5
        <4>2. state[k] # "Dirty"
          BY <3>1, <3>2, <3>5
        <4> QED
          BY <1>2, <1>3, <1>4, <1>6, <3>1, <3>5, <4>1, <4>2 DEF Settled
      <3> QED
        BY <3>4, <3>5
    <2>2. CASE ~Notify
      <3>1. agenda = <<>> \/ agenda' = agenda
        BY <2>2 DEF Next, Step, CheckSource, CheckPassed, Update, Return, Settle, FlushTake, FlushRun,
           FlushDone, GetStale, Get, Peek, Set, Mount, BuildBranch, BuildMounted, Jump,
           HandlerReturns, Dispose, DisposeChild, TakeCleanups, RunCleanup, DisposeNodes, Event,
           Dispatch, Rest, Doing, InCode, At, vars
      <3>2. ~Asked(agenda, n, "Dirty")
        BY <1>6, <3>1, EmptyAgenda
      <3>3. CASE state'[n] = state[n]
        BY <1>2, <1>3, <1>4, <1>6, <3>2, <3>3 DEF Settled
      <3>4. CASE CheckPassed /\ Top.of = n
        BY <1>2, <1>3, <1>4, <3>2, <3>4 DEF Settled, CheckPassed
      <3>5. CASE Settle /\ Top.of = n
        <4>1. Called(stack, "settle", n)
          BY <1>0, <3>5, PopWork DEF Settle, At
        <4> QED
          BY <1>2, <1>3, <1>4, <4>1 DEF Settled
      <3> QED
        BY <1>0, <1>3, <2>2, <3>3, <3>4, <3>5, EffectStates
    <2> QED
      BY <2>1, <2>2
  <1> QED
    BY <1>2, <1>3, <1>5, <1>6 DEF Settled

\* What a settled effect is linked to stays, and so does what it holds.
LEMMA SettledSources ==
  ASSUME TypeInv, CallsInv, MarksInv, EffectsReady, ReadsExist', [Next]_vars, NEW n \in Node,
         IsEffect(n), Settled(n), Settled(n)', ~(Return /\ n = Top.of), NEW m \in OwnSources(n)
  PROVE  m \in OwnSources(n)' /\ value'[m] = value[m]
  <1>0. /\ StoreType /\ StackType(stack, depth) /\ LinksAgree /\ Shape(app, stack, observer)
        /\ app' = app /\ n \in alive /\ n \in ready /\ n \in alive'
        /\ observers \in [Node -> Seq(Node)] /\ value \in [Node -> Value \cup {NoValue}]
    <2>1. app' = app
      BY LinksOKStep
    <2> QED
      BY <2>1, TypeInvParts DEF CallsInv, StoreType, Settled
  <1>1. m \in Node /\ DependsOn(n, m) /\ m \in ReadBy(n) /\ m \in ReadBy(n)'
    BY <1>0 DEF OwnSources, SourcesOf, ReadBy
  <1>2. m \in alive'
    BY <1>0, <1>1 DEF ReadsExist
  <1>3. DependsOn(n, m)'
    <2>1. CASE Update
      <3>1. Unlinked(Top.of) /\ Top.of \in Node
        BY <1>0, <2>1, HeldFrames, FrameFields DEF Update, At
      <3>2. n # Top.of
        BY <2>1, EffectSettled
      <3> QED
        BY <1>0, <1>1, <3>1, <3>2, UnlinkedLinks
    <2>2. CASE GetStale \/ Get
      <3>1. Linked(Arg) /\ Doing("get")
        BY <2>2 DEF GetStale, Get
      <3> QED
        BY <1>0, <1>1, <3>1, LinkedLinks, Reads
    <2>3. CASE DisposeNodes
      <3>1. alive' = alive \ Dying(Top.of)
        BY <2>3, DisposeNodesParts
      <3> QED
        BY <1>0, <1>1, <1>2, <2>3, <3>1, DisposedLinks
    <2>4. CASE LinksUntouched \/ UNCHANGED vars
      BY <1>1, <2>4, LinksUntouchedKept DEF DependsOn
    <2> QED
      BY <2>1, <2>2, <2>3, <2>4, NextByLinks
  <1>4. value'[m] = value[m]
    <2>1. ~Fresh(m)
      BY <1>0, <1>1, FreshLinks
    <2>2. CASE (Return \/ Set) /\ value'[m] # value[m]
      <3>1. PICK k : value' = [value EXCEPT ![k] = Top.acc] /\ agenda' = Marks(observers[k], "Dirty")
        BY <2>2 DEF Return, Set, Woken
      <3>2. m = k
        BY <1>0, <1>1, <2>2, <3>1
      <3>3. Contains(observers[m], n) /\ observers[m] \in Seq(Node)
        BY <1>0, <1>1 DEF LinksAgree, DependsOn
      <3>4. Asked(agenda', n, "Dirty")
        <4>1. <<>> \in Seq(Mark)
          OBVIOUS
        <4> QED
          BY <3>1, <3>2, <3>3, <4>1, AskedMarks
      <3>5. Called(stack', "settle", n)
        BY <3>4 DEF Settled
      <3>6. ~Update /\ Top.op # "settle"
        BY <2>2 DEF Return, Set, Update, Doing, InCode, At
      <3>7. Called(stack, "settle", n)
        BY <3>5, <3>6, SettleCalled
      <3> QED
        BY <1>0, <3>6, <3>7, EffectSettleOnTop
    <2> QED
      BY <1>1, <1>2, <2>1, <2>2, ValueStep
  <1> QED
    BY <1>1, <1>3, <1>4 DEF OwnSources, SourcesOf

LEMMA EffectsYieldStep ==
  ASSUME TypeInv, CallsInv, MarksInv, EffectsReady, ReadsExist', EffectRuns, EffectsYield,
         [Next]_vars
  PROVE  EffectsYield'
  <1>0. /\ StoreType /\ StackType(stack, depth) /\ app' = app /\ app \in App
        /\ shown \in [Node -> Value \cup {NoValue}]
    BY TypeInvParts, LinksOKStep DEF StoreType
  <1>1. SUFFICES ASSUME NEW n \in Node, IsEffect(n), Settled(n)'
        PROVE  Yields(app, n, OwnSources(n)', value', shown'[n])
    BY <1>0 DEF EffectsYield, IsEffect
  <1>2. n \in alive /\ (Settled(n) \/ (Return /\ n = Top.of))
    BY <1>1, EffectSettled
  <1>3. CASE Return /\ n = Top.of
    <2>1. /\ stack # <<>> /\ Top.op = "run" /\ Top.pc > Len(app.code[n])
          /\ UNCHANGED <<sources, app>> /\ value' = value
          /\ shown'[n] = Top.acc
      BY <1>0, <1>1, <1>3 DEF Return, At, Code, links, IsMemo, IsEffect
    <2>2. /\ Top \in TypedFrame /\ Contains(stack, Top) /\ Top.pc \in Nat \ {0} /\ Top.acc \in Value
      <3>1. Top \in TypedFrame /\ Contains(stack, Top)
        BY <1>0, <2>1, HeldFrames
      <3>2. Top.pc \in Nat /\ Top.pc >= 1 /\ Top.acc \in Value
        BY <3>1, FrameFields
      <3> QED
        BY <3>1, <3>2
    <2> DEFINE A == CleanOwn(n)
    <2>3. ComesTo(app, n, Top.pc, Top.acc, A, value)
      BY <1>1, <1>3, <2>1, <2>2 DEF EffectRuns, EffectRun
    <2>4. A \subseteq OwnSources(n)'
      BY <2>1 DEF CleanOwn, CleanSources, OwnSources, SourcesOf, ReadBy, DependsOn
    <2> HIDE DEF A
    <2>5. Yields(app, n, A, value, Top.acc)
      BY <2>1, <2>2, <2>3, ComesToEnd
    <2> DEFINE B == OwnSources(n)'
    <2>6. A \subseteq B /\ \A m \in A : value'[m] = value[m]
      BY <2>1, <2>4
    <2> HIDE DEF B
    <2>7. Yields(app, n, B, value', Top.acc)
      BY <2>5, <2>6, YieldsKept
    <2> QED
      BY <2>1, <2>7 DEF B
  <1>4. CASE Settled(n) /\ ~(Return /\ n = Top.of)
    <2>1. shown'[n] = shown[n]
      <3>1. CASE Return
        BY <1>0, <1>4, <3>1 DEF Return
      <3>2. CASE Mount
        BY <1>0, <1>2, <3>2 DEF Mount, Fresh
      <3>3. CASE ~Return /\ ~Mount
        BY <3>3 DEF Next, Step, Notify, CheckSource, CheckPassed, Update, Settle, FlushTake,
           FlushRun, FlushDone, GetStale, Get, Peek, Set, BuildBranch, BuildMounted, Jump,
           HandlerReturns, Dispose, DisposeChild, CallDispose, TakeCleanups, RunCleanup,
           DisposeNodes, Event, Dispatch, Rest, OnlyTheStack, ghosts, vars
      <3> QED
        BY <3>1, <3>2, <3>3
    <2> DEFINE A == OwnSources(n)
               B == OwnSources(n)'
    <2>2. A \subseteq B /\ \A m \in A : value'[m] = value[m]
      BY <1>1, <1>4, SettledSources
    <2>3. Yields(app, n, A, value, shown[n])
      BY <1>1, <1>4 DEF EffectsYield
    <2> HIDE DEF A, B
    <2>4. Yields(app, n, B, value', shown[n])
      BY <2>2, <2>3, YieldsKept
    <2> QED
      BY <2>1, <2>4 DEF B
  <1> QED
    BY <1>2, <1>3, <1>4

ShownInv ==
  /\ EffectsReady /\ QueuedEffects /\ PendingWaits
  /\ EffectRuns /\ EffectsYield

LEMMA ShownInit == Init => ShownInv
  <1> SUFFICES ASSUME Init PROVE ShownInv
    OBVIOUS
  <1>1. /\ Len(stack) = 1 /\ stack[1].op = "handler" /\ pending = <<>>
        /\ \A n \in alive : ~IsEffect(n)
    BY DEF Init, NewFrame
  <1>2. EffectRuns
    BY <1>1 DEF EffectRuns, EffectRun, Contains
  <1>3. EffectsYield
    BY <1>1 DEF EffectsYield, Settled
  <1> QED
    BY <1>1, <1>2, <1>3 DEF ShownInv, EffectsReady, QueuedEffects, PendingWaits

LEMMA ShownStep ==
  ASSUME TypeInv, CallsInv, MarksInv, Scoped, Tracking, EffectsInv, ScopesInv, ReadsExist', ShownInv,
         [Next]_vars
  PROVE  ShownInv'
  <1>1. TurnsInv /\ NoNewEffects /\ LivingLinks
    BY DEF EffectsInv, ScopesInv
  <1>2. EffectsReady' /\ QueuedEffects' /\ PendingWaits'
    BY <1>1, EffectsReadyStep, QueuedEffectsStep, PendingWaitsStep DEF ShownInv
  <1>3. EffectRuns' /\ EffectsYield'
    BY EffectRunsStep, EffectsYieldStep DEF ShownInv
  <1> QED
    BY <1>2, <1>3 DEF ShownInv

\* At rest: every effect has settled, and its sources hold their results.
LEMMA EffectsShow ==
  ASSUME TypeInv, CallsInv, CleanMemoIsCorrect, EffectsInv, ReadsExist, ShownInv
  PROVE  EffectsShowCurrentState
  <1>0. /\ StoreType /\ StackType(stack, depth) /\ app \in App /\ LinksOK /\ MemosReady
        /\ alive \subseteq Node /\ pending \in Seq(Node) /\ state \in [Node -> NodeState]
    BY TypeInvParts DEF CallsInv, StoreType
  <1>1. SUFFICES ASSUME agenda = <<>>, stack = <<>>, ~panicked
        PROVE  /\ pending = <<>> /\ depth = 0 /\ observer = None
               /\ \A n \in alive : IsEffect(n) => shown[n] = FreshResult(n)
    BY DEF EffectsShowCurrentState, Quiet
  <1>2. \A op, n : ~Called(stack, op, n)
    BY <1>1 DEF Called
  <1>3. pending = <<>>
    BY <1>1, <1>2 DEF ShownInv, PendingWaits, Batching, AwaitsRound
  <1>4. depth = 0
    BY <1>0, <1>1 DEF StackType, BatchAtBottom
  <1>5. observer = None
    BY <1>1 DEF CallsInv, Shape, Watching
  <1>6. ASSUME NEW n \in alive, IsEffect(n) PROVE shown[n] = Result[Point(n, 1, 0)]
    <2>1. state[n] = "Clean"
      <3>1. ~Contains(pending, n)
        BY <1>3, NothingListed
      <3>2. ~ToRun(stack, n)
        BY <1>1, NothingListed DEF ToRun
      <3> QED
        BY <1>2, <1>6, <3>1, <3>2 DEF ShownInv, QueuedEffects
    <2>2. Settled(n)
      <3>1. n \in ready
        BY <1>2, <1>6 DEF ShownInv, EffectsReady
      <3> QED
        BY <1>1, <2>1, <3>1, EmptyAgenda DEF Settled
    <2> DEFINE v == [m \in Node |-> IF IsSignal(m) THEN value[m] ELSE Result[Point(m, 1, 0)]]
    <2>3. Solves(app, n, v, Result)
      BY <1>0, ResultSolves
    <2>4. ASSUME NEW m \in OwnSources(n) PROVE v[m] = value[m]
      <3>1. m \in Node /\ DependsOn(n, m) /\ m \in alive /\ ~IsEffect(m)
        BY <1>0 DEF OwnSources, SourcesOf, ReadsExist, LinksOK
      <3>2. CASE IsSignal(m)
        BY <3>1, <3>2
      <3>3. CASE IsMemo(m)
        <4>1. state[m] = "Clean"
          BY <1>1, <1>6, <2>1, <3>1, EmptyAgenda DEF EffectsInv, StaleEffects, Marked
        <4>2. m \in ready
          BY <1>0, <1>2, <3>1, <3>3 DEF MemosReady
        <4>3. value[m] = Result[Point(m, 1, 0)]
          BY <1>1, <3>1, <3>3, <4>1, <4>2 DEF CleanMemoIsCorrect, FreshResult
        <4> QED
          BY <3>1, <3>3, <4>3 DEF IsSignal, IsMemo
      <3> QED
        BY <1>0, <3>1, <3>2, <3>3, AppAssumption DEF IsSignal, IsMemo, IsEffect
    <2> HIDE DEF v
    <2>5. Agree(OwnSources(n), v, value)
      BY <2>4 DEF Agree
    <2>6. Yields(app, n, OwnSources(n), value, shown[n])
      BY <1>0, <1>6, <2>2 DEF ShownInv, EffectsYield
    <2> QED
      BY <2>3, <2>5, <2>6 DEF Yields
  <1> QED
    BY <1>3, <1>4, <1>5, <1>6 DEF FreshResult

\* At rest the screen shows the application's state: the last run of every
\* effect returned what it would return from the current signals, nothing is
\* queued and no batch is open, whatever was written, built and disposed before.
THEOREM ReactiveEffectsShow == Spec => [](Scoped /\ Tracking => EffectsShowCurrentState)
  <1> DEFINE Inv == Scoped /\ Tracking => ShownInv
             Exist == Scoped => ReadsExist
  <1>1. Init => Inv
    BY ShownInit
  <1>2. /\ TypeInv /\ CallsInv /\ MarksInv /\ (Disciplined => EffectsInv) /\ (Scoped => ScopesInv)
        /\ Exist' /\ Inv /\ [Next]_vars
        => Inv'
    <2> SUFFICES ASSUME TypeInv, CallsInv, MarksInv, Disciplined => EffectsInv, Scoped => ScopesInv,
                        Exist', Inv, [Next]_vars, Scoped', Tracking'
                 PROVE  ShownInv'
      OBVIOUS
    <2>1. app' = app
      BY LinksOKStep
    <2>2. Scoped /\ Tracking
      BY <2>1, ScopedStays DEF Tracking, IsEffect
    <2> QED
      BY <2>2, ShownStep DEF Scoped
  <1>3. TypeInv /\ (Scoped => ScopesInv) => Exist
    BY ScopesReadsExist
  <1>4. /\ TypeInv /\ CallsInv /\ (Disciplined => EffectsInv) /\ Exist /\ Inv
        /\ (Scoped => CleanMemoIsCorrect)
        => (Scoped /\ Tracking => EffectsShowCurrentState)
    BY EffectsShow DEF Scoped
  <1> QED
    BY <1>1, <1>2, <1>3, <1>4, TypeInvHolds, ReactiveCalls, ReactiveMarks, ReactiveEffects,
       ReactiveScopes, ReactiveScopedMemos, PTL DEF Spec
=============================================================================
