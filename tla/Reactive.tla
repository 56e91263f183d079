------------------------------- MODULE Reactive -------------------------------
(***************************************************************************)
(* The fine-grained reactive runtime of Hayabusa, Hayabusa/src/reactive.rs:*)
(* signals, lazy memos and effects with automatic dependency tracking,     *)
(* batched flushes and owning scopes.  The runtime is single-threaded but  *)
(* re-entrant: a closure may read, write, create effects and dispose       *)
(* scopes while the runtime is in the middle of an update, a flush or a    *)
(* dispose.  The recursion of the code is an explicit stack of calls, so   *)
(* every point where user code runs is a state.                            *)
(*                                                                         *)
(* A user closure is a short program over an accumulator: reading adds to  *)
(* it, writing stores it.  The structural effects of instantiate.rs (:if,  *)
(* :each) are such programs; "build" stands for what they do with a branch *)
(* that is not mounted.  Values are numbers and the sink is left out.      *)
(***************************************************************************)
EXTENDS Integers, Sequences, SequencesExt

CONSTANTS
  Node,       \* signals, memos and effects of the application (NodeId)
  Scope,      \* owning scopes (ScopeId)
  Root,       \* the scope of the application
  Handler,    \* event handlers, branch builders and cleanup callbacks
  MaxValue,   \* values are 0 .. MaxValue
  App,        \* the applications to run; see AppAssumption
  Calls,      \* how the host calls handlers: "batch", "handler" (outside one)
  MaxEvents   \* bound on dispatched events

None == "none"

Value == 0..MaxValue

\* One instruction of a closure: read, read untracked, write, create an effect, mount a branch
\* unless it is mounted, dispose a branch, skip ahead when the accumulator is
\* zero, forget the accumulator, return.
Instr ==
  [do: {"get", "peek", "set", "mount", "build", "dispose", "ifzero", "clear",
        "return"},
   of: Node \cup Scope \cup {None}, skip: Nat]

\* What the handles let a closure do: only signals are written or read
\* untracked, an effect has no value to read, and the root has no parent.
WellTyped(a, i) ==
  /\ i.do = "get" => i.of \in Node /\ a.kind[i.of] # "effect"
  /\ i.do \in {"peek", "set"} => i.of \in Node /\ a.kind[i.of] = "signal"
  /\ i.do = "mount" => i.of \in Node /\ a.kind[i.of] = "effect"
  /\ i.do = "build" => i.of \in Scope \ {Root}
  /\ i.do = "dispose" => i.of \in Scope

\* A closure holds handles of nodes that were created before its own, and a
\* memo is a pure computation.
CodeOfNode(a, n, i) ==
  /\ i.do = "get" => a.order[i.of] < a.order[n]
  /\ a.kind[n] = "memo" => i.do \in {"get", "ifzero", "clear", "return"}

\* An application: its nodes, the order they are created in and who owns them,
\* the scope tree, the code of every node and handler, the handler that builds
\* each scope, the cleanups each scope registers, and the handlers a host can
\* dispatch to.
ASSUME AppAssumption ==
  \A a \in App :
    /\ a.kind \in [Node -> {"signal", "memo", "effect"}]
    /\ a.order \in [Node -> Nat]
    /\ a.owner \in [Node -> Scope]
    /\ a.parent \in [Scope \ {Root} -> Scope]
    /\ a.code \in [Node \cup Handler -> Seq(Instr)]
    /\ a.build \in [Scope -> Handler]
    /\ a.cleanups \in [Scope -> Seq(Handler)]
    /\ a.onEvent \subseteq Handler
    /\ \A x \in Node \cup Handler : \A k \in DOMAIN a.code[x] :
         WellTyped(a, a.code[x][k])
    /\ \A n \in Node : \A k \in DOMAIN a.code[n] : CodeOfNode(a, n, a.code[n][k])

ASSUME NamesAssumption ==
  /\ Root \in Scope
  /\ None \notin Node \cup Scope \cup Handler
  /\ Node \cap Scope = {} /\ Node \cap Handler = {} /\ Scope \cap Handler = {}

ASSUME BoundsAssumption == MaxEvents \in Nat /\ MaxValue \in Nat

ASSUME CallsAssumption == Calls \subseteq {"handler", "batch"}

NoValue == -1

VARIABLES
  app,        \* the application that runs
  state,      \* ReNode.state
  value,      \* ReNode.value
  sources,    \* ReNode.sources
  observers,  \* ReNode.observers
  ready,      \* nodes whose computation is in place, not taken out to run
  alive,      \* the existing nodes that are not disposed (ReNode.alive)
  scopes,     \* OwnerScope: alive, children and cleanups
  observer,   \* Inner.observer
  pending,    \* Inner.pending
  depth,      \* Inner.batch_depth
  agenda,     \* the calls notify() still has to make, depth first
  stack,      \* the other calls in progress, innermost first
  panicked,   \* a disposed node was read
  shown,      \* history: the result of each effect's last complete run
  runs,       \* history: how often each effect ran for the current event
  events,     \* history: events dispatched
  batched     \* history: whether the current event runs inside batch()

links == <<sources, observers>>
graph == <<state, value, links, ready, alive>>
ghosts == <<shown, runs, events, batched>>
vars == <<app, graph, scopes, observer, pending, depth, agenda, stack, panicked,
          ghosts>>

NodeState == {"Clean", "Check", "Dirty"}

Rank == [Clean |-> 0, Check |-> 1, Dirty |-> 2]

Mark == [node: Node, mark: {"Check", "Dirty"}]

\* A call in progress.  visit is update_if_necessary and settle its last line;
\* run is the closure of a node, handler and batch that of a handler, called
\* directly or through batch(); todo is what a loop has left to iterate.
Frame ==
  [op: {"flush", "visit", "settle", "run", "handler", "batch", "dispose"},
   of: Node \cup Scope \cup Handler \cup {None},
   pc: Nat, acc: Value, todo: Seq(Node \cup Scope \cup Handler),
   prev: Node \cup {None}]

NewFrame(op, of, todo) ==
  [op |-> op, of |-> of, pc |-> 1, acc |-> 0, todo |-> todo, prev |-> None]

ScopeRecord ==
  [alive: BOOLEAN, children: Seq(Scope), cleanups: Seq(Handler)]

TypeOK ==
  /\ app \in App
  /\ state \in [Node -> NodeState]
  /\ value \in [Node -> Value \cup {NoValue}]
  /\ sources \in [Node -> Seq(Node)]
  /\ observers \in [Node -> Seq(Node)]
  /\ ready \subseteq Node
  /\ alive \subseteq Node
  /\ scopes \in [Scope -> ScopeRecord]
  /\ observer \in Node \cup {None}
  /\ pending \in Seq(Node)
  /\ depth \in Nat
  /\ agenda \in Seq(Mark)
  /\ stack \in Seq(Frame)
  /\ panicked \in BOOLEAN
  /\ shown \in [Node -> Value \cup {NoValue}]
  /\ runs \in [Node -> Nat]
  /\ events \in Nat
  /\ batched \in BOOLEAN

IsSignal(n) == app.kind[n] = "signal"
IsMemo(n) == app.kind[n] = "memo"
IsEffect(n) == app.kind[n] = "effect"

Owned(s) == {n \in Node : app.owner[n] = s}

\* The branch scopes do not exist yet, and the root is about to be built.
Init ==
  /\ app \in App
  /\ state = [n \in Node |-> IF IsSignal(n) THEN "Clean" ELSE "Dirty"]
  /\ value = [n \in Node |-> IF IsSignal(n) THEN 0 ELSE NoValue]
  /\ sources = [n \in Node |-> <<>>]
  /\ observers = [n \in Node |-> <<>>]
  /\ ready = {n \in Owned(Root) : IsMemo(n)}
  /\ alive = {n \in Owned(Root) : ~IsEffect(n)}
  /\ scopes = [s \in Scope |->
                 [alive |-> s = Root, children |-> <<>>, cleanups |-> <<>>]]
  /\ observer = None
  /\ pending = <<>>
  /\ depth = 0
  /\ agenda = <<>>
  /\ stack = <<NewFrame("handler", app.build[Root], <<>>)>>
  /\ panicked = FALSE
  /\ shown = [n \in Node |-> NoValue]
  /\ runs = [n \in Node |-> 0]
  /\ events = 0
  /\ batched = FALSE

-----------------------------------------------------------------------------
(* The stack machine. *)

Top == Head(stack)
Below == Tail(stack)

\* The rest of a step that only moves the calls in progress.
OnlyTheStack ==
  UNCHANGED <<app, graph, scopes, observer, pending, depth, agenda, panicked,
              ghosts>>

\* The innermost call is of kind op and has the processor.
At(op) == ~panicked /\ agenda = <<>> /\ stack # <<>> /\ Top.op = op

\* Entering update_if_necessary(n) on top of the calls s; a Clean node returns
\* at once, and only a Check node goes through its sources.
Visit(n, s) ==
  CASE state[n] = "Clean" -> s
    [] state[n] = "Check" -> <<NewFrame("visit", n, sources[n])>> \o s
    [] state[n] = "Dirty" -> <<NewFrame("visit", n, <<>>)>> \o s

\* Mutant of Flush: a write inside a batch flushes as well.
FlushAlways(s) == <<NewFrame("flush", None, <<>>)>> \o s

\* What write() and batch() do last: flush unless inside a batch.
Flush(s) ==
  IF depth = 0 THEN <<NewFrame("flush", None, <<>>)>> \o s ELSE s

Marks(nodes, m) == [i \in 1..Len(nodes) |-> [node |-> nodes[i], mark |-> m]]

\* Vec::retain: what is left of seq, in its order, without the dead.
Living(seq, dead) ==
  LET kept[i \in 0..Len(seq)] ==
        IF i = 0 THEN <<>>
        ELSE IF seq[i] \in dead THEN kept[i - 1] ELSE Append(kept[i - 1], seq[i])
  IN kept[Len(seq)]

Without(seq, n) == Living(seq, {n})

\* An effect that was Clean is queued, whatever it is marked.
Queues(n, m) == IsEffect(n) /\ state[n] = "Clean"

\* Mutant of Onward: the mark stops at the direct observers.
OnwardNowhere(n) == <<>>

Onward(n) == Marks(observers[n], "Check")

\* notify(): raise the mark and go on to the observers, unless it is that high.
Notify ==
  /\ ~panicked /\ agenda # <<>>
  /\ LET n == Head(agenda).node
         m == Head(agenda).mark
     IN IF Rank[state[n]] >= Rank[m]
        THEN agenda' = Tail(agenda) /\ UNCHANGED <<state, pending>>
        ELSE /\ agenda' = Onward(n) \o Tail(agenda)
             /\ state' = [state EXCEPT ![n] = m]
             /\ pending' = IF Queues(n, m) THEN Append(pending, n) ELSE pending
  /\ UNCHANGED <<app, value, links, ready, alive, scopes, observer, depth,
                 stack, panicked, ghosts>>

-----------------------------------------------------------------------------
(* update_if_necessary and update. *)

\* A Check node brings its sources up to date, until one makes it Dirty.
CheckSource ==
  /\ At("visit") /\ state[Top.of] # "Dirty" /\ Top.todo # <<>>
  /\ stack' = Visit(Head(Top.todo), <<[Top EXCEPT !.todo = Tail(@)]>> \o Below)
  /\ OnlyTheStack

\* None of the sources did: the node is up to date after all.
CheckPassed ==
  /\ At("visit") /\ state[Top.of] # "Dirty" /\ Top.todo = <<>>
  /\ state' = [state EXCEPT ![Top.of] = "Clean"]
  /\ stack' = Below
  /\ UNCHANGED <<app, value, links, ready, alive, scopes, observer, pending,
                 depth, agenda, panicked, ghosts>>

\* Mutant of Unlinked: the node forgets its sources, they remember it.
UnlinkedOneWay(n) ==
  /\ sources' = [sources EXCEPT ![n] = <<>>]
  /\ observers' = observers

\* update() drops the dependencies of the previous run.
Unlinked(n) ==
  /\ sources' = [sources EXCEPT ![n] = <<>>]
  /\ observers' = [m \in Node |->
                     IF Contains(sources[n], m) THEN Without(observers[m], n)
                     ELSE observers[m]]

Update ==
  /\ At("visit") /\ state[Top.of] = "Dirty"
  /\ LET n == Top.of
         settle == <<NewFrame("settle", n, <<>>)>> \o Below
     IN /\ Unlinked(n)
        /\ IF n \in ready
           THEN /\ ready' = ready \ {n}
                /\ observer' = n
                /\ stack' = <<[NewFrame("run", n, <<>>) EXCEPT !.prev = observer]>>
                            \o settle
                /\ runs' = [runs EXCEPT ![n] = @ + 1]
           ELSE /\ stack' = settle
                /\ UNCHANGED <<ready, observer, runs>>
  /\ UNCHANGED <<app, state, value, alive, scopes, pending, depth, agenda,
                 panicked, shown, events, batched>>

Code == app.code[Top.of]

\* Mutant of Woken: a changed memo leaves its observers at Check.
WokenSoftly(n) == Marks(observers[n], "Check")

Woken(n) == Marks(observers[n], "Dirty")

\* The closure returns: a memo whose value changed marks its observers Dirty.
Return ==
  /\ At("run") /\ Top.pc > Len(Code)
  /\ LET n == Top.of
     IN /\ ready' = ready \cup {n}
        /\ observer' = Top.prev
        /\ IF IsMemo(n) /\ value[n] # Top.acc
           THEN /\ value' = [value EXCEPT ![n] = Top.acc]
                /\ agenda' = Woken(n)
           ELSE UNCHANGED <<value, agenda>>
        /\ shown' = IF IsEffect(n) THEN [shown EXCEPT ![n] = Top.acc] ELSE shown
  /\ stack' = Below
  /\ UNCHANGED <<app, state, links, alive, scopes, pending, depth, panicked,
                 runs, events, batched>>

\* The mark is reset after the update, whatever it was raised to meanwhile.
Settle ==
  /\ At("settle")
  /\ state' = [state EXCEPT ![Top.of] = "Clean"]
  /\ stack' = Below
  /\ UNCHANGED <<app, value, links, ready, alive, scopes, observer, pending,
                 depth, agenda, panicked, ghosts>>

-----------------------------------------------------------------------------
(* flush. *)

\* Mutant of FlushTake: the queue is copied, not taken.
FlushCopy ==
  /\ At("flush") /\ Top.todo = <<>> /\ pending # <<>>
  /\ stack' = <<[Top EXCEPT !.todo = pending]>> \o Below
  /\ OnlyTheStack

\* The queue is taken as a whole; effects queued meanwhile wait for the next
\* round.
FlushTake ==
  /\ At("flush") /\ Top.todo = <<>> /\ pending # <<>>
  /\ stack' = <<[Top EXCEPT !.todo = pending]>> \o Below
  /\ pending' = <<>>
  /\ UNCHANGED <<app, graph, scopes, observer, depth, agenda, panicked,
                 ghosts>>

FlushRun ==
  /\ At("flush") /\ Top.todo # <<>>
  /\ LET n == Head(Top.todo)
         rest == <<[Top EXCEPT !.todo = Tail(@)]>> \o Below
     IN stack' = IF n \in alive THEN Visit(n, rest) ELSE rest
  /\ OnlyTheStack

FlushDone ==
  /\ At("flush") /\ Top.todo = <<>> /\ pending = <<>>
  /\ stack' = Below
  /\ OnlyTheStack

-----------------------------------------------------------------------------
(* What user code does. *)

InCode == At("run") \/ At("handler") \/ At("batch")

Doing(i) == InCode /\ Top.pc <= Len(Code) /\ Code[Top.pc].do = i

Arg == Code[Top.pc].of

Skipping(k) == [Top EXCEPT !.pc = @ + 1 + k]

Advanced == <<Skipping(0)>> \o Below

\* link(): the running node, if any, now depends on the node it reads.
Linked(n) ==
  IF observer = None \/ Contains(sources[observer], n)
  THEN UNCHANGED links
  ELSE /\ sources' = [sources EXCEPT ![observer] = Append(@, n)]
       /\ observers' = [observers EXCEPT ![n] = Append(@, observer)]

\* read() of a stale memo brings it up to date first.
GetStale ==
  /\ Doing("get") /\ state[Arg] # "Clean"
  /\ Linked(Arg)
  /\ stack' = Visit(Arg, stack)
  /\ UNCHANGED <<app, state, value, ready, alive, scopes, observer, pending,
                 depth, agenda, panicked, ghosts>>

Add(v, w) == (v + w) % (MaxValue + 1)

Get ==
  /\ Doing("get") /\ state[Arg] = "Clean"
  /\ Linked(Arg)
  /\ IF value[Arg] = NoValue
     THEN panicked' = TRUE /\ UNCHANGED stack
     ELSE /\ stack' = <<[Skipping(0) EXCEPT !.acc = Add(@, value[Arg])]>> \o Below
          /\ UNCHANGED panicked
  /\ UNCHANGED <<app, state, value, ready, alive, scopes, observer, pending,
                 depth, agenda, ghosts>>

\* read_untracked(), for handlers that derive the next value of a signal.
Peek ==
  /\ Doing("peek")
  /\ IF value[Arg] = NoValue
     THEN panicked' = TRUE /\ UNCHANGED stack
     ELSE /\ stack' = <<[Skipping(0) EXCEPT !.acc = Add(@, value[Arg])]>> \o Below
          /\ UNCHANGED panicked
  /\ UNCHANGED <<app, graph, scopes, observer, pending, depth, agenda, ghosts>>

\* write(): an equal value changes nothing.
Set ==
  /\ Doing("set")
  /\ IF value[Arg] = Top.acc
     THEN stack' = Advanced /\ UNCHANGED <<value, agenda>>
     ELSE /\ value' = [value EXCEPT ![Arg] = Top.acc]
          /\ agenda' = Marks(observers[Arg], "Dirty")
          /\ stack' = Flush(Advanced)
  /\ UNCHANGED <<app, state, links, ready, alive, scopes, observer, pending,
                 depth, panicked, ghosts>>

\* Nothing refers to n, so a new node may take its name.
Fresh(n) ==
  /\ n \notin alive
  /\ n \notin {observer} \cup Range(pending)
  /\ \A m \in Node : ~Contains(sources[m], n) /\ ~Contains(observers[m], n)
  /\ \A i \in DOMAIN stack :
       n # stack[i].of /\ n # stack[i].prev /\ ~Contains(stack[i].todo, n)

\* effect(): the new effect runs at once.
Mount ==
  /\ Doing("mount") /\ Fresh(Arg)
  /\ alive' = alive \cup {Arg}
  /\ ready' = ready \cup {Arg}
  /\ state' = [state EXCEPT ![Arg] = "Dirty"]
  /\ shown' = [shown EXCEPT ![Arg] = NoValue]
  /\ runs' = [runs EXCEPT ![Arg] = 0]
  /\ stack' = <<NewFrame("visit", Arg, <<>>)>> \o Advanced
  /\ UNCHANGED <<app, value, links, scopes, observer, pending, depth, agenda,
                 panicked, events, batched>>

\* A branch that is not mounted gets a scope of its own with its signals, which
\* start from the accumulator, and its memos; then its body is built.
BuildBranch ==
  /\ Doing("build") /\ ~scopes[Arg].alive
  /\ LET s == Arg
         new == {n \in Owned(s) : ~IsEffect(n)}
     IN /\ \A n \in new : Fresh(n)
        /\ alive' = alive \cup new
        /\ ready' = ready \cup {n \in new : IsMemo(n)}
        /\ state' = [n \in Node |->
                       IF n \notin new THEN state[n]
                       ELSE IF IsSignal(n) THEN "Clean" ELSE "Dirty"]
        /\ value' = [n \in Node |->
                       IF n \notin new THEN value[n]
                       ELSE IF IsSignal(n) THEN Top.acc ELSE NoValue]
        /\ scopes' = [t \in Scope |->
                        IF t = s THEN [alive |-> TRUE, children |-> <<>>,
                                       cleanups |-> app.cleanups[s]]
                        ELSE IF t # app.parent[s] THEN scopes[t]
                        ELSE [scopes[t] EXCEPT !.children = Append(@, s)]]
        /\ stack' = <<NewFrame("handler", app.build[s], <<>>)>> \o Advanced
  /\ UNCHANGED <<app, links, observer, pending, depth, agenda, panicked,
                 ghosts>>

BuildMounted ==
  /\ Doing("build") /\ scopes[Arg].alive
  /\ stack' = Advanced
  /\ OnlyTheStack

Jump ==
  /\ \/ /\ Doing("ifzero")
        /\ stack' = <<Skipping(IF Top.acc = 0 THEN Code[Top.pc].skip ELSE 0)>>
                    \o Below
     \/ /\ Doing("return")
        /\ stack' = <<Skipping(Len(Code))>> \o Below
     \/ /\ Doing("clear")
        /\ stack' = <<[Skipping(0) EXCEPT !.acc = 0]>> \o Below
  /\ OnlyTheStack

\* Mutant of LeftBatch: every handler counts as a batch when it returns.
LeftBatchAlways(op) == depth - 1

LeftBatch(op) == IF op = "batch" THEN depth - 1 ELSE depth

\* A handler returns; the outermost batch() flushes.
HandlerReturns ==
  /\ At("handler") \/ At("batch")
  /\ Top.pc > Len(Code)
  /\ depth' = LeftBatch(Top.op)
  /\ stack' = IF Top.op = "batch" /\ depth' = 0
              THEN <<NewFrame("flush", None, <<>>)>> \o Below ELSE Below
  /\ UNCHANGED <<app, graph, scopes, observer, pending, agenda, panicked,
                 ghosts>>

-----------------------------------------------------------------------------
(* dispose_scope. *)

DisposeFrame(s) == NewFrame("dispose", s, scopes[s].children)

\* Calling dispose_scope(s) above rest: a dead scope returns at once, a live
\* one gives up its list of children and goes through it.
CallDispose(s, rest) ==
  /\ IF scopes[s].alive
     THEN /\ scopes' = [scopes EXCEPT ![s].children = <<>>]
          /\ stack' = <<DisposeFrame(s)>> \o rest
     ELSE stack' = rest /\ UNCHANGED scopes
  /\ UNCHANGED <<app, graph, observer, pending, depth, agenda, panicked,
                 ghosts>>

Dispose == Doing("dispose") /\ CallDispose(Arg, Advanced)

DisposeChild ==
  /\ At("dispose") /\ Top.pc = 1 /\ Top.todo # <<>>
  /\ CallDispose(Head(Top.todo), <<[Top EXCEPT !.todo = Tail(@)]>> \o Below)

\* Then it gives up its cleanups, to be called last in, first out.
TakeCleanups ==
  /\ At("dispose") /\ Top.pc = 1 /\ Top.todo = <<>>
  /\ stack' = <<[Top EXCEPT !.pc = 2, !.todo = Reverse(scopes[Top.of].cleanups)]>>
              \o Below
  /\ scopes' = [scopes EXCEPT ![Top.of].cleanups = <<>>]
  /\ UNCHANGED <<app, graph, observer, pending, depth, agenda, panicked,
                 ghosts>>

RunCleanup ==
  /\ At("dispose") /\ Top.pc = 2 /\ Top.todo # <<>>
  /\ stack' = <<NewFrame("handler", Head(Top.todo), <<>>),
                [Top EXCEPT !.todo = Tail(@)]>> \o Below
  /\ OnlyTheStack

\* Mutant of Dying: effects are not owned by their scope.
DyingButEffects(s) == {n \in Owned(s) \cap alive : ~IsEffect(n)}

Dying(s) == Owned(s) \cap alive

\* Last, its nodes lose their computation, value and links, and the parent
\* scope forgets it.
DisposeNodes ==
  /\ At("dispose") /\ Top.pc = 2 /\ Top.todo = <<>>
  /\ LET s == Top.of
         dead == Dying(s)
         Unless(dying, f) == [n \in Node |-> IF n \in dead THEN dying ELSE f[n]]
     IN /\ alive' = alive \ dead
        /\ ready' = ready \ dead
        /\ state' = Unless("Clean", state)
        /\ value' = Unless(NoValue, value)
        /\ sources' = Unless(<<>>, [n \in Node |-> Living(sources[n], dead)])
        /\ observers' = Unless(<<>>, [n \in Node |-> Living(observers[n], dead)])
        /\ scopes' = [t \in Scope |->
                       [scopes[t] EXCEPT
                          !.alive = @ /\ t # s,
                          !.children = IF s # Root /\ t = app.parent[s]
                                       THEN Without(@, s) ELSE @]]
  /\ stack' = Below
  /\ UNCHANGED <<app, observer, pending, depth, agenda, panicked, ghosts>>

-----------------------------------------------------------------------------

\* The host dispatches an event with a payload: Instance::click and input run
\* the handler inside batch(), other callers of the runtime need not.
Dispatch(h, payload, op) ==
  /\ ~panicked
  /\ agenda = <<>> /\ stack = <<>>
  /\ events < MaxEvents
  /\ stack' = <<[NewFrame(op, h, <<>>) EXCEPT !.acc = payload]>>
  /\ depth' = IF op = "batch" THEN depth + 1 ELSE depth
  /\ runs' = [n \in Node |-> 0]
  /\ events' = events + 1
  /\ batched' = (op = "batch")
  /\ UNCHANGED <<app, graph, scopes, observer, pending, agenda, panicked,
                 shown>>

Event ==
  \E h \in app.onEvent, payload \in Value, op \in Calls :
    Dispatch(h, payload, op)

Step ==
  \/ Notify \/ CheckSource \/ CheckPassed \/ Update \/ Return \/ Settle
  \/ FlushTake \/ FlushRun \/ FlushDone
  \/ GetStale \/ Get \/ Peek \/ Set \/ Mount \/ BuildBranch \/ BuildMounted \/ Jump
  \/ HandlerReturns
  \/ Dispose \/ DisposeChild \/ TakeCleanups \/ RunCleanup \/ DisposeNodes

\* The application rests between two events, or for ever after a panic.
Rest ==
  /\ panicked \/ (agenda = <<>> /\ stack = <<>> /\ events = MaxEvents)
  /\ UNCHANGED vars

Next == Step \/ Event \/ Rest

Spec == Init /\ [][Next]_vars

\* A call that was made goes on.
FairSpec == Spec /\ WF_vars(Step)

-----------------------------------------------------------------------------
(* Properties. *)

\* A point of a computation: node n comes to instruction pc with acc.
Points == [node: Node, pc: Nat \ {0}, acc: Value]

Point(n, pc, acc) == [node |-> n, pc |-> pc, acc |-> acc]

\* The reference: what a closure returns when it reads the signals as they are
\* now, without caches, marks or links.  The memos are acyclic.
Result[p \in Points] ==
  LET code == app.code[p.node]
      i == code[p.pc]
      Later(k, acc) == Result[Point(p.node, p.pc + 1 + k, acc)]
      Read(m) == IF IsSignal(m) THEN value[m] ELSE Result[Point(m, 1, 0)]
  IN IF p.pc > Len(code) THEN p.acc
     ELSE CASE i.do = "get" -> Later(0, Add(p.acc, Read(i.of)))
          [] i.do = "ifzero" -> Later(IF p.acc = 0 THEN i.skip ELSE 0, p.acc)
          [] i.do = "return" -> p.acc
          [] i.do = "clear" -> Later(0, 0)
          [] OTHER -> Later(0, p.acc)

FreshResult(n) == Result[Point(n, 1, 0)]

Quiet == agenda = <<>> /\ stack = <<>> /\ ~panicked

\* Both directions of every link agree, and no link is there twice.
LinksAgree ==
  \A m, n \in Node :
    /\ Contains(sources[m], n) <=> Contains(observers[n], m)
    /\ IsInjective(sources[m]) /\ IsInjective(observers[m])

\* The dependency graph stays consistent while effects create and dispose scopes
\* in the middle of a flush: both directions of every link agree, no dead node is
\* linked, a disposed scope leaves nothing of its own behind, and a scope
\* outlives its parent only while a dispose is in progress.
GraphIsConsistent ==
  /\ LinksAgree
  /\ \A n \in Node \ alive : sources[n] = <<>> /\ observers[n] = <<>>
  /\ \A s \in Scope : ~scopes[s].alive => Owned(s) \cap alive = {}
  /\ \A s \in Scope \ {Root} :
       scopes[s].alive /\ ~scopes[app.parent[s]].alive =>
         \E i \in DOMAIN stack : stack[i].op = "dispose"

\* Whenever no mark is in flight, a memo marked Clean holds what its
\* computation would return from the current signals: no reader, in whatever
\* order the graph is pulled and however calls nest, sees a mixture of old and
\* new inputs.
CleanMemoIsCorrect ==
  agenda = <<>> /\ ~panicked =>
    \A n \in alive \cap ready :
      IsMemo(n) /\ state[n] = "Clean" => value[n] = FreshResult(n)

\* At rest the screen shows the application's state: the last run of every
\* effect returned what it would return from the current signals.
EffectsShowCurrentState ==
  Quiet =>
    /\ pending = <<>> /\ depth = 0 /\ observer = None
    /\ \A n \in alive : IsEffect(n) => shown[n] = FreshResult(n)

\* No closure reads a disposed node, whatever is torn down while it waits.
NoDisposedRead == ~panicked

\* The doc comment of batch: an effect runs once per event.
OncePerEvent ==
  batched => \A n \in Node : IsEffect(n) => runs[n] <= 1

\* Only the handlers of events write: no effect, memo, branch or cleanup does.
OnlyHandlersWrite ==
  \A x \in (Node \cup Handler) \ app.onEvent :
    \A k \in DOMAIN app.code[x] : app.code[x][k].do # "set"

\* The handlers of events read and write, and build nothing.
HandlersOnlyWrite ==
  \A h \in app.onEvent :
    /\ h \notin Range(app.build) \cup UNION {Range(app.cleanups[s]) : s \in Scope}
    /\ \A k \in DOMAIN app.code[h] :
         app.code[h][k].do \notin {"mount", "build", "dispose"}

\* The writes of an event's batch are flushed together: where only handlers
\* write, and only write, no effect runs twice for one event, however many of
\* its sources the handler wrote and whatever it read in between.
OncePerBatch == OnlyHandlersWrite /\ HandlersOnlyWrite => OncePerEvent

\* Every event is processed to the end.
Settles == []<>(stack = <<>> \/ panicked)
=============================================================================
