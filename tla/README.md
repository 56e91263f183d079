# TLA+ models of HayateProjects

HayateProjects is a UI stack in Rust and TypeScript:

- **Hayate** (`src/Hayate`): a retained element tree with layout, text, input and
  animation (`crates/core`), a compositor and scene renderers
  (`crates/scene-renderers`), App Hosts for desktop, Android and the Web
  (`crates/app-host`, `crates/platform`, `host`).
- **Hayabusa** (`src/Hayabusa`): a component language with a fine-grained
  reactive runtime, mounted on an App Host.
- **Tsubame** (`src/Tsubame`): adapters of two other UI frameworks and a
  renderer that drives Hayate from a page.
- **Torimi** (`src/Torimi`): a development client that loads programs from a
  development server.

This directory models the parts of it whose correctness depends on order:
threads that share a queue or a mailbox, a Worker and the main thread, promise
reactions and frame callbacks, re-entrant updates of a dependency graph, facts
that are recorded now and used frames later, failures in the middle of a
transaction. `PROJECT.json` holds the machine-readable side: the components, the
runs, the source lines of every definition, one mutant per checked property, the
findings, the hazards and the theorems.

- [Results](#results)
- [Components](#components)
- [How they interact](#how-they-interact)
- [The modules](#the-modules)
- [The runs](#the-runs)
- [The proofs](#the-proofs)
- [Findings](#findings)
- [What is not modelled](#what-is-not-modelled)
- [Plan](#plan)
- [Running it](#running-it)

## Results

| Part | Modules | Model-checked | Proved for every value of the constants |
|---|---|---|---|
| frame pipeline, native Raster thread | `FramePipeline`, `FrameHandoff`, `RasterThread` | 4 invariants, 1 refinement, 2 liveness properties | those 4 invariants, 4 more, and the refinement |
| Web Worker engine | `WorkerEngine` | 3 invariants, 1 refinement, 3 liveness properties | the 3 invariants and the refinement |
| Hayabusa reactive runtime | `Reactive` | 6 invariants, 1 liveness property | the 6 invariants, and the links, calls, marks and scopes they rest on |
| Hayabusa dynamic blocks | `DynamicBlocks` | 3 invariants, 1 action property | the 3 invariants and the action property |
| layered painting | `LayerTree`, `CompositingLayers`, `LayerPresentation`, `LayerFrames` | 5 invariants, 1 action property, 1 liveness property | 4 invariants, the action property, the type invariant, and that core and compositor meet at one contract |
| frame loop of a page, fonts | `FontFetch`, `FrameLoop` | 3 invariants, 1 liveness property | the 3 invariants and the type invariant |
| Android front and its accessibility session | `NativeAccessibility`, `AndroidFront` | 3 invariants, 1 liveness property | the 3 invariants and the type invariant |

The proofs are in `BacklogProofs` (lemmas about the pipeline that both of its
adapters use), `RasterThreadProofs`, `WorkerEngineProofs`, `ReactiveProofs`,
`ReactiveEffectsProofs` (effects and scopes, on top of the former),
`DynamicBlocksProofs`, `LayerFramesProofs` and `FrontProofs` (the frame loop and
the Android front).

Five statements of comments and documents of the repository do not hold of its
code; each has a run with a counterexample (see [Findings](#findings)).

## Components

Sources are under `src/`. Core paths are shortened: `hc/` is
`Hayate/crates/`.

### Modelled

**Frame pipeline**: `hc/frame-pipeline/src/lib.rs`. Keeps a queue of pending
commands, whether one is active, four counters and a terminal-failure flag.
Operations: `admit`, `start_next`, `complete_active`, `fail`. A frame replaces a
frame at the back of the queue and takes over its dirty facts; a lifecycle
command (a *barrier*) is never coalesced and never overtaken. Hard: a
superseded frame is dropped but its changes must not be. Correct when what is
executed is a faithful merge of what was accepted.

**Native Raster thread**: `hc/scene-renderers/compositor/src/raster_thread.rs`.
A mutex over the pipeline and a `closed` flag, a condition variable, one worker.
Operations: `send` (UI thread), the worker loop, `shutdown`/`Drop`. Hard: lost
wake-ups, shutdown against a sleeping, busy, failed or unwound worker, failure
with commands pending. Correct when it hands commands over as promised, never
sleeps on work and shutdown returns with everything driven.

**Hayabusa reactive runtime**: `Hayabusa/src/reactive.rs`. State: nodes with
their mark, value, links and closure; owning scopes; the running observer; the
pending effects; the batch depth. Operations: `read`, `read_untracked`,
`write`, `batch`, `effect`, `memo`, `create_scope`, `dispose_scope`. Hard: all of
it is re-entrant. A closure reads, writes, creates and disposes in the middle
of an update, a flush or a dispose.

**Layer presentation**: `hc/scene-renderers/compositor/src/layer_presentation.rs`
and the layer cache of `lib.rs`, with the Skia and Vello adapters. A ledger says
which layer textures are current; the textures are in the adapter. A frame is
prepared against the ledger, rasterised job by job, composited, then committed;
facts accumulate until a frame succeeds. Hard: any job or the composite may fail
half-way, the budget or a memory signal evicts, a lost surface takes everything
away, and placements and scroll bands are reused from earlier frames. Correct
when every composite shows all that its frame draws, as it looks now, and what
else it shows is an element promoted out of a layer (see the observations).

**Native accessibility session**: `hc/app-host/src/native_accessibility.rs`, with
its target and Java bridge on Android
(`hc/platform/mobile/android/src/android_accessibility.rs`,
`AndroidAccessibilityBridge.kt`). State: dormant, waiting to send a whole tree,
or active with the nodes last sent as the baseline of the next difference; a
mailbox another thread fills. Hard: the screen reader asks, acts and leaves on
its own thread while a frame is between draining the mailbox and sending; the
target may refuse; the tree may be replaced. Correct when the differences fit
what the reader has and it is current whenever the loop rests.

**Surface lifecycle and frame schedule**: `hc/core/src/surface_lifecycle.rs`,
`hc/platform/mobile/android/src/{surface_lifecycle,frame_schedule,app_tsubame}.rs`.
The main loop of the Android front: windows created and destroyed under it, one
armed vsync callback, a looper other threads wake, a Raster thread and a session
mounted on each window. Hard: a request that arrives between the drain and
sleep. Correct when no request waits for a loop that sleeps.

### Partly modelled

**Web Worker engine**: `Hayate/host/src/worker-{host,boot,entry,engine}.ts`,
`hc/platform/web/src/worker_engine.rs`. State on main: the shim's connection,
the ready promise, requests waiting for an answer. In the Worker: the promise
chain of messages, the engine or none, its pipeline, the completion promise in
flight, the requested frame callback, the detach waiter. Hard: handlers,
promise reactions and frame callbacks interleave at every `await`; failure in
each of them; a detach during boot, after failure, with frames in flight, and a
timer that gives up on it. Left out: what a commit contains.

**Hayabusa dynamic blocks and host**: `Hayabusa/src/{instantiate,app_host,sink}.rs`.
State: the child slots of a parent, the rows of each block, the recorded
mutation log, the click targets, the App Host's tree and queue of deliveries.
Operations: `mount_if`, `reconcile_each`, `click`, `handle` with its drain. Hard:
each block finds its place from slots that other blocks of the same flush may
not have updated; keys that repeat; rows mounted after listeners were
registered. Left out: components, nested templates, value bindings.

**App Host frame transaction**: `hc/app-host/src/{lib,font_mailbox}.rs`,
`hc/core/src/element/font_fetch.rs`, `hc/platform/web/src/canvas.rs`.
`prepare_frame` drains mailboxes and polls deliveries, the application handles
them, then `commit_frame` or `abort_frame`. Hard: a result that arrives when no
frame is coming; a frame that fails after it has drained. Correct when nothing
drained is forgotten and a frame is asked for while work remains. Left out: the
native `AppHost::tick`.

**Tsubame renderers and protocol**: `Tsubame/packages/*`. Modelled is
`renderer-hayate/src/hayate-renderer.ts`: its on-demand loop, its mutation
queue, and painters that draw at a size the layout tells them a frame later.

**Element tree, layout and scene building**: `hc/core/src/element`. Modelled is
how setters mark the tree, which elements are layers, and how `render()` turns
marks into the facts of a frame. Layout, text, emission of scenes and hit
testing are not.

### Not modelled

**Render host and renderer selection** (`hc/app-host/src/render_host.rs`), a
one-way chain of fallbacks; **resource residency**
(`hc/scene-renderers/compositor/src/resource_residency.rs`), two pools under
budgets with watermarks; **editing, IME and gestures**; **scene renderers**;
**Torimi**; the **Hayabusa parser and code generator**; **generated and vendored
code**. See [What is not modelled](#what-is-not-modelled).

## How they interact

```
 application ----> FrameLoop (page) ----- mutations, sizes, fonts ----+
 Hayabusa program                                                     |
   write/batch -> Reactive -> effects -> mutation log (DynamicBlocks) |
                                            | handle()                |
                                            v                         v
 input, screen reader --> AndroidFront --> element tree: setters, marks, layers
                             ^                     | render()  (CompositingLayers)
                             | full trees,         v
                             | differences    committed frame + facts
                             +--------------       | `Announced`
                                                   v
                              FramePipeline in an adapter
                               |                     |
                    RasterThread (native)   WorkerEngine (Web)
                               |                     |
                               +--> LayerPresentation: ledger, textures
```

- A commit of the core is a frame with its facts: which layers' content or
  chrome changed, whether placements did. `LayerPresentation` holds under any
  core whose facts satisfy `Announced`; `LayerFramesProofs` proves that
  `CompositingLayers` does. The two halves meet at that one contract.
- Between them frames may coalesce. `RasterThread` and `WorkerEngine` drive the
  policy of `FramePipeline`, and `FrameHandoff` states what ADR-0157 promises of
  either: served frames are the union of the facts of a run. There `Commit` (a
  constant) is any set of commits; in `LayerFrames` `Offer` adds up the facts of
  frames committed before one present.
- Presentation succeeds or fails; that is all the adapters and `AndroidFront`
  see of it.
- `FrameLoop` and `AndroidFront` are two fronts of the same core. Each decides
  when a frame runs, and each drains what others left for it first.
- Hayabusa's blocks are effects of the reactive runtime. `Reactive` checks the
  runtime with closures of the shape the blocks have; `DynamicBlocks` takes the
  runtime as given (a changed signal notifies the blocks that read it, each
  runs once per batch) and checks what the blocks build.

## The modules

### FramePipeline

No variables. A pipeline is a record and a method is an operator from pipeline
to pipeline: `Admit` (with its three cases `Reject`, `MergeIntoBack`,
`PushBack`), `StartNext`, `CompleteActive`, `Fail`. `ReplaceWithLatest` is
`FrameSubmission::replace_with_latest`. A frame keeps the identity of its scene,
its layers, the five changed sets, the dirty mark of each scroll input and the
continuation flag: everything coalescing can lose. Geometry travels with the
scene. Barriers are a constant. Counters, `u64` and saturating in the code, are
naturals: an adapter would have to accept 2^64 commands to tell.

### FrameHandoff

The abstract specification. There is no queue policy in it: every accepted
command is outstanding until it is served, and `Serve` takes the barrier at the
head or the *whole* run of frames up to the next barrier. `Merged` defines what
is served for a run directly (the last scene, the union of all changes), not by
iterating the merge. `Spec` is for an adapter with a thread; `TurnSpec` adds the
two steps of an adapter that starts a command within the turn that accepts or
completes one.

### RasterThread

One action per critical section. `worker` and `owner` are the program counters
of the Raster thread and of a UI thread in `shutdown`.

| Action | Code |
|---|---|
| `SendFrame`, `SendBarrier` | `send`, accepted: admit and `notify_one` under the lock |
| `SendAfterFailure`, `SendAfterShutdown` | its two early returns |
| `Take`, `Exit`, `Wait` | the three ways through the worker's locked loop |
| `SpuriousWake` | what a condition variable may do |
| `DriveSucceeds`, `DriveFails`, `DrivePanics` | the sink, without the lock |
| `ShutdownClose`, `ShutdownNotify`, `ShutdownJoin` | `closed` is set under the lock, the notification and the join come after it |

`log`, `spans`, `started` and `refused` are history: the accepted commands
uncoalesced, the interval of `log` each pending entry stands for, and two counts.
No action reads them for a decision except for the bound `MaxSends`.

### WorkerEngine

A JavaScript turn (a message handler, a promise reaction, a frame callback) is
one action with every call into the engine it makes. `chain` is the promise
chain of `worker-entry.ts`: idle, awaiting boot, awaiting a detach waiter, or
released by it; while it awaits, reactions and callbacks still run. `Drive` is
the tail of every turn (`start_admitted` and `drive`). A handler that throws
posts a `runtime-failure`; a reaction or a callback that throws posts nothing,
as in the code.

Six kinds of message that commit a frame are one kind, two that answer a
promise are one kind, since the Worker treats each group alike; mutations only
change what the next commit contains.

### Reactive

The recursion of the code is an explicit `stack` of calls, so that every point
at which user code runs is a state. `agenda` is what is left of a (recursive,
uninterruptible) `notify`. A closure is a short program over an accumulator:
read, read untracked, write, create an effect, build or dispose a branch, jump.
Structural effects of `instantiate.rs` are such programs. Applications are a
constant; `MCReactive` gives them.

`Fresh` lets a new node take the name of a disposed one only when nothing refers
to it any more: the code never reuses an index, and a bounded model must.

### DynamicBlocks

One parent with a list of slots: static elements, `:if`, keyed `:each`. `Build`
and `Flush` run one block at a time; a block's effect only appends to `log`;
`HandleBegins`, `RouteClick` and `HandleReturns` are `HayabusaApp::handle`, and
`Drained` applies the log with the tree's own rules (unknown elements are
ignored, an element leaves its old place before it is inserted). Which values an
application writes is any choice from the bounded sets. `distinct` is a ghost:
no list so far repeated a key. `TreeShowsModel` and `RowsAreKeyed` are claimed
only then, `NoOrphans` always.

### LayerTree, CompositingLayers, LayerPresentation, LayerFrames

`LayerTree` has no variables: the elements, the scroll views among them, the
bands rasterised around a scroll position, and the shape of a committed frame.

`CompositingLayers` is the core half. Setters mark (`SetStyle`, `SetTransform`,
`SetScrollOffset`, `AppendChild`, `Remove`, `RegisterFont`); `Lower` is
`render()`, which moves transitions on, and `ContentFacts`, `ChromeFacts` and
`PlacementFacts` are `capture_frame_layers` and `commit_layer_topology`.
`Nearest` climbs to the enclosing layer; ancestors are the intersection of the
upward-closed sets, so that they can be reasoned about without recursion.
`touched` and `chromeTouched` are history: what really looks different since the
last frame, recorded apart from the marks.

`LayerPresentation` is the compositor half, one action per step of `present()`:
`Prepare`, `Rasterize` or `RasterizeFails` for each job in the code's order,
`Composite` or `CompositeFails`, `Commit` with the budget; `Trim` and
`Invalidate` between two presents. A texture records which elements its pixels
draw, which have changed since, which have left the layer since in frames whose
facts did not name it (`left`) and the band it covers; the adapter knows none of
this. `loose` is history: layers an abandoned frame rasterised, whose textures
the ledger no longer describes. `PresentSpec` runs the transaction under any core
that keeps `Announced`.

`LayerFrames` composes them: a `Render` offers the frame, presents run to the
end or fail, the host asks for another frame after a failure.

### FontFetch, FrameLoop

`FontFetch` is operators on the books of three parties: the tracker in the core,
the fetcher of the adapter, the mailbox between. `FrameLoop` says when they run.
It has the calls of an application (`Start`, `SetBox`, `RegisterDraw`,
`ChangeDraw`, `ClearDraw` ...), made in its own tasks or in a handler, and a frame
as the steps between which handlers run and may throw: `Prepare`,
`DispatchResize`, `DispatchClick`, `Flush`, `Commit`; `Abort` is the `catch` of
`frame()`, reached from a handler, a painter or a rejected packet, and
`PresentFails` a commit that throws after the core has committed.

The queue of mutations is what it leaves pending for each property, since those
of different properties commute and the last of one wins.

### NativeAccessibility, AndroidFront

`NativeAccessibility` is the session as operators on a record (`OnActivate`,
`Applied`, `Refused`, `ResetForTreeReplacement`, `Update` ...) and `Merge`, what
the Android target makes of a difference.

`AndroidFront` has two threads. The native one stands at `at`: in `poll_events`,
on the way through an unmount and a mount, or in the tail of an iteration that
takes the wake, drains, applies, pumps and sends. The Java UI thread stands at
`callAt` inside a callback: it pushes the message, stores the flag, wakes the
looper, holding the callback slot all the while. Between callbacks it runs, in
order, what the native thread posted to it (`posted`): a mount sets the delegate,
the view and the focus while the native thread waits two seconds for it
(`Mount`, `ViewMounted`, `MountFails`), after which it may still run; an unmount
takes the view at once and posts the removal of the delegate
(`DelegateRemoved`). An event of the looper asks for
its frame after `poll_events` has returned; nothing looks at the vsync between,
so the action arms it.

## The runs

Every passing run explores its whole state space.

| Run | Distinct states | What it asks |
|---|---|---|
| `raster_thread` | 163,023 | do the two threads implement the hand-off, lose no wake-up and no fact, and do shutdown and service terminate? |
| `worker_engine` | 76,960 | does the Worker implement the same hand-off, never strand a command, close cleanly, answer detaches and requests? |
| `reactive` | 13,317 | is the graph consistent and glitch-free, and do effects reach the current state, for four applications and every order of events? |
| `dynamic_blocks` | 513,920 | does the tree show what the template denotes when `handle` returns? |
| `layer_frames` | 236,391 | does every composite show all that the frame draws, as it looks now and in its place, with nothing left over but what was promoted out of a layer, whatever fails or is evicted, and does the loop come to rest with everything shown? |
| `frame_loop` | 272,953 | does the loop of a page sleep on anything, show what painters drew, forget a font? |
| `android_front` | 766,949 | does the screen reader keep up with the tree over windows, reloads and failures, and is every activation answered? |

### raster_thread

Two layers, one a scroll view; three commits that differ in every field the
merge touches (one clean, one with work and a scroll change, one without the
scroll view); two barriers; four accepted commands. Four are enough for every
shape the queue policy distinguishes: a frame in flight, and behind it frame +
frame, barrier + frame + frame, frame + barrier + frame. The proofs remove the
bound for the safety part.

*Fairness*: the Raster thread is scheduled and its sink returns; a UI thread
inside `shutdown` runs on. Nothing obliges the UI thread to send or shut down,
or the condition variable to wake spuriously (so a lost notification is not
papered over).

### worker_engine

One layer, two commits (with and without work and change), three posts before
detach, four accepted commands where the Worker commits alone. Three posts
around a boot put messages before, during and after it; a frame in flight with
two messages behind it and a detach is in reach.

*Fairness*: both event loops run, boot settles, completion promises settle, a
requested frame callback fires. The detach timer has **no** fairness: with it,
`DetachIsAnswered` would hold of a Worker that never answers. Deadlock is not
checked: after the Worker is terminated nothing is left to do.

Read the guarded claims as they stand. `DetachIsAnswered` allows a failed
renderer, because a Shutdown refused by a failed pipeline is answered with a
`runtime-failure` only and it is the timer that ends the wait. A Shutdown that
the timer cuts off was accepted and is never executed; `AcceptedIsServed`
excludes it. `RequestsAreAnswered` excludes a bridge that is closing and an
engine that did not boot: those promises stay unsettled in the code.

### reactive

Four applications: a diamond of memos with a dynamic dependency, an `:if` within
an `:if` with a cleanup that writes, the same with a cleanup that only reads, an
`:each` with one row. Values 0 to 2, three events, each dispatched in a batch or
bare. Two events already switch a dynamic dependency and switch it back; the
third reuses what was disposed.

The application in which an effect writes what it has read is kept apart: in it
`EffectsShowCurrentState` fails, and `reactive_self_closing` shows how. The
invariants are therefore claims about applications without such effects, and
about the runtime's order of work, not about every program.

*Fairness*: a call that was made goes on. That is the meaning of a call.

### dynamic_blocks

Two templates (`:each` before `:if`; `:if`, `:each`, static element), eight lists
over three keys (empty, shorter, longer, reordered, changed values, a repeated
key, repeated among others), two batches in or out of a handle, one click
waiting, eleven elements. Two batches suffice for every pair of
old and new list, since `reconcile_each` sees no further back; the second starts
from every state the first can leave. Eleven elements are never exhausted with
those bounds.

### layer_frames

Four elements: a root, a box, a scroll view and an item in it, which may appear
late; three matrices (none and two others, so that a layer is opened, moved and
folded back); three scroll positions with a band of one on either side, so that
a scroll may stay within its band or leave it; a transition of one frame; room
for three layers, and for one under memory pressure, so that a frame of four
evicts; two setter calls and one fault. Two calls make every pair of marks meet
in one frame or in two; a fault falls between any two steps of any present. The
proofs of the safety properties have no such bounds.

*Fairness*: the host serves a request for a redraw, and a present runs to its
end. Deadlock is not checked: a scene at rest really stops. `ComesToRest` is
claimed when no transition belongs to a removed element; `layer_restless` shows
why.

### frame_loop

One element, two sizes, two painters; two families, one whose URL is unknown and
one whose face lacks the glyph; three attempts, the code's limit; five calls of
the application and one failure. Five calls start the loop, give a size, set a
painter, change either and set a text, in any order, before, in and between
frames. Families and elements meet only in the frame, so one element is enough;
the proofs have any number.

*Fairness*: a requested frame is called back and a task that runs ends.
Applications, input and fetches owe nothing. Deadlock is not checked: an idle
loop stops.

`AwakeLoopPaints` is conditional on frames that keep coming. Without the
condition it fails; that is `frame_loop_asleep`.

### android_front

One leaf, one label (so that the leaf comes and goes), two scales, three tasks
of the UI thread, two counted events of the looper. Three tasks reach focus,
query and action, or a toggled reader in between; two events reach a window and a
reload or a second window, a scale or an input. Termination of a window, quit,
vsync, wakes and renderer failure are not counted.

*Fairness*: the two threads run on. The vsync and the wake are *strongly* fair:
an iteration of the looper sees every source that is ready, so a source that is
ready again and again is not passed over for ever by other events. The screen
reader, windows and failures owe nothing. Deadlock is not checked: the loop
quits.

`ActivationIsAnswered` is about activations that reached the mailbox and excuses
a loop without renderer or runtime: there the code never comes to the send.

### The violations

`reactive_self_closing`, `dynamic_unheard`, `layer_unplaced`, `layer_restless`
and `frame_loop_asleep` each check one statement of the repository and end in a
counterexample; see [Findings](#findings). `layer_restless` and
`frame_loop_asleep` are temporal: their specifications have the fairness of the
passing runs, so that the loop really runs while it violates them.

## The proofs

### The native hand-off

For **every** set of layers, of barriers and of commits, any number of sends and
a sink that may or may not unwind:

| Theorem | States |
|---|---|
| `TypeSafety` | `Spec => []TypeOK` |
| `ActiveIsDrivenSafe` | the worker's `expect` never fires; a failure leaves nothing in flight |
| `DrainedSafe` | shutdown returns with everything driven, or after a failure or an unwinding |
| `WakeupSafe` | the worker never sleeps on work |
| `CoalescingFaithful` | each pending entry is the merge of a contiguous run of accepted commands, of frames only if of more than one |
| `BoundedFrames` | no two frames wait side by side |
| `CountersAddUp` | accepted = coalesced + started + pending + dropped |
| `Refinement` | `Spec => HandoffSpec` |

Assumptions: those of `RasterThread`. A commit names layers
(`CommitAssumption`), `NoBarrier` is no barrier, `MaxSends` is a natural number,
`SinkMayPanic` a Boolean.

1. `TypeInv` is `TypeOK` with `Len(spans) = Len(pipeline.pending)`; without the
   second conjunct `SpansAfter` could not be typed. One lemma per pipeline
   operator says what it returns.
2. `ControlInv` is `ActiveIsDriven`, `DrainedWhenDown` and `NoLostWakeup` with
   two facts that make them inductive: `ExitedIsDone` (a worker that left its
   loop left an empty or failed pipeline) and `ClosedByOwner` (only a shutdown
   or a failure closes).
3. `HistoryInv` is `Conservation` with `Backlog(pipeline, spans, log)`. The
   latter is the invariant of `BacklogProofs`, about any queue, log and spans:
   the spans partition the newest part of the log (`Partition`), each entry is
   the merge of its span (`Faithful`), no two frames are neighbours
   (`FramesApart`), what was accepted had not been merged before (`Unmerged`).
   `AdmitBacklog` and `StartBacklog` say that admission and start keep it. Their
   core is `MergedGrows`: merging one more frame into the merge of a run gives
   the merge of the longer run.
4. `Refinement` maps the accepted commands from the first pending span on to
   `outstanding` and the two flags to `phase`. Accepting is `Submit` whether or
   not it coalesces; taking is `Serve` of the whole run, which
   needs `NoAdjacentFrames` (the run ends where the span does); a failure is
   `Terminate`; the first `closed` is `Close`; the rest stutters. What is owed
   after an admission and what a start serves are `AdmitOwed` and `StartServes`
   of `BacklogProofs`.

### The Web Worker

For every set of layers and commits, any number of messages, and a renderer that
may fail at any presentation or completion:

| Theorem | States |
|---|---|
| `WorkerRefinement` | `Spec => HandoffSpec` (`TurnSpec` of `FrameHandoff`) |
| `ShutdownCloses` | `[]ShutdownIsLast` |
| `WorkerContinues` | `[]ContinuesWhileWorkRemains` |
| `WorkerTypes` | `[]TypeOK` |

Assumptions: those of `WorkerEngine` (`WorkerBarriers`, `WorkerBounds`,
`WorkerCommits`).

1. `StepsOfEngine` sorts the actions by what they do to the engine
   (`EngineStep`): a command is admitted, a completion settles, or nothing moves.
   `EngineInv` is the same `Backlog` with the rule of a turn: the pipeline is
   active exactly while a completion is awaited, and an idle engine has nothing
   pending, since each turn drives before it ends.
2. With it every `EngineStep` is a step of the hand-off. An engine that is idle
   serves what it accepts in the same turn (`IdleAdmits`); one that is busy adds
   it to what is owed; a completion finishes and serves the next run.
3. `LifeInv` follows the Worker from init to detached. `ChannelInv`: init is the
   first message and detach the last. `ChainInv`: an engine that has not booted
   accepted nothing, and one that is waited for exists. `ClosingInv`: once the
   barrier is in the log, the channel is empty, the callback cancelled, and the
   chain waits until the engine is dropped. `AnsweredInv`: after the answer
   nobody drives the engine. `ShutdownIsLast` is not inductive without them: it
   is the bridge that posts nothing after detach and the chain that handles
   nothing while it waits, not the pipeline, that keep commands from following
   the barrier. `ShutdownServed` adds that a barrier that is started leaves no
   queue.
4. `ContinuesWhileWorkRemains` is inductive given the two: a Resize does not
   touch the newest frame, and whatever else leaves the callback out of step
   fails the pipeline or closes the log (`ClockSteps`).
5. `TypeOK` needs `Ledger`: the requests and replies in the two channels number
   at most `awaiting`, so that a reply never settles more than was asked.

### The reactive runtime

For **every** application (`App` is any set that `AppAssumption` allows: nothing
is assumed of a closure but what its handles let it do, and that a closure reads
only what was created before its own node), any number of events, values and
nested calls:

| Theorem | States |
|---|---|
| `ReactiveTypes` | `[]TypeOK` |
| `ReactiveLinks` | `[]LinksAgree`: both directions of every link agree, and no link is there twice |
| `ReactiveCalls` | `[]CallsInv`: what may be in progress above what |
| `ReactiveMarks` | `[]MarksInv`: what is out of date is marked |
| `ReactiveMemosAreCorrect` | `[]CleanMemoIsCorrect`, where memos read nodes that exist |
| `ReactiveEffects` | `[](Disciplined => EffectsInv)`: when an effect may be queued, waiting or running |
| `ReactiveOncePerBatch` | `[]OncePerBatch`: no effect runs twice for one event |
| `ReactiveScopes` | `[](Scoped => ScopesInv)`: what is alive while scopes are built and disposed |
| `ReactiveGraph` | `[](Scoped => GraphIsConsistent)` |
| `ReactiveScopedMemos` | `[](Scoped => CleanMemoIsCorrect)`: with no hypothesis about what memos read |
| `ReactiveNoDisposedRead` | `[](Scoped => NoDisposedRead)`: the runtime never panics |
| `ReactiveEffectsShow` | `[](Scoped /\ Tracking => EffectsShowCurrentState)` |

The layers, each an invariant that uses those before it:

1. `TypeInv` adds to `TypeOK` what types need: code is well typed at every
   frame, and `depth` counts the batches on the stack.
2. `LinksAgree` needs that dispose filters both directions by the same set.
3. `CallsInv` is about the stack. Above a pull there are only the calls that
   bring memos up to date, each of a memo created before the one below it
   (`Nested`, from the order of creation). So a memo is never entered twice, and
   nothing is written, built or disposed under it. A closure runs directly above
   its `settle` (`Paired`), and `observer` is the innermost closure that runs,
   `prev` the next one (`Watching`, `Watched`). A memo that is visited is marked,
   one that runs is Dirty and out of place (`CallMarks`, `MemosReady`).
4. `MarksInv`: a memo linked to a source that is not Clean is not Clean either,
   or has a mark on the agenda (`StaleIsMarked`); during a pull the agenda marks
   nobody who was Clean (`NoNewMarks`); a visit that is past a source left it
   Clean, unless the memo has become Dirty (`SourcesUpToDate`). This is why
   `CheckPassed` may mark a memo Clean without running it.
5. `RunsFromSources` and `MemosYield`: the program counter and accumulator of a
   memo that runs are those its code comes to from the values of the sources it
   has linked, and a memo nothing has told otherwise holds what its code yields
   from its sources. They speak of values that are there, not of the reference.
6. `Result`, the reference, is a recursive function over points of code whose
   reads go down the order of creation. `ResultEquation` shows that the function
   exists and satisfies its own definition (the graph of the recursion determines
   one value per point, by induction on the order and, within a node, on the
   rest of the code). `CleanMemos` then goes up the order of creation: the
   sources of a Clean memo are signals or Clean memos, which hold their
   `Result`, so what the memo's code yields from them is its own.
7. `EffectsInv` is about the applications `OncePerBatch` speaks of
   (`Disciplined`). The event's handler is at the bottom of the stack, a flush is
   there only on top of it, and inside a batch only memos are brought up to date
   (`TurnsInv`). So marks are sent by the handler's writes or inside a pull
   (`AgendaInv`), and effects are queued by the former alone: `EffectMarks`,
   `StaleEffects`, `NoNewEffects` and `EffectSources` say of effects that exist
   what `CallMarks` and `MarksInv` say of memos, so that a mark sent during a
   pull finds every effect it reaches already marked. What is queued waits for
   the end of the batch, once (`QueueInv`), and no effect is brought up to date
   while a round still has to come to it (`OneTurn`); a flush thus comes to each
   effect once, and `BatchRuns` counts. An effect that is disposed meanwhile may
   stay in the queue, which `flush` skips; hence "that exist" throughout. The
   effects of the flush may build and dispose as they like: what they build runs
   for the first time then, and new effects are new nodes.

8. `ScopesInv` is about the applications that keep to their scopes (`Scoped`,
   below). `NestInv` reads the stack: above a dispose there are only the
   disposes, cleanups and memos it calls, and the scope of a call is within that
   of every call below it, strictly so for a dispose. So a scope that is being
   torn down has nobody of its own running, and what runs cannot lose the scope
   it is of. `ScopeTree`: the parent of a living scope lives, and lists it among
   its children or has it in a dispose in progress. `NodesOfScopes`,
   `LivingCalls` and `LivingLinks` then say of signals and memos that they live
   exactly as long as their scope, and of calls, links and marks that they are
   of the living. `GraphIsConsistent` is a consequence.
9. `ValuesInv`: a signal that exists has a value, and a memo too unless it is
   Dirty. A read is of a node that the reader's own scope or one above owns;
   it lives by 8, and the read of a memo returns only after its pull.
10. `ShownInv` does for effects what 5 does for memos, with two differences. A
   branch builder runs under the effect that builds, as the observer, so the
   effect is linked to what the branch read as well; `OwnSources` are those its
   own code reads, and only those say what it shows. And writes do come while an
   effect waits, so `QueuedEffects` and `PendingWaits` follow every effect that
   is not Clean: it is in the queue, in a round of a flush, or being brought up
   to date, and a queue that is not empty has a batch or a flush to come.
   `EffectsShow` puts this together with `CleanMemoIsCorrect` at rest.

What `Scoped` excludes, and why:

- *Writes from effects, builders and cleanups* (`Disciplined`). A write in a
  cleanup may flush in the middle of a dispose, and an effect of that flush may
  build a branch in a scope that is going away; a write of an effect to what it
  has read is lost (`reactive_self_closing`). `:each` writes the item signals of
  its rows from its effect and is thus outside; it is checked by TLC (`EachRow`),
  as is the cleanup that writes (`NestedIf`).
- *Reads out of reach*: a closure reads what its own scope or one above owns.
  Code generated from templates has no other handles. Handlers of events belong to
  the root: they stay dispatchable whatever has been disposed.
- *Disposing one's own scope*: an effect builds scopes right below its own and
  disposes scopes below it, as structural effects do.

`Tracking` excludes effects that peek: an untracked read runs nobody again, so
what it showed may be old by design. `Diamond` and `PlainIf` of `MCReactive`
satisfy both; TLC has checked the parts of the invariants it can evaluate on them.

`ReactiveMemosAreCorrect` is the wider statement about memos, for every
application with the hypothesis `[]ReadsAlive`: a memo that
outlives a node it has read keeps its value and loses the link. The hypothesis
says that the handles in a memo's code are of nodes not disposed before the memo;
it holds in all applications of the runs, and `ReactiveScopedMemos` proves it from
the scopes.

### Dynamic blocks

For every template (a sequence of static, `:if` and `:each` slots), every set of
lists with the empty one in it, and any number of writes, elements and clicks:

| Theorem | States |
|---|---|
| `DynamicTypes` | the type invariant |
| `DynamicNoOrphans` | `[]NoOrphans`, repeated keys or not |
| `DynamicRowsAreKeyed` | `RowsAreKeyed`, the action property of a reconciliation |
| `DynamicShowsModel` | `[]TreeShowsModel`: the children of the tree are the rendering of the signals, in order and with their texts |

Assumptions: those of `DynamicBlocks` (`TemplatesAssumption`, `ListsAssumption`,
`BoundsAssumption`, and `TextsAssumption`, that the text of a static element is
no item's).

The tree is behind: a block only appends to `log`. So the invariants are about
`Drained`, the tree with the log applied, and hold in the middle of a flush.

1. A log is replayed by a recursive function, as are `Detach` and the
   concatenation of the slots. `AlongList` is the induction that says what they
   compute; `ReplayKeeps`, `ReplayReaches` and `ReplayFollows` take a property
   of one mutation to a property of a log.
2. `RowsInv`: rows that live are apart, and a branch that is mounted has one
   row. `ViewInv`: the bodies in `Drained` are those of `live`, none twice. A
   reconciliation removes exactly the rows nobody takes over (`LeftBehind`), once
   each although repeated keys may make two rows share a scope.
3. `KeyedInv`: once a block has run, its rows have the keys of its list, in
   order. With distinct keys `OldIndex` is then one to one, which is what
   `RowsAreKeyed` rests on.
4. `SlotsInv`: a slot holds the elements of its rows, and slots are mounted in
   order, so that `AnchorAfter` finds the first element *after* the slot.
5. `ShowsInv`: while no list has repeated a key, the children of `Drained` are the
   slots end to end, and the texts are the items' (`TextsInv`). For a
   reconciliation this is an induction along its log: `Thinning` (what is left
   behind goes, the rest keeps its order) and `Placing` (after the moves of the
   last n rows, those n stand in their order before the anchor, the others
   before them in any order). The induction fails if rows are moved from the
   front, or with the anchor `AnchorFrom` of the mutant.

### Layered painting

The first part of `LayerFramesProofs` is about `PresentSpec`: any core that
announces its changes, any tree, budget, eviction and failure.

| Theorem | States |
|---|---|
| `PresentTypeCorrect` | the type invariant |
| `PresentShowsFrame` | `[]LayersShowFrame`: no composite has a hole, an element of the frame as it looked before or an uncovered band; what a texture draws beyond the frame left its layer in frames that did not name it |
| `PresentPlan` | `[]PlanIsCurrent`: retained placements are reused only when they are the frame's |
| `PresentLedger` | `[]LedgerMatchesAdapter`: the ledger vouches for nothing the adapter lacks, nothing committed leaks |

None of these is inductive. `Inv` says what links ledger, textures and pending
facts *between* presents: an entry's texture is held, its band is the recorded
one unless it is loose or staged, and what is old in it or missing from it is
covered by a fact not yet presented (`CacheInv`), and what a texture draws beyond
the frame has left its layer unnamed; what this present staged is current
(`StagedInv`); a layer that needs content has a job until it is staged
(`JobsInv`); what is held is accounted for (`HeldInv`); the kept placements are
the scene's unless some fact says otherwise (`PlacementInv`). `LayersShowFrame`
follows when no job is left.

The second part proves the other side of the contract for every element tree
(`Parent` with `Rank` growing downwards, late sets closed downwards), and puts
the two together.

| Theorem | States |
|---|---|
| `CoreAnnounces` | `Spec => AnnouncesChanges`: the facts of every frame name every layer that draws something changed or new, and every move; what leaves a layer they do not name was promoted out of it |
| `ImplementsPresentation` | `Spec => PresentSpec`: core and transaction together refine the transaction under an abstract core |
| `LayersShowTheirFrame`, `FramesUseTheirPlan`, `FramesKeepTheLedger` | the three promises, from the setters to the composite |
| `RemovedElementsDisappear` | `[]RemovedElementsGone`: no layer but a scroll view that was only scrolled shows a removed element |
| `QuiescentTree` | `[]QuiescentIsSettled`: when no frame is asked for, the layers shown are those of the tree |
| `LayerFramesTypeCorrect` | the type invariant of the composition |

`CoreInv` relates marks to history: what is touched is lowered in the next frame
(`MarksInv`), an element outside the tree has no attached child (`TreeInv`), the
scene presentation has is the frame the core captured last, and what changed
since is visible in marks (`SceneInv`), and unfinished work has a redraw asked
for (`RestInv`). The heart is that an element which changes layer lies below an
element that was promoted or demoted, so the layer it enters is named.

The layer it leaves is named when it was demoted, restyled or removed, not when
it was promoted. `LeaveInv` keeps, while the setters run, what shows it: what
the last frame drew on a layer had that layer nearest, and the lowest ancestor a
removed element has left in the tree is marked. From it follows the second half
of `AnnouncesChanges`, and with `LayersShowFrame` that promotions are all that
can be left in a texture.

Therefore `RemovedElementsGone` is about layers that are no scroll views:
`GoneInv` says that a frame which draws an element removed since has the root
marked, that a mark on the root reaches every layer not exempted for scrolling
alone, and that a texture no fact asks to replace draws elements of the frame
only. (Stated of scroll views too the property is false: see the observations.
The instance is too shallow to show it; the proof did.)

### The frame loop and the fonts

For every set of elements, sizes, painters and families:

| Theorem | States |
|---|---|
| `FrameLoopTypeCorrect` | the type invariant |
| `LoopNeverSleeps` | `[]NothingSleeps` |
| `NoFontIsForgotten` | `[]MissingFontsAreAccounted` |
| `DrawingsAreCurrent` | `[]DrawingIsCurrent` |

`WakeInv` extends `NothingSleeps` to the inside of a frame, where a transaction
is open exactly as long as `phase` says. `MissingFontsAreAccounted` is inductive on
top of the types: `BooksAgree` alone already is. `DrawInv` adds to
`DrawingIsCurrent` what the core has told the painter's element: which sizes it
was notified of (`NotifiedInv`) and that the size a painter knows, a delivery in
flight and the notified size differ only by what is on its way (`SizeInv`).

### The Android front

For every set of leaves, labels and scales, every initial tree and any number of
calls and events:

| Theorem | States |
|---|---|
| `AndroidTypeCorrect` | the type invariant |
| `BaselineShown` | `[]BaselineIsShown`: the baseline differences are taken from is what the reader was given |
| `ReaderSeesTree` | `[]ReaderIsCurrent`: a loop at rest leaves an active session current |
| `WakesAreHeard` | `[]NoRequestSleeps` |

The type invariant is not inductive: a target that merges a difference into an
older tree need not hold a tree at all. It takes `BaselineIsShown`, which takes
where the thread stands during a remount (`PlaceInv`). `MergeUpdate` is the
algebra: merging the difference from a baseline into that baseline gives the new
tree. `DeliveredInv` keeps, for an active session, what the bridge was given,
and that whatever makes the tree or scale newer has a frame coming;
`RequestInv` follows a request through push, flag, looper and drain.

### What is only model-checked

Liveness (`ShutdownReturns`, `AcceptedIsServed`, `ComesToRest`,
`AwakeLoopPaints`, `ActivationIsAnswered` and those of the other runs): fairness
and ENABLED are outside the prover. Every invariant of the passing runs is
stated by a theorem, those of `Reactive` under the conditions named there: for
applications whose effects or cleanups write (`NestedIf`, `EachRow`),
`GraphIsConsistent`, `NoDisposedRead` and `EffectsShowCurrentState` are
model-checked only. Induction theorems with an operator parameter cannot be
instantiated here; where a proof needs an induction it is over a set of numbers
(`NatSetInduction`). No module that is proved about uses RECURSIVE.

TLC checked each inductive invariant before it was proved, except for the parts
that quantify over functions (what a closure's code yields), and evaluates every
assumption in the runs.

## Findings

| Run | The code | The statement |
|---|---|---|
| `reactive_self_closing` | a write during an effect's run to a signal it has read finds it Dirty, and the effect is then marked Clean (`reactive.rs:389`) | `reactive.rs:443-444`: a write during a run is not missed |
| `dynamic_unheard` | listeners are registered once; elements mounted later have handlers and no listener (`app_host.rs:71`) | `instantiate.rs:37-38`: the registry is shared so that dynamic elements are registered too |
| `layer_unplaced` | a transform that comes or goes on an element that is a layer anyway marks it for lowering only, so the frame keeps the old placement table (`tree.rs:2888`) | ADR-0152:18: the table is shared only by commits that leave structure, geometry and transforms alone |
| `layer_restless` | the anchor of a removed element keeps its running transition, which asks for frames for ever (`scene_lowering.rs:81`) | `tree.rs:1841-1842`: the frame loop rests once the last track settles |
| `frame_loop_asleep` | a size settled by a commit is queued for a frame nothing asks for (`hayate-renderer.ts:336`) | `hayate-renderer.ts:165-166`: the painter runs when the size is settled, one frame later |

Observations made while modelling, which the models follow and no run states:

- *Raster thread.* After a failure `send` returns before it counts the refusal
  (`raster_thread.rs:226-230`; `frame-pipeline/src/lib.rs:97` says `dropped`
  counts commands rejected after failure). A sink that unwinds ends the thread
  with nothing set, and `send` goes on answering `Ok` (`raster_thread.rs:177`).
- *Worker.* A failure in a promise reaction posts nothing
  (`worker-engine.ts:296`); main hears of it with the next message.
- *Reactive.* `reconcile_each` sets row signals outside a batch
  (`instantiate.rs:517`). An effect that has its own scope disposed and reads on
  panics (`reactive.rs:309`). A scope that is built while its parent is being
  disposed is never disposed itself: `dispose_scope` takes the list of children
  before it runs the cleanups (`reactive.rs:251-276`), one of which may write a
  signal that builds a branch. An effect that is disposed while it runs and
  reads on links itself again although it is dead.
- *Layers.* An element that becomes a layer marks itself, and only one that
  ceases to be a layer marks the layer around it (`tree.rs:2822-2826`): the
  texture it was promoted out of goes on drawing it, under its own layer, until
  something else on that layer changes. `structural_changed` names both layers
  and only rebuilds placements (`layer_presentation.rs:146`), while ADR-0152:10
  has layers whose structure changed rasterized from the newest snapshot.
  `LayersShowFrame` and `AnnouncesChanges` claim no more than the code does and
  bound what is left over: promoted elements, nothing else. If the old layer is
  a scroll view that is only scrolled in the frame that removes the element, it
  is shown even then. Rasterising a scroll view's content does not refresh its
  chrome (`tree.rs:2816-2817`, `layer_presentation.rs:227`). A failed present
  leaves newer or blank textures under an older ledger (`loose`). A layer nested
  in a scroll view is not moved by a frame that only scrolls, the other half of
  `layer_unplaced`.
- *Frame loop.* Font results and pasted text do not wake the loop
  (`canvas.rs:98-133`). A family without URL stays in flight for ever. A face
  that lacks the glyph is fetched again and again. The `catch` of `frame()` drops
  the queue and the drained deliveries, so that a size stored for a painter that
  threw may never be drawn. `setDraw(null)` followed by `setDraw` is not painted
  until the size changes.
- *Android.* An activation that arrives while the callback slot is empty is
  dropped while the bridge believes itself activated, until focus is lost; the
  same after an answer that the reader is off. An action queued before a full
  reload acts on the element of the new tree with the same index. A reset of a
  session that still owes several full trees forgets how many.

## What is not modelled

Inside modelled components:

- **Layout, text shaping, scene emission, rasterisation**: numeric and
  sequential; the models see their result as elements with changed sets. Boxes
  do not move in `CompositingLayers`: geometry changes when they appear. The
  selection overlay on the root layer is not there. One layer is one unit of
  the budget, and that a chrome texture shows the right thumb is not claimed.
- **Elements and gestures inside a Worker commit**: mutations, listener ids,
  IME presentation and touch scrolling only change what a commit contains. A
  frame laid out with the old viewport while a Resize is queued
  (`worker_engine.rs:426`) is a hazard without property: `Commit` does not know
  viewports.
- **FrameLoop**: an element is created, placed and styled by one mutation; it is
  never removed. A listener registered a second time is not there (its
  deliveries change nothing), nor a frame handle that is stale, nor a painter
  that throws outside a frame, nor `shouldRepaint`, of which only the identity of
  the painter is kept.
- **AndroidFront**: one full delivery stands for all the pending ones; the
  window focus a mount finds is any; the initial tree is a constant; a window is
  announced only after the last has gone; the unmount of `onDestroy` and the
  JavaScript side are left out. `poll_events` is taken to return after a looper
  callback. The Close arm of the drain is dead code on both fronts and has no
  action.
- **Components of Hayabusa** (props as memos, `emit`, `on_mount`), nested
  templates, `on:input` and value bindings.
- **Memory order**: state shared between threads is behind a mutex, whose
  critical sections are atomic, or an atomic flag that is
  set before the looper is woken and swapped before the drain.

Components left out:

- **Native App Host tick**: a present that fails after the tree was committed
  returns before the accessibility update and the redraw request
  (`app-host/src/lib.rs:383`).
- **Render host**: a fallback that fails to start leaves no renderer
  (`render_host.rs:252`). **Resource residency**: a sweep evicts at least a
  batch, maybe the entry just inserted (`resource_residency.rs:351`). Both are
  sequential and small.
- **Editing, IME, gestures; Torimi**: sequential, or a network protocol between
  a developer's machine and a page.
- **Parsers, code generators, encoders, renderers, vendored code**: pure
  translations or drawing.

## Plan

What would come next, in this order:

1. `AppHost`: the native tick with its early return, its session and
   continuation, composed with `RasterThread` through `send`. Most of the session
   is in `NativeAccessibility` already.
2. `RenderHost` and `ResourceResidency`: fallback and sweeps.
3. Proofs: the scopes of `Reactive` for effects that write to signals of scopes
   they have just built, which is what `:each` does.
4. `DynamicBlocks` with components; editing and gestures; the Torimi handshake.

## Running it

```
tlc -workers 2 -config MCRasterThread.cfg MCRasterThread
tlapm WorkerEngineProofs.tla
```

Each run of `PROJECT.json` names its module and its configuration.
