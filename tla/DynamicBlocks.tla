--------------------------- MODULE DynamicBlocks ---------------------------
(* Hayabusa's dynamic blocks (Hayabusa/src/instantiate.rs) mounted on the   *)
(* App Host (Hayabusa/src/app_host.rs).                                     *)
(*                                                                          *)
(* One parent element has a list of child slots: static elements, `:if`     *)
(* blocks and keyed `:each` blocks.  A block's effect keeps the elements of *)
(* its slot; it finds where they go from the slots after its own.  Effects  *)
(* do not touch the tree: they log mutations, which HayabusaApp::handle     *)
(* applies to the tree the App Host lends it.  Clicks come back as          *)
(* deliveries for the listeners registered at the first handle.             *)
(*                                                                          *)
(* Every body is one element with a text binding (it shows its item) and an *)
(* on:click handler.  A handler writes the block signals in one batch; which*)
(* values it writes is the application's, so it is any choice.  The order   *)
(* in which the flush runs the blocks is the order they were notified in.   *)
EXTENDS Naturals, Sequences, FiniteSets, SequencesExt

CONSTANTS
  Templates,     \* sequences over {"element", "if", "each"}
  Key,           \* the values of the key expression
  Val,           \* the rest of an item
  Lists,         \* the lists the signal of an :each takes
  MaxWrites,     \* bound: batches of signal writes
  MaxElements,   \* bound: elements created
  MaxQueue       \* bound: clicks waiting for a frame

Item == [key : Key, val : Val]

ASSUME TemplatesAssumption == Templates \subseteq Seq({"element", "if", "each"})

ASSUME ListsAssumption == Lists \subseteq Seq(Item) /\ <<>> \in Lists

ASSUME BoundsAssumption ==
  MaxWrites \in Nat /\ MaxElements \in Nat /\ MaxQueue \in Nat

El == 1..MaxElements
NoEl == 0

VARIABLES
  template,    \* the kinds of the child slots
  source,      \* [slot -> list], the signals the blocks read
  pending,     \* blocks whose effects a batch has notified
  rows,        \* [slot -> Seq(Row)], what a block's closure holds
  slots,       \* ChildList: [slot -> Seq(El)]
  live,        \* bodies whose branch Scope has not been disposed
  item,        \* the item signal of a row
  nextId,      \* RecordingSink's next_id
  log,         \* RecordingSink's log
  targets,     \* click_targets
  tree,        \* what the App Host's ElementTree holds of this parent
  mounted,     \* HayabusaApp's mounted flag
  phase,       \* "build" | "idle" | "handle"
  queue,       \* deliveries waiting in the tree
  deliveries,  \* deliveries this handle has still to route
  writes,      \* batches so far
  distinct     \* ghost: no list so far repeated a key

block == <<rows, slots, live, item, nextId, log, targets>>
app   == <<template, source, pending, writes, distinct>>
host  == <<tree, mounted, phase, queue, deliveries>>
vars  == <<block, app, host>>

Slot == 1..Len(template)

Row == [key : Key \cup {"body"}, el : El]

\* What the bodies of the other slots show.
Static == [key |-> "static", val |-> "-"]
Body == [key |-> "body", val |-> "-"]
Texts == Item \cup {Static, Body}

ASSUME TextsAssumption == Static \notin Item

\* What an :if shows: nothing when its condition is falsy.
Branches == {<<>>, <<Body>>}

\* The values of what a slot reads: the items of an :each, the branch of an :if.
Source(kind) == CASE kind = "each" -> Lists
                  [] kind = "if" -> Branches
                  [] kind = "element" -> {<<Static>>}
Sources ==
  {f \in [Slot -> Lists \cup {<<Body>>, <<Static>>}] :
     \A s \in Slot : f[s] \in Source(template[s])}

-----------------------------------------------------------------------------
(* Mutations and what they do to the tree. *)

Create(el, text) == [op |-> "create", el |-> el, text |-> text]
SetText(el, text) == [op |-> "text", el |-> el, text |-> text]
Attach(el, before) == [op |-> "attach", el |-> el, before |-> before]
Delete(el) == [op |-> "remove", el |-> el]

NewTree == [children |-> <<>>, text |-> [e \in {} |-> Static], heard |-> {}]

Exists(t, el) == el \in DOMAIN t.text

\* Vec::retain: the element leaves its parent's children.
Detach(children, el) ==
  LET kept[i \in 0..Len(children)] ==
        IF i = 0 THEN <<>>
        ELSE IF children[i] = el THEN kept[i - 1]
        ELSE Append(kept[i - 1], children[i])
  IN kept[Len(children)]

Written(t, el, text) ==
  [t EXCEPT !.text = [e \in DOMAIN @ \cup {el} |-> IF e = el THEN text ELSE @[e]]]

\* Mutant: a removed element keeps its listeners.
ListenersStay(t, el) ==
  [t EXCEPT !.children = Detach(@, el),
            !.text = [e \in DOMAIN @ \ {el} |-> @[e]]]

\* element_remove
Without(t, el) ==
  [children |-> Detach(t.children, el),
   text |-> [e \in DOMAIN t.text \ {el} |-> t.text[e]],
   heard |-> t.heard \ {el}]

\* element_insert_before and element_append_child: the element leaves its
\* place first; at the end if what it should precede is no child.
Placed(t, el, before) ==
  LET others == Detach(t.children, el)
      at == CHOOSE i \in 1..Len(others) : others[i] = before
  IN [t EXCEPT !.children = IF Contains(others, before)
                            THEN InsertAt(others, at, el)
                            ELSE Append(others, el)]

ApplyMutation(t, m) ==
  CASE m.op = "create" -> Written(t, m.el, m.text)
    [] m.op = "text" /\ Exists(t, m.el) -> Written(t, m.el, m.text)
    [] m.op = "remove" /\ Exists(t, m.el) -> Without(t, m.el)
    [] m.op = "attach" /\ Exists(t, m.el) /\ (m.before = NoEl \/ Exists(t, m.before)) ->
         Placed(t, m.el, m.before)
    [] OTHER -> t

Replayed(t, mutations) ==
  LET after[i \in 0..Len(mutations)] ==
        IF i = 0 THEN t ELSE ApplyMutation(after[i - 1], mutations[i])
  IN after[Len(mutations)]

Drained == Replayed(tree, log)

-----------------------------------------------------------------------------
(* The structural effects. *)

\* Mutant: the slot's own elements count as later.
AnchorFrom(list, s) ==
  LET later == FlattenSeq(SubSeq(list, s, Len(list)))
  IN IF later = <<>> THEN NoEl ELSE Head(later)

\* The first element of a later slot, before which this slot's elements go.
AnchorAfter(list, s) ==
  LET later == FlattenSeq(SubSeq(list, s + 1, Len(list)))
  IN IF later = <<>> THEN NoEl ELSE Head(later)

Init ==
  /\ template \in Templates
  /\ source \in Sources
  /\ pending = Slot
  /\ rows = [s \in Slot |-> <<>>]
  /\ slots = [s \in Slot |-> <<>>]
  /\ live = {}
  /\ item = [e \in El |-> Static]
  /\ nextId = 1
  /\ log = <<>>
  /\ targets = {}
  /\ tree = NewTree
  /\ mounted = FALSE
  /\ phase = "build"
  /\ queue = <<>>
  /\ deliveries = <<>>
  /\ writes = 0
  /\ distinct = TRUE

MountElement(s) ==
  /\ template[s] = "element" /\ slots[s] = <<>>
  /\ nextId \in El
  /\ log' = log \o <<Create(nextId, Static), Attach(nextId, NoEl)>>
  /\ slots' = [slots EXCEPT ![s] = <<nextId>>]
  /\ targets' = targets \cup {nextId}
  /\ nextId' = nextId + 1
  /\ UNCHANGED <<rows, live, item>>

MountIf(s) ==
  /\ template[s] = "if" /\ source[s] # <<>> /\ rows[s] = <<>>
  /\ nextId \in El
  /\ log' = log \o <<Create(nextId, Body),
                     Attach(nextId, AnchorAfter(slots, s))>>
  /\ slots' = [slots EXCEPT ![s] = <<nextId>>]
  /\ rows' = [rows EXCEPT ![s] = <<[key |-> "body", el |-> nextId]>>]
  /\ live' = live \cup {nextId}
  /\ targets' = targets \cup {nextId}
  /\ nextId' = nextId + 1
  /\ UNCHANGED item

UnmountIf(s) ==
  /\ template[s] = "if" /\ source[s] = <<>> /\ rows[s] # <<>>
  /\ log' = Append(log, Delete(rows[s][1].el))
  /\ live' = live \ {rows[s][1].el}
  /\ slots' = [slots EXCEPT ![s] = <<>>]
  /\ rows' = [rows EXCEPT ![s] = <<>>]
  /\ UNCHANGED <<item, nextId, targets>>

KeepIf(s) ==
  /\ template[s] = "if" /\ (source[s] = <<>>) = (rows[s] = <<>>)
  /\ UNCHANGED block

\* Mutant: the lookup stops at the first row.
FirstRowOnly(old, k) == IF old # <<>> /\ old[1].key = k THEN 1 ELSE 0

\* HashMap::collect keeps the last of the entries with one key.
OldIndex(old, k) ==
  LET found == {i \in 1..Len(old) : old[i].key = k}
  IN IF found = {} THEN 0 ELSE CHOOSE i \in found : \A j \in found : j <= i

\* The items up to the i-th that get a new row.
NewUpTo(old, items, i) == {j \in 1..i : OldIndex(old, items[j].key) = 0}

\* The next rows: the old row of the item's key, or a new one.
NextRows(old, items) ==
  [i \in 1..Len(items) |->
     LET o == OldIndex(old, items[i].key)
     IN IF o # 0 THEN old[o]
        ELSE [key |-> items[i].key,
              el  |-> nextId - 1 + Cardinality(NewUpTo(old, items, i))]]

\* The value of row i's item signal when the loop reaches it: a repeated key
\* has set it already.
ItemAt(next, items, i) ==
  LET earlier == {j \in 1..i - 1 : next[j].el = next[i].el}
  IN IF earlier = {} THEN item[next[i].el]
     ELSE items[CHOOSE j \in earlier : \A k \in earlier : k <= j]

\* What building and patching log.  Setting an item runs the row's text
\* effect at once, unless the row is disposed or the value is the same.
Patches(next, items) ==
  FlattenSeq([i \in 1..Len(items) |->
    IF next[i].el >= nextId THEN <<Create(next[i].el, items[i])>>
    ELSE IF next[i].el \in live /\ ItemAt(next, items, i) # items[i]
    THEN <<SetText(next[i].el, items[i])>> ELSE <<>>])

Taken(old, items) == {OldIndex(old, items[i].key) : i \in 1..Len(items)}

\* Mutant: a row is left behind when its key is, not when it was not taken.
LeftBehindByKey(old, items) ==
  {i \in 1..Len(old) : \A j \in 1..Len(items) : items[j].key # old[i].key}

\* The rows left behind whose scope is there to be torn down: a dead scope, or
\* one that an earlier row has torn down, is disposed in vain.
LeftBehind(old, items) ==
  LET gone == 1..Len(old) \ Taken(old, items)
  IN {i \in gone : /\ old[i].el \in live
                   /\ \A j \in gone : j < i => old[j].el # old[i].el}

\* They are torn down in their old order.
Removals(old, left) ==
  FlattenSeq([i \in 1..Len(old) |->
    IF i \in left THEN <<Delete(old[i].el)>> ELSE <<>>])

Keys(rs) == [i \in 1..Len(rs) |-> rs[i].key]
Els(rs) == [i \in 1..Len(rs) |-> rs[i].el]

\* From the last row back, each before the one it precedes.
Moves(els, anchor) ==
  [n \in 1..Len(els) |->
     LET i == Len(els) + 1 - n
     IN Attach(els[i], IF i = Len(els) THEN anchor ELSE els[i + 1])]

ReconcileEach(s) ==
  LET old == rows[s]
      items == source[s]
      next == NextRows(old, items)
      left == LeftBehind(old, items)
      made == {e \in El : \E i \in 1..Len(next) : next[i].el = e /\ e >= nextId}
      sl == [slots EXCEPT ![s] = Els(next)]
  IN /\ template[s] = "each"
     /\ \A i \in 1..Len(next) : next[i].el \in El
     /\ log' = log \o Patches(next, items)
                   \o Removals(old, left)
                   \o (IF Keys(old) = Keys(items) THEN <<>>
                       ELSE Moves(Els(next), AnchorAfter(sl, s)))
     /\ item' = [e \in El |->
                   LET mine == {i \in 1..Len(next) : next[i].el = e}
                   IN IF mine = {} THEN item[e]
                      ELSE items[CHOOSE i \in mine : \A j \in mine : j <= i]]
     /\ rows' = [rows EXCEPT ![s] = next]
     /\ slots' = sl
     /\ live' = (live \cup made) \ {old[i].el : i \in left}
     /\ targets' = targets \cup made
     /\ nextId' = nextId + Cardinality(NewUpTo(old, items, Len(items)))

RunBlock(s) ==
  MountElement(s) \/ MountIf(s) \/ UnmountIf(s) \/ KeepIf(s) \/ ReconcileEach(s)

-----------------------------------------------------------------------------
(* The application and its host. *)

\* build_children mounts the slots in order; an effect runs when created.
Build ==
  /\ phase = "build"
  /\ \E s \in pending :
       /\ \A r \in pending : s <= r
       /\ RunBlock(s)
       /\ pending' = pending \ {s}
       /\ phase' = IF pending' = {} THEN "idle" ELSE phase
  /\ UNCHANGED <<template, source, writes, distinct, tree, mounted, queue, deliveries>>

Distinct(list) == \A i, j \in 1..Len(list) : list[i].key = list[j].key => i = j

\* One batch: the application writes its signals; changed ones notify blocks.
Write ==
  /\ writes < MaxWrites
  /\ writes' = writes + 1
  /\ source' \in Sources
  /\ pending' = {s \in Slot : source'[s] # source[s]}
  /\ distinct' = (distinct /\ \A s \in Slot :
                    template[s] = "each" => Distinct(source'[s]) /\ Distinct(source[s]))
  /\ UNCHANGED template

\* The flush at the end of a batch runs the notified blocks.
Flush ==
  /\ phase # "build"
  /\ \E s \in pending : RunBlock(s) /\ pending' = pending \ {s}
  /\ UNCHANGED <<template, source, writes, distinct, host>>

\* Something outside a handle (a timer, a loaded resource) writes signals.
OutsideWrite ==
  /\ phase = "idle" /\ pending = {}
  /\ Write
  /\ UNCHANGED <<block, host>>

\* A click on an element with a listener queues a delivery.
UserClicks ==
  /\ phase = "idle" /\ pending = {} /\ Len(queue) < MaxQueue
  /\ \E el \in tree.heard : queue' = Append(queue, el)
  /\ UNCHANGED <<block, app, tree, mounted, phase, deliveries>>

\* The frame polls the deliveries and calls handle; the first handle applies
\* what instantiate logged and registers the click targets there are.
HandleBegins ==
  /\ phase = "idle" /\ pending = {}
  /\ phase' = "handle"
  /\ deliveries' = queue
  /\ queue' = <<>>
  /\ mounted' = TRUE
  /\ IF mounted
     THEN UNCHANGED <<tree, log>>
     ELSE /\ tree' = [Drained EXCEPT !.heard = targets \cap DOMAIN Drained.text]
          /\ log' = <<>>
  /\ UNCHANGED <<rows, slots, live, item, nextId, targets, app>>

\* Instance::click: the handler runs in a batch.
RouteClick ==
  /\ phase = "handle" /\ pending = {} /\ deliveries # <<>>
  /\ deliveries' = Tail(deliveries)
  /\ (Head(deliveries) \in targets /\ Write) \/ UNCHANGED app
  /\ UNCHANGED <<block, tree, mounted, phase, queue>>

HandleReturns ==
  /\ phase = "handle" /\ pending = {} /\ deliveries = <<>>
  /\ phase' = "idle"
  /\ tree' = Drained
  /\ log' = <<>>
  /\ UNCHANGED <<rows, slots, live, item, nextId, targets, app,
                 mounted, queue, deliveries>>

Next ==
  \/ Build \/ Flush \/ OutsideWrite
  \/ UserClicks \/ HandleBegins \/ RouteClick \/ HandleReturns

Spec == Init /\ [][Next]_vars

-----------------------------------------------------------------------------
(* Properties. *)

\* The variables hold values of their types (all of them).
TypeOK ==
  /\ template \in Templates
  /\ pending \subseteq Slot
  /\ rows \in [Slot -> Seq(Row)]
  /\ slots \in [Slot -> Seq(El)]
  /\ live \subseteq El /\ targets \subseteq El
  /\ item \in [El -> Texts]
  /\ nextId \in 1..MaxElements + 1
  /\ DOMAIN tree.text \subseteq El /\ tree.heard \subseteq DOMAIN tree.text
  /\ phase \in {"build", "idle", "handle"}
  /\ queue \in Seq(El) /\ deliveries \in Seq(El)

\* What the template denotes for the current signals.
Denoted == FlattenSeq(source)

AtRest == phase = "idle" /\ mounted /\ pending = {} /\ log = <<>>

\* When handle has returned, the tree shows, in order, exactly what the
\* template denotes for the current signals, whatever sequence of batches,
\* blocks and clicks led there (reconcile_each, mount_if, anchor_after and the
\* drain of app_host.rs together).  Keys must not have repeated.
TreeShowsModel ==
  AtRest /\ distinct =>
    [i \in 1..Len(tree.children) |-> tree.text[tree.children[i]]] = Denoted

\* No element outlives its branch Scope on screen, and no Scope outlives its
\* row: teardown and removal go together, repeated keys or not.
NoOrphans ==
  AtRest =>
    /\ live \subseteq {e \in El : \E s \in Slot : \E i \in 1..Len(rows[s]) :
                                    rows[s][i].el = e}
    /\ {e \in DOMAIN tree.text : tree.text[e] # Static} = live
    /\ \A i, j \in 1..Len(tree.children) :
         tree.children[i] = tree.children[j] => i = j

\* A row whose key stays keeps its element and Scope; and a change of values
\* alone patches texts in place: it creates, removes and moves nothing.
RowsAreKeyed ==
  [][ \A s \in Slot :
        template[s] = "each" /\ s \in pending \ pending' /\ distinct =>
          /\ \A i \in 1..Len(rows[s]), j \in 1..Len(rows'[s]) :
               rows[s][i].key = rows'[s][j].key => rows[s][i] = rows'[s][j]
          /\ Keys(rows[s]) = Keys(rows'[s]) =>
               \A n \in Len(log) + 1..Len(log') : log'[n].op = "text" ]_vars

\* Every element on screen with an on:click handler is heard by the host.
TargetsAreHeard ==
  AtRest => targets \cap DOMAIN tree.text \subseteq tree.heard
=============================================================================
