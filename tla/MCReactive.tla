------------------------------ MODULE MCReactive ------------------------------
(***************************************************************************)
(* Applications for Reactive.  Each is a small graph of the shape its name *)
(* says; nodes an application does not use are memos nobody reads.         *)
(***************************************************************************)
EXTENDS Reactive, TLC

MCNode == {"a", "b", "m", "p", "e", "f", "g"}

MCScope == {"root", "branch", "inner"}

MCHandler == {"buildRoot", "buildBranch", "buildInner", "h", "k", "leave"}

I(do, of) == [do |-> do, of |-> of, skip |-> 0]

IfZero(k) == [do |-> "ifzero", of |-> None, skip |-> k]

Done == I("return", None)

\* The parts an application leaves out.
Kinds(signals, effects) ==
  [n \in MCNode |-> IF n \in signals THEN "signal"
                    ELSE IF n \in effects THEN "effect" ELSE "memo"]

Owners(branch, inner) ==
  [n \in MCNode |-> IF n \in branch THEN "branch"
                    ELSE IF n \in inner THEN "inner" ELSE "root"]

\* What a node reads comes before it.
Order == [a |-> 1, b |-> 2, m |-> 3, p |-> 4, g |-> 5, e |-> 6, f |-> 7]

Parents == [branch |-> "root", inner |-> "branch"]

Builds == [root |-> "buildRoot", branch |-> "buildBranch", inner |-> "buildInner"]

NoCleanups == [s \in MCScope |-> <<>>]

Codes(given) == given @@ [x \in MCNode \cup MCHandler |-> <<>>]

\* A memo of a memo and a memo share an observer; m shows b unless a is
\* zero, so that a change of a may stop there.  The second effect reads a directly, and
\* chooses by it whether to read b.  One handler reads a memo between writes.
Diamond ==
  [kind |-> Kinds({"a", "b"}, {"e", "f"}), owner |-> Owners({}, {}),
   order |-> Order, parent |-> Parents, build |-> Builds, cleanups |-> NoCleanups,
   onEvent |-> {"h", "k"},
   code |-> Codes(
     "m" :> <<I("get", "a"), IfZero(2), I("clear", None), I("get", "b")>> @@
     "p" :> <<I("get", "a"), I("get", "b")>> @@
     "g" :> <<I("get", "m"), I("get", "b")>> @@
     "e" :> <<I("get", "g"), I("get", "p")>> @@
     "f" :> <<I("get", "a"), IfZero(1), I("get", "b")>> @@
     "buildRoot" :> <<I("mount", "e"), I("mount", "f")>> @@
     "h" :> <<I("set", "a"), I("get", "p"), I("set", "b")>> @@
     "k" :> <<I("peek", "b"), I("set", "b")>>)]

\* :if over a memo of a; the branch shows b and the memo, holds an :if of its
\* own over b, and writes to b when it is destroyed.
NestedIf ==
  [kind |-> Kinds({"a", "b"}, {"e", "f", "g"}),
   owner |-> Owners({"f"}, {"g"}),
   order |-> Order, parent |-> Parents, build |-> Builds,
   cleanups |-> [NoCleanups EXCEPT !["inner"] = <<"leave">>],
   onEvent |-> {"h", "k"},
   code |-> Codes(
     "m" :> <<I("get", "a")>> @@
     "e" :> <<I("get", "m"), IfZero(2), I("build", "branch"), Done,
              I("dispose", "branch")>> @@
     "f" :> <<I("get", "b"), IfZero(2), I("build", "inner"), Done,
              I("dispose", "inner")>> @@
     "g" :> <<I("get", "m"), I("get", "b")>> @@
     "buildRoot" :> <<I("mount", "e")>> @@
     "buildBranch" :> <<I("mount", "f")>> @@
     "buildInner" :> <<I("mount", "g")>> @@
     "leave" :> <<I("set", "b")>> @@
     "h" :> <<I("set", "a"), I("set", "b")>> @@
     "k" :> <<I("set", "b"), I("set", "a")>>)]

\* The same with a cleanup that only reads.
PlainIf == [NestedIf EXCEPT !.code["leave"] = <<I("get", "m"), I("get", "b")>>]

\* :each over the list a with one row: the structural effect writes the row's
\* item signal i.e. p, and the row shows it together with b.
EachRow ==
  [kind |-> Kinds({"a", "b", "p"}, {"e", "f"}),
   owner |-> Owners({"p", "f"}, {}),
   order |-> Order, parent |-> Parents, build |-> Builds, cleanups |-> NoCleanups,
   onEvent |-> {"h", "k"},
   code |-> Codes(
     "e" :> <<I("get", "a"), IfZero(3), I("build", "branch"), I("set", "p"), Done,
              I("dispose", "branch")>> @@
     "f" :> <<I("get", "p"), I("get", "b")>> @@
     "buildRoot" :> <<I("mount", "e")>> @@
     "buildBranch" :> <<I("mount", "f")>> @@
     "h" :> <<I("set", "a"), I("set", "b")>> @@
     "k" :> <<I("set", "b"), I("set", "a")>>)]

\* :if over a whose branch has a component that closes it in on_mount.
SelfClosing ==
  [kind |-> Kinds({"a"}, {"e"}), owner |-> Owners({}, {}),
   order |-> Order, parent |-> Parents, build |-> Builds, cleanups |-> NoCleanups,
   onEvent |-> {"h"},
   code |-> Codes(
     "e" :> <<I("get", "a"), IfZero(2), I("build", "branch"), Done,
              I("dispose", "branch")>> @@
     "buildRoot" :> <<I("mount", "e")>> @@
     "buildBranch" :> <<I("set", "a")>> @@
     "h" :> <<I("set", "a")>>)]

AllApps == {Diamond, NestedIf, PlainIf, EachRow}

SelfClosingApp == {SelfClosing}
=============================================================================
