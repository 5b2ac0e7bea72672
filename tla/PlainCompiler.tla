---------------------------- MODULE PlainCompiler ----------------------------
(***************************************************************************)
(* What jig promises: the compiler itself.  A call returns what the        *)
(* compiler makes of the files of its build at one instant of the call, or *)
(* fails for a reason outside of them.  Standard error is left out.        *)
(***************************************************************************)
EXTENDS Toolchain

CONSTANTS NoResult, Failed

VARIABLES
  tree,    \* tree[b]: the build tree
  busy,    \* busy[j]: the call has not returned its result yet
  result   \* result[j]: of the last call

vars == <<tree, busy, result>>

Visible(r) == [status |-> r.status, object |-> r.object, dep |-> r.dep]

Init ==
  /\ tree \in [Builds -> Unpacked]
  /\ busy = [j \in Jigs |-> FALSE]
  /\ result = [j \in Jigs |-> NoResult]

Edit(b, p, c) ==
  /\ tree' = [tree EXCEPT ![b][p] = c]
  /\ UNCHANGED <<busy, result>>

Begin(j) ==
  /\ ~busy[j]
  /\ busy' = [busy EXCEPT ![j] = TRUE]
  /\ result' = [result EXCEPT ![j] = NoResult]
  /\ UNCHANGED tree

Finish(j) ==
  /\ busy[j]
  /\ busy' = [busy EXCEPT ![j] = FALSE]
  /\ \/ result' = [result EXCEPT ![j] = Visible(Result(j, ViewOf(BuildOf[j], tree[BuildOf[j]])))]
     \/ result' = [result EXCEPT ![j] = Failed]
  /\ UNCHANGED tree

Next ==
  \/ \E b \in Builds, p \in Tree, c \in Contents \cup {NoFile} : Edit(b, p, c)
  \/ \E j \in Jigs : Begin(j) \/ Finish(j)

Spec == Init /\ [][Next]_vars
=============================================================================
