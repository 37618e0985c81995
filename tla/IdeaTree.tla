------------------------------ MODULE IdeaTree ------------------------------
(***************************************************************************)
(* The data structure of src/src/coordinator/idea_tree.py: a tree of       *)
(* research ideas, each node carrying the outcome of the experiment that   *)
(* explored it.  A tree is a function from the ids that exist to node      *)
(* records.  The dotted ids of the code ("ROOT", "1", "1.2") are the paths *)
(* <<>>, <<1>>, <<1, 2>>, so that parent, depth and subtree are read off   *)
(* the id, as next_child_id writes them into it.                           *)
(*                                                                         *)
(* Scores and texts (hypothesis, insight, result) are left out.           *)
(*                                                                         *)
(* In every module of this project an operator whose name begins with      *)
(* Faulty is a seeded fault: no specification uses it, the mutation runs   *)
(* put it in the place of the operator it follows to see that the          *)
(* properties notice.                                                      *)
(***************************************************************************)
EXTENDS Naturals, Sequences, FiniteSets

CONSTANTS
  MaxTreeDepth,   \* config.max_tree_depth, or NoLimit
  NoLimit,        \* Python's None for a limit
  NoBranch,       \* code_ref = None
  Trunk,          \* the working trunk branch
  Elsewhere,      \* a name that is no branch of an executor's
  MaxWidth,       \* bound: children per node
  DepthBound      \* bound: depth of the ids considered

ASSUME IdeaTreeAssumption ==
  /\ MaxTreeDepth \in Nat \cup {NoLimit}
  /\ MaxWidth \in Nat
  /\ DepthBound \in Nat

-----------------------------------------------------------------------------
Status == {"pending", "running", "done", "needs_retry", "merged", "pruned"}

\* The statuses _completed_cycles counts ("failed" is no NodeStatus, so no
\* node ever has it).
CycleStatus == {"done", "merged", "pruned", "failed", "needs_retry"}

NodeIds == UNION {[1 .. d -> 1 .. MaxWidth] : d \in 0 .. DepthBound}

Root == << >>
Depth(n) == Len(n)

\* m lies in the subtree rooted at n: what the recursion of prune_node over
\* children_ids reaches.
InSubtree(n, m) == Len(n) <= Len(m) /\ SubSeq(m, 1, Len(n)) = n

\* A branch is named after the node, the attempt of a resumed run (0 for a
\* fresh one) and the timestamp added when the name is taken (0 for none).
Branch == [node : NodeIds, suffix : Nat, stamp : Nat]

\* Whatever a report or the coordinator writes there.
CodeRef == Branch \cup {NoBranch, Trunk, Elsewhere}

ASSUME NamesAssumption ==
  /\ {NoBranch, Trunk, Elsewhere} \cap Branch = {}
  /\ NoBranch \notin {Trunk, Elsewhere}

Node == [status : Status, attempt : Nat \ {0}, code_ref : CodeRef]

NewNode == [status |-> "pending", attempt |-> 1, code_ref |-> NoBranch]

IsTree(t) == DOMAIN t \subseteq NodeIds /\ t \in [DOMAIN t -> Node]

\* A fresh run's tree: the root alone, already "done".
RootOnly == [n \in {Root} |-> [NewNode EXCEPT !.status = "done"]]

-----------------------------------------------------------------------------
Children(t, p) == {n \in DOMAIN t : Len(n) = Len(p) + 1 /\ InSubtree(p, n)}

\* One more than the highest number among the children.
NextChildId(t, p) ==
  LET nums == {n[Len(n)] : n \in Children(t, p)}
      next == CHOOSE k \in 1 .. MaxWidth + 1 :
                /\ \A j \in nums : j < k
                /\ k = 1 \/ k - 1 \in nums
  IN Append(p, next)

AddNode(t, id) ==
  [n \in DOMAIN t \cup {id} |-> IF n = id THEN NewNode ELSE t[n]]

Marked(node, s) == [node EXCEPT !.status = s]

\* prune_node: the node and its whole subtree, whatever their status.
PruneNode(t, id) ==
  [n \in DOMAIN t |->
     IF InSubtree(id, n) THEN Marked(t[n], "pruned") ELSE t[n]]

SetStatus(t, S, s) ==
  [n \in DOMAIN t |-> IF n \in S THEN Marked(t[n], s) ELSE t[n]]

WithStatus(t, s) == {n \in DOMAIN t : t[n].status = s}

\* Seeded fault: interrupted nodes are left as they are.
FaultyRequeue(t) == t

\* _initialize_tree on --resume: a node left running never completed.
Requeue(t) == SetStatus(t, WithStatus(t, "running"), "pending")

\* _completed_cycles: the nodes other than the root that consume budget.
Consumed(t) == {n \in DOMAIN t \ {Root} : t[n].status \in CycleStatus}
CompletedCycles(t) == Cardinality(Consumed(t))
=============================================================================
