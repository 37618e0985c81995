----------------------- MODULE ExecutorDispatchProofs -----------------------
(***************************************************************************)
(* Proofs about ExecutorDispatch, for every tree bound, cycle cap, retry   *)
(* limit, task list and interaction mode, in four parts: the invariant of  *)
(* the tree and the tool calls, the cap on cycles, the worktrees, and what *)
(* no step may undo.                                                       *)
(***************************************************************************)
EXTENDS ExecutorDispatch, FiniteSetTheorems, TLAPS

IInv == TypeOK /\ AttemptBounded /\ RunningIsOwned /\ Coherent

-----------------------------------------------------------------------------
(* The tree operators keep a tree a tree. *)

\* A fresh node is a node.
LEMMA NewNodeType == NewNode \in Node
  BY DEF NewNode, Node, Status, CodeRef

\* Marking a node changes its status and nothing else.
LEMMA MarkedNode ==
  ASSUME NEW r \in Node, NEW s \in Status
  PROVE  /\ Marked(r, s) \in Node
         /\ Marked(r, s).status = s
         /\ Marked(r, s).attempt = r.attempt
  BY DEF Marked, Node

\* SetStatus keeps the ids and the attempts and marks exactly the nodes of S.
LEMMA SetStatusTree ==
  ASSUME NEW t, IsTree(t), NEW S, NEW s \in Status
  PROVE  /\ IsTree(SetStatus(t, S, s))
         /\ DOMAIN SetStatus(t, S, s) = DOMAIN t
         /\ \A n \in DOMAIN t :
              /\ SetStatus(t, S, s)[n].attempt = t[n].attempt
              /\ SetStatus(t, S, s)[n].status =
                   IF n \in S THEN s ELSE t[n].status
  <1>1. \A n \in DOMAIN t : t[n] \in Node
    BY DEF IsTree
  <1>2. \A n \in DOMAIN t : /\ Marked(t[n], s) \in Node
                            /\ Marked(t[n], s).status = s
                            /\ Marked(t[n], s).attempt = t[n].attempt
    BY <1>1, MarkedNode
  <1> QED
    BY <1>1, <1>2 DEF SetStatus, IsTree

\* PruneNode keeps the ids and the attempts; a status changes to "pruned".
LEMMA PruneNodeTree ==
  ASSUME NEW t, IsTree(t), NEW id
  PROVE  /\ IsTree(PruneNode(t, id))
         /\ DOMAIN PruneNode(t, id) = DOMAIN t
         /\ \A n \in DOMAIN t :
              /\ PruneNode(t, id)[n].attempt = t[n].attempt
              /\ \/ PruneNode(t, id)[n].status = "pruned"
                 \/ /\ ~InSubtree(id, n)
                    /\ PruneNode(t, id)[n].status = t[n].status
  <1>1. \A n \in DOMAIN t : t[n] \in Node
    BY DEF IsTree
  <1>2. \A n \in DOMAIN t : /\ Marked(t[n], "pruned") \in Node
                            /\ Marked(t[n], "pruned").status = "pruned"
                            /\ Marked(t[n], "pruned").attempt = t[n].attempt
    BY <1>1, MarkedNode DEF Status
  <1> QED
    BY <1>1, <1>2 DEF PruneNode, IsTree

\* AddNode adds a fresh node and leaves the others alone.
LEMMA AddNodeTree ==
  ASSUME NEW t, IsTree(t), NEW id \in NodeIds
  PROVE  /\ IsTree(AddNode(t, id))
         /\ DOMAIN AddNode(t, id) = DOMAIN t \cup {id}
         /\ AddNode(t, id)[id] = NewNode
         /\ \A n \in DOMAIN t \ {id} : AddNode(t, id)[n] = t[n]
  BY NewNodeType DEF AddNode, IsTree

\* Setting one node to a node keeps a tree.
LEMMA ReplaceNodeTree ==
  ASSUME NEW t, IsTree(t), NEW n \in DOMAIN t, NEW r \in Node
  PROVE  /\ IsTree([t EXCEPT ![n] = r])
         /\ DOMAIN [t EXCEPT ![n] = r] = DOMAIN t
         /\ [t EXCEPT ![n] = r][n] = r
         /\ \A m \in DOMAIN t \ {n} : [t EXCEPT ![n] = r][m] = t[m]
  BY DEF IsTree

\* The number of cycles consumed is a number.
LEMMA CyclesNat ==
  ASSUME NEW t, IsFiniteSet(DOMAIN t)
  PROVE  CompletedCycles(t) \in Nat
  <1>1. Consumed(t) \subseteq DOMAIN t
    BY DEF Consumed
  <1>2. IsFiniteSet(Consumed(t))
    BY <1>1, FS_Subset
  <1> QED
    BY <1>2, FS_CardinalityType DEF CompletedCycles

-----------------------------------------------------------------------------
(* Steps that save a tree *)

\* After Save the disk holds the tree, whatever the tree is.
LEMMA SaveKeeps ==
  ASSUME NEW t, IsTree(t), IsFiniteSet(DOMAIN t), gold \in BOOLEAN, Save(t),
         \A n \in DOMAIN t : t[n].attempt <= MaxRetries + 1
  PROVE  /\ IsTree(tree') /\ IsFiniteSet(DOMAIN tree')
         /\ IsTree(disk'.tree) /\ disk'.gold \in BOOLEAN
         /\ disk'.tree = tree'
         /\ \A n \in DOMAIN tree' : tree'[n].attempt <= MaxRetries + 1
  BY DEF Save

\* The initial state satisfies the invariant: nothing runs, the root is done.
LEMMA InitIInv == Init => IInv
  <1> SUFFICES ASSUME Init PROVE IInv
    OBVIOUS
  <1> USE IdeaTreeAssumption, DispatchAssumption
  <1> DEFINE r == Marked(NewNode, "done")
  <1>1. r \in Node /\ r.attempt = 1 /\ r.status = "done"
    <2>1. NewNode.attempt = 1
      BY DEF NewNode
    <2> QED BY <2>1, NewNodeType, MarkedNode DEF Status
  <1>2. RootOnly = [n \in {Root} |-> r]
    BY DEF RootOnly, Marked
  <1>3. Root \in NodeIds
    <2>1. Root \in [1 .. 0 -> 1 .. MaxWidth]
      BY DEF Root
    <2> QED BY <2>1 DEF NodeIds
  <1>4. IsTree(RootOnly) /\ DOMAIN RootOnly = {Root}
    BY <1>1, <1>2, <1>3 DEF IsTree
  <1>5. IsFiniteSet({Root}) /\ IsFiniteSet({})
    BY FS_EmptySet, FS_Singleton
  <1>6. TypeOK
    <2>1. << >> \in Seq(Executor) /\ << >> \in Seq(NodeIds)
      OBVIOUS
    <2>2. Idle \in Tool
      BY <2>1 DEF Idle, Tool
    <2>3. IsTree(tree) /\ IsTree(disk.tree) /\ disk.gold \in BOOLEAN
      BY <1>4 DEF Init
    <2> QED BY <2>1, <2>2, <2>3 DEF Init, TypeOK
  <1>7. AttemptBounded
    BY <1>1, <1>2, <1>4 DEF Init, AttemptBounded
  <1>8. RunningIsOwned
    BY <1>1, <1>2, <1>4 DEF Init, RunningIsOwned, WithStatus
  <1>9. LiveNodes = {}
    BY DEF Init, LiveNodes, Live
  <1>10. Coherent
    BY <1>4, <1>5, <1>9 DEF Init, Coherent, Idle
  <1> QED
    BY <1>6, <1>7, <1>8, <1>10 DEF IInv

-----------------------------------------------------------------------------
(* One lemma per group of actions: each keeps the inductive invariant. *)

\* What an executor's record keeps while it advances.
LEMMA SetPcExecs ==
  ASSUME TypeOK, NEW i \in DOMAIN execs,
         NEW pc \in {"adding", "again", "running", "parsing", "ended"},
         SetPc(i, pc)
  PROVE  /\ execs' \in Seq(Executor)
         /\ DOMAIN execs' = DOMAIN execs
         /\ execs'[i].pc = pc
         /\ \A j \in DOMAIN execs : /\ execs'[j].node = execs[j].node
                                    /\ execs'[j].attempt = execs[j].attempt
         /\ \A j \in DOMAIN execs \ {i} : execs'[j] = execs[j]
  <1>1. execs \in Seq(Executor) /\ execs[i] \in Executor
    BY DEF TypeOK
  <1> DEFINE e == [execs[i] EXCEPT !.pc = pc]
  <1>2. /\ e \in Executor /\ e.pc = pc
        /\ e.node = execs[i].node /\ e.attempt = execs[i].attempt
    BY <1>1 DEF Executor
  <1>3. execs' = [execs EXCEPT ![i] = e]
    BY DEF SetPc
  <1> HIDE DEF e
  <1> QED
    BY <1>1, <1>2, <1>3

\* The first step of an executor is well-formed.
LEMMA LaunchType ==
  ASSUME TypeOK, NEW n \in DOMAIN tree, NEW resume \in BOOLEAN
  PROVE  /\ Launch(n, resume) \in Executor
         /\ Launch(n, resume).node = n
         /\ Launch(n, resume).pc # "ended"
         /\ Launch(n, resume).attempt =
              IF resume THEN tree[n].attempt + 1 ELSE tree[n].attempt
  <1>1. tree[n] \in Node /\ n \in NodeIds
    BY DEF TypeOK, IsTree
  <1>2. /\ tree[n].attempt \in Nat \ {0}
        /\ tree[n].code_ref \in Branch \cup {NoBranch, Trunk, Elsewhere}
    BY <1>1 DEF Node, CodeRef
  <1> DEFINE a == IF resume THEN tree[n].attempt + 1 ELSE tree[n].attempt
             f == IF Continues(n, resume) THEN tree[n].code_ref ELSE Trunk
             b == BaseName(n, IF Continues(n, resume) THEN a ELSE 0)
  <1>3. a \in Nat \ {0}
    BY <1>2
  <1>4. f \in Branch \cup {Trunk, Elsewhere}
    BY <1>2 DEF Continues
  <1>5. b \in Branch
    BY <1>1, <1>3 DEF BaseName, Branch
  <1>6. Launch(n, resume) =
          [node |-> n, attempt |-> a, from |-> f, branch |-> b,
           pc |-> IF b \in worktrees THEN "clearing" ELSE "adding"]
    BY DEF Launch
  <1> HIDE DEF a, f, b
  <1>7. Launch(n, resume) \in Executor /\ Launch(n, resume).attempt = a
        /\ Launch(n, resume).node = n /\ Launch(n, resume).pc # "ended"
    BY <1>1, <1>3, <1>4, <1>5, <1>6 DEF Executor
  <1> QED
    BY <1>7 DEF a

\* The record of a task that is refused is that of an executor.
LEMMA RefusedType ==
  ASSUME NEW n \in NodeIds
  PROVE  /\ Refused(n) \in Executor /\ Refused(n).pc = "ended"
         /\ Refused(n).attempt = 1
  <1>1. BaseName(n, 0) \in Branch
    BY DEF BaseName, Branch
  <1> QED
    BY <1>1 DEF Refused, Executor

\* A dispatch of any task list keeps the invariant: the nodes it marks running
\* are exactly those of the executors it starts.
LEMMA DispatchStep ==
  ASSUME IInv, up, execs = << >>,
         NEW tasks \in Seq(NodeIds), NEW resume \in BOOLEAN,
         resume => \A i \in DOMAIN tasks :
                     /\ tasks[i] \in DOMAIN tree
                     /\ tree[tasks[i]].attempt <= MaxRetries,
         Dispatch(tasks, resume)
  PROVE  IInv'
  <1> USE DispatchAssumption
  <1> DEFINE ok == {j \in DOMAIN tasks : Dispatchable(tasks[j])}
             started == {tasks[i] : i \in ok}
             t == SetStatus(tree, started, "running")
  <1>1. /\ execs' = [i \in DOMAIN tasks |->
                 IF Dispatchable(tasks[i]) THEN Launch(tasks[i], resume)
                                           ELSE Refused(tasks[i])]
        /\ Save(t)
        /\ tool' = [kind |-> "dispatch", tasks |-> << >>, kept |-> << >>]
        /\ stray' = stray \ started
        /\ UNCHANGED <<up, gold, branches, worktrees>>
    BY DEF Dispatch, git
  <1>2. /\ IsTree(tree) /\ IsFiniteSet(DOMAIN tree)
        /\ \A n \in DOMAIN tree : tree[n] \in Node
                                  /\ tree[n].attempt <= MaxRetries + 1
    BY DEF IInv, TypeOK, Coherent, IsTree, AttemptBounded
  <1>3. \A i \in ok : tasks[i] \in DOMAIN tree
    BY DEF Dispatchable
  <1>4. /\ IsTree(t) /\ DOMAIN t = DOMAIN tree
        /\ \A n \in DOMAIN tree :
             /\ t[n].attempt = tree[n].attempt
             /\ t[n].status = IF n \in started THEN "running" ELSE tree[n].status
    BY <1>2, SetStatusTree DEF Status
  <1>5. /\ IsTree(tree') /\ IsFiniteSet(DOMAIN tree')
        /\ IsTree(disk'.tree) /\ disk'.gold \in BOOLEAN
        /\ disk'.tree = tree'
        /\ \A n \in DOMAIN tree' : tree'[n].attempt <= MaxRetries + 1
    <2>1. gold \in BOOLEAN
      BY DEF IInv, TypeOK
    <2>2. \A n \in DOMAIN t : t[n].attempt <= MaxRetries + 1
      BY <1>2, <1>4
    <2> HIDE DEF t
    <2> QED BY <1>1, <1>2, <1>4, <2>1, <2>2, SaveKeeps
  <1>6. tree' = t
    BY <1>1 DEF Save
  <1> HIDE DEF t
  <1>7. \A i \in DOMAIN tasks :
          /\ i \in ok => /\ execs'[i] \in Executor
                         /\ execs'[i].node = tasks[i]
                         /\ execs'[i].pc # "ended"
                         /\ execs'[i].attempt <= MaxRetries + 1
          /\ i \notin ok => /\ execs'[i] \in Executor
                            /\ execs'[i].pc = "ended"
                            /\ execs'[i].attempt <= MaxRetries + 1
    <2> SUFFICES ASSUME NEW i \in DOMAIN tasks
                 PROVE  /\ i \in ok => /\ execs'[i] \in Executor
                                       /\ execs'[i].node = tasks[i]
                                       /\ execs'[i].pc # "ended"
                                       /\ execs'[i].attempt <= MaxRetries + 1
                        /\ i \notin ok => /\ execs'[i] \in Executor
                                          /\ execs'[i].pc = "ended"
                                          /\ execs'[i].attempt <= MaxRetries + 1
      OBVIOUS
    <2>1. CASE i \in ok
      <3>1. execs'[i] = Launch(tasks[i], resume) /\ tasks[i] \in DOMAIN tree
        BY <1>1, <1>3, <2>1
      <3>2. TypeOK
        BY DEF IInv
      <3>3. /\ execs'[i] \in Executor /\ execs'[i].node = tasks[i]
            /\ execs'[i].pc # "ended"
            /\ execs'[i].attempt = IF resume THEN tree[tasks[i]].attempt + 1
                                             ELSE tree[tasks[i]].attempt
        BY <3>1, <3>2, LaunchType
      <3>4. tree[tasks[i]].attempt \in Nat
        BY <1>2, <3>1 DEF Node
      <3>5. execs'[i].attempt <= MaxRetries + 1
        BY <1>2, <3>1, <3>3, <3>4
      <3> QED BY <2>1, <3>3, <3>5
    <2>2. CASE i \notin ok
      <3>1. execs'[i] = Refused(tasks[i]) /\ tasks[i] \in NodeIds
        BY <1>1, <2>2
      <3> QED BY <2>2, <3>1, RefusedType
    <2> QED BY <2>1, <2>2
  <1>8. execs' \in Seq(Executor) /\ DOMAIN execs' = DOMAIN tasks
    <2>1. DOMAIN tasks = 1 .. Len(tasks) /\ Len(tasks) \in Nat
      OBVIOUS
    <2>2. DOMAIN execs' = DOMAIN tasks /\ execs' \in [1 .. Len(tasks) -> Executor]
      BY <1>1, <1>7, <2>1
    <2> QED BY <2>1, <2>2
  <1>9. LiveNodes' = started
    <2>1. \A i \in DOMAIN tasks : (execs'[i].pc # "ended") <=> i \in ok
      BY <1>7
    <2>2. Live' = ok
      BY <1>8, <2>1 DEF Live
    <2>3. LiveNodes' = {execs'[i].node : i \in ok}
      BY <2>2 DEF LiveNodes
    <2> QED BY <1>7, <2>3
  <1>10. TypeOK'
    <2>1. tool' \in Tool
      <3>1. << >> \in Seq(NodeIds)
        OBVIOUS
      <3> QED BY <1>1, <3>1 DEF Tool
    <2>2. /\ up \in BOOLEAN /\ gold \in BOOLEAN /\ branches \subseteq Branch
          /\ worktrees \subseteq branches /\ stray \subseteq NodeIds
      BY DEF IInv, TypeOK
    <2> QED BY <1>1, <1>5, <1>8, <2>1, <2>2 DEF TypeOK
  <1>11. AttemptBounded'
    BY <1>5, <1>7, <1>8 DEF AttemptBounded
  <1>12. RunningIsOwned'
    <2>1. \A n \in DOMAIN tree : tree[n].status = "running" =>
                                   n \in LiveNodes \cup stray
      BY DEF IInv, RunningIsOwned, WithStatus
    <2>2. LiveNodes = {}
      BY DEF LiveNodes, Live
    <2>3. \A n \in DOMAIN tree' : tree'[n].status = "running" =>
                                    n \in started \cup (stray \ started)
      BY <1>4, <1>6, <2>1, <2>2
    <2> QED BY <1>1, <1>9, <2>3 DEF RunningIsOwned, WithStatus
  <1>13. Coherent'
    <2>1. LiveNodes' \subseteq DOMAIN tree'
      BY <1>3, <1>4, <1>6, <1>9
    <2>2. IsFiniteSet(branches')
      BY <1>1 DEF IInv, Coherent
    <2> QED BY <1>1, <1>5, <2>1, <2>2 DEF Coherent
  <1> QED
    BY <1>10, <1>11, <1>12, <1>13 DEF IInv

\* Steps of an executor that leave the tree alone: whoever is live stays live.
LEMMA QuietStep ==
  ASSUME IInv, NEW i \in DOMAIN execs, execs[i].pc # "ended",
         execs' \in Seq(Executor), DOMAIN execs' = DOMAIN execs,
         \A j \in DOMAIN execs : /\ execs'[j].node = execs[j].node
                                 /\ execs'[j].attempt = execs[j].attempt,
         \A j \in DOMAIN execs \ {i} : execs'[j] = execs[j],
         execs'[i].pc # "ended",
         branches' \subseteq Branch, IsFiniteSet(branches'),
         worktrees' \subseteq branches',
         UNCHANGED <<up, tree, gold, disk, tool, stray>>
  PROVE  IInv'
  <1>1. Live' = Live
    BY DEF Live
  <1>2. LiveNodes' = LiveNodes
    <2>1. \A j \in Live : execs'[j].node = execs[j].node
      BY DEF Live
    <2> QED BY <1>1, <2>1 DEF LiveNodes
  <1>3. TypeOK'
    BY DEF IInv, TypeOK
  <1>4. AttemptBounded'
    BY DEF IInv, AttemptBounded
  <1>5. RunningIsOwned'
    BY <1>2 DEF IInv, RunningIsOwned
  <1>6. Coherent'
    <2>1. tool.kind = "dispatch" \/ execs = << >>
      BY DEF IInv, Coherent
    <2>2. tool.kind = "dispatch"
      BY <2>1
    <2> QED BY <1>2, <2>2 DEF IInv, Coherent
  <1> QED
    BY <1>3, <1>4, <1>5, <1>6 DEF IInv

\* A name git makes a branch of is a branch's and was not taken.
LEMMA CreatesName ==
  ASSUME IInv, NEW i \in DOMAIN execs, NEW name \in Names(i), Creates(i, name)
  PROVE  /\ name \in Branch /\ name \notin branches
         /\ branches' = branches \cup {name}
         /\ branches' \subseteq Branch /\ IsFiniteSet(branches')
         /\ execs[i].pc \in {"adding", "again"}
  <1> USE DispatchAssumption
  <1>1. /\ execs[i] \in Executor /\ branches \subseteq Branch
        /\ IsFiniteSet(branches)
    BY DEF IInv, TypeOK, Coherent
  <1>2. execs[i].branch \in Branch
    BY <1>1 DEF Executor
  <1>3. \A k \in 1 .. MaxBranches : [execs[i].branch EXCEPT !.stamp = k] \in Branch
    BY <1>2 DEF Branch
  <1>4. name \in Branch
    BY <1>2, <1>3 DEF Names
  <1>5. /\ name \notin branches /\ branches' = branches \cup {name}
        /\ execs[i].pc \in {"adding", "again"}
    BY DEF Creates, Untaken
  <1> QED
    BY <1>1, <1>4, <1>5, FS_AddElement

\* Only an executor that has not ended takes a step, and the call goes on.
LEMMA ExecutorLive ==
  ASSUME NEW i, ExecutorStep(i)
  PROVE  execs[i].pc # "ended" /\ tool' = tool
  <1>1. CASE AddWorktree(i)
    BY <1>1 DEF AddWorktree, Creates
  <1>2. CASE TryAgain(i) \/ WorktreeFailed(i)
    BY <1>2 DEF TryAgain, WorktreeFailed, At
  <1>3. CASE ClearWorktree(i) \/ CloseWorktree(i) \/ RecordSome(i) \/ ParseRaised(i)
    BY <1>3 DEF ClearWorktree, CloseWorktree, RecordSome, Record, ParseRaised, At
  <1> QED
    BY <1>1, <1>2, <1>3 DEF ExecutorStep

\* Clearing a stale directory and the tries to add a worktree keep the
\* invariant.
LEMMA WorktreeStep ==
  ASSUME IInv, NEW i \in DOMAIN execs,
         \/ ClearWorktree(i) \/ AddWorktree(i) \/ TryAgain(i)
         \/ CloseWorktree(i)
  PROVE  IInv'
  <1>1. /\ TypeOK /\ execs \in Seq(Executor) /\ execs[i] \in Executor
        /\ branches \subseteq Branch /\ worktrees \subseteq branches
        /\ IsFiniteSet(branches)
    BY DEF IInv, TypeOK, Coherent
  <1>2. CASE ClearWorktree(i)
    <2>1. SetPc(i, "adding") /\ execs[i].pc = "clearing"
      BY <1>2 DEF ClearWorktree, At
    <2>2. /\ execs' \in Seq(Executor) /\ DOMAIN execs' = DOMAIN execs
          /\ execs'[i].pc = "adding"
          /\ \A j \in DOMAIN execs : /\ execs'[j].node = execs[j].node
                                     /\ execs'[j].attempt = execs[j].attempt
          /\ \A j \in DOMAIN execs \ {i} : execs'[j] = execs[j]
      BY <1>1, <2>1, SetPcExecs
    <2>3. /\ branches' = branches /\ worktrees' \subseteq branches
          /\ UNCHANGED <<up, tree, gold, disk, tool, stray>>
      BY <1>1, <1>2 DEF ClearWorktree
    <2> QED BY <1>1, <2>1, <2>2, <2>3, QuietStep
  <1>3. CASE AddWorktree(i)
    <2>0. PICK name \in Names(i) :
            /\ Creates(i, name)
            /\ worktrees' = worktrees \cup {name}
            /\ execs' = [execs EXCEPT ![i].pc = "running", ![i].branch = name]
      BY <1>3 DEF AddWorktree
    <2> DEFINE e == [execs[i] EXCEPT !.pc = "running", !.branch = name]
    <2>1. /\ worktrees' = worktrees \cup {name}
          /\ execs' = [execs EXCEPT ![i] = e]
          /\ UNCHANGED <<up, tree, gold, disk, tool, stray>>
      BY <1>3, <2>0 DEF AddWorktree
    <2>2. /\ name \in Branch /\ branches' = branches \cup {name}
          /\ branches' \subseteq Branch /\ IsFiniteSet(branches')
          /\ execs[i].pc \in {"adding", "again"}
      BY <2>0, CreatesName
    <2>3. /\ e \in Executor /\ e.pc = "running"
          /\ e.node = execs[i].node /\ e.attempt = execs[i].attempt
      BY <1>1, <2>2 DEF Executor
    <2> HIDE DEF e
    <2>4. /\ execs' \in Seq(Executor) /\ DOMAIN execs' = DOMAIN execs
          /\ execs'[i].pc = "running"
          /\ \A j \in DOMAIN execs : /\ execs'[j].node = execs[j].node
                                     /\ execs'[j].attempt = execs[j].attempt
          /\ \A j \in DOMAIN execs \ {i} : execs'[j] = execs[j]
      BY <1>1, <2>1, <2>3
    <2>5. worktrees' \subseteq branches'
      BY <1>1, <2>1, <2>2
    <2> QED BY <2>1, <2>2, <2>4, <2>5, QuietStep
  <1>5. CASE TryAgain(i)
    <2>1. SetPc(i, "again") /\ execs[i].pc = "adding"
      BY <1>5 DEF TryAgain, At
    <2>2. /\ execs' \in Seq(Executor) /\ DOMAIN execs' = DOMAIN execs
          /\ execs'[i].pc = "again"
          /\ \A j \in DOMAIN execs : /\ execs'[j].node = execs[j].node
                                     /\ execs'[j].attempt = execs[j].attempt
          /\ \A j \in DOMAIN execs \ {i} : execs'[j] = execs[j]
      BY <1>1, <2>1, SetPcExecs
    <2>3. /\ branches' \subseteq Branch /\ IsFiniteSet(branches')
          /\ worktrees' \subseteq branches'
      <3>1. CASE UNCHANGED git
        BY <1>1, <3>1 DEF git
      <3>2. ASSUME NEW name \in Names(i), Creates(i, name),
                   worktrees' \in {worktrees, worktrees \cup {name}}
            PROVE  /\ branches' \subseteq Branch /\ IsFiniteSet(branches')
                   /\ worktrees' \subseteq branches'
        BY <1>1, <3>2, CreatesName
      <3> QED BY <1>5, <3>1, <3>2 DEF TryAgain
    <2>4. UNCHANGED <<up, tree, gold, disk, tool, stray>>
      BY <1>5 DEF TryAgain
    <2> QED BY <2>1, <2>2, <2>3, <2>4, QuietStep
  <1>4. CASE CloseWorktree(i)
    <2>1. SetPc(i, "parsing") /\ execs[i].pc = "running"
      BY <1>4 DEF CloseWorktree, At
    <2>2. /\ execs' \in Seq(Executor) /\ DOMAIN execs' = DOMAIN execs
          /\ execs'[i].pc = "parsing"
          /\ \A j \in DOMAIN execs : /\ execs'[j].node = execs[j].node
                                     /\ execs'[j].attempt = execs[j].attempt
          /\ \A j \in DOMAIN execs \ {i} : execs'[j] = execs[j]
      BY <1>1, <2>1, SetPcExecs
    <2>3. /\ branches' = branches /\ worktrees' \subseteq branches
          /\ UNCHANGED <<up, tree, gold, disk, tool, stray>>
      BY <1>1, <1>4 DEF CloseWorktree
    <2> QED BY <1>1, <2>1, <2>2, <2>3, QuietStep
  <1> QED
    BY <1>2, <1>3, <1>4, <1>5

\* An executor that ends and leaves its node in a status other than running,
\* the node's attempt within the limit.
LEMMA EndingStep ==
  ASSUME IInv, NEW i \in DOMAIN execs, execs[i].pc # "ended",
         SetPc(i, "ended"), NEW t, Save(t), IsTree(t), DOMAIN t = DOMAIN tree,
         t[execs[i].node].status # "running",
         t[execs[i].node].attempt <= MaxRetries + 1,
         \A n \in DOMAIN tree \ {execs[i].node} :
           t[n].status = tree[n].status /\ t[n].attempt = tree[n].attempt,
         branches' \subseteq Branch, IsFiniteSet(branches'),
         worktrees' \subseteq branches', UNCHANGED <<up, gold, tool, stray>>
  PROVE  IInv'
  <1> DEFINE n == execs[i].node
  <1>1. /\ TypeOK /\ gold \in BOOLEAN /\ IsFiniteSet(DOMAIN tree)
        /\ \A m \in DOMAIN tree : tree[m].attempt <= MaxRetries + 1
    BY DEF IInv, TypeOK, Coherent, AttemptBounded
  <1>2. \A m \in DOMAIN t : t[m].attempt <= MaxRetries + 1
    BY <1>1
  <1>3. /\ IsTree(tree') /\ IsFiniteSet(DOMAIN tree')
        /\ IsTree(disk'.tree) /\ disk'.gold \in BOOLEAN
        /\ disk'.tree = tree'
        /\ \A m \in DOMAIN tree' : tree'[m].attempt <= MaxRetries + 1
    BY <1>1, <1>2, SaveKeeps
  <1>4. /\ execs' \in Seq(Executor) /\ DOMAIN execs' = DOMAIN execs
        /\ execs'[i].pc = "ended"
        /\ \A j \in DOMAIN execs : /\ execs'[j].node = execs[j].node
                                   /\ execs'[j].attempt = execs[j].attempt
        /\ \A j \in DOMAIN execs \ {i} : execs'[j] = execs[j]
    BY <1>1, SetPcExecs
  <1>5. Live' = Live \ {i}
    BY <1>4 DEF Live
  <1>6. /\ LiveNodes' \subseteq LiveNodes
        /\ \A m \in LiveNodes : m # n => m \in LiveNodes'
    <2>1. LiveNodes' = {execs[j].node : j \in Live \ {i}}
      BY <1>4, <1>5 DEF LiveNodes, Live
    <2> QED BY <2>1 DEF LiveNodes
  <1>7. TypeOK'
    BY <1>3, <1>4 DEF IInv, TypeOK
  <1>8. AttemptBounded'
    BY <1>3, <1>4 DEF IInv, AttemptBounded
  <1>9. RunningIsOwned'
    <2>1. tree' = t
      BY DEF Save
    <2>2. ASSUME up, NEW m \in DOMAIN tree', tree'[m].status = "running"
          PROVE  m \in LiveNodes' \cup stray'
      <3>1. m # n /\ m \in DOMAIN tree /\ tree[m].status = "running"
        BY <2>1, <2>2
      <3>2. m \in LiveNodes \cup stray
        BY <2>2, <3>1 DEF IInv, RunningIsOwned, WithStatus
      <3> QED BY <1>6, <3>1, <3>2
    <2> QED BY <2>2 DEF RunningIsOwned, WithStatus
  <1>10. Coherent'
    <2>1. tool.kind = "dispatch" \/ execs = << >>
      BY DEF IInv, Coherent
    <2>2. tool.kind = "dispatch"
      BY <2>1
    <2>3. tree' = t /\ LiveNodes' \subseteq DOMAIN tree'
      BY <1>6 DEF Save, IInv, Coherent
    <2> QED BY <1>3, <2>2, <2>3 DEF IInv, Coherent
  <1> QED
    BY <1>7, <1>8, <1>9, <1>10 DEF IInv

\* Recording a result keeps the invariant: the attempt is the executor's, the
\* node is no longer running.
LEMMA RecordStep ==
  ASSUME IInv, NEW i \in DOMAIN execs, WorktreeFailed(i) \/ RecordSome(i)
  PROVE  IInv'
  <1> DEFINE n == execs[i].node
  <1>1. /\ execs \in Seq(Executor) /\ execs[i] \in Executor
        /\ IsTree(tree)
        /\ execs[i].attempt <= MaxRetries + 1
        /\ \A m \in DOMAIN tree : tree[m].attempt <= MaxRetries + 1
        /\ LiveNodes \subseteq DOMAIN tree
        /\ branches \subseteq Branch /\ IsFiniteSet(branches)
        /\ worktrees \subseteq branches
    BY DEF IInv, TypeOK, AttemptBounded, Coherent
  <1>2. execs[i].pc # "ended"
    BY DEF WorktreeFailed, RecordSome, Record, At
  <1>3. n \in DOMAIN tree
    BY <1>1, <1>2 DEF LiveNodes, Live
  <1>4. CASE WorktreeFailed(i)
    <2> DEFINE t == SetStatus(tree, {n}, "pending")
    <2>1. /\ Save(t) /\ SetPc(i, "ended")
          /\ UNCHANGED <<up, gold, tool, worktrees, stray>>
      BY <1>4 DEF WorktreeFailed
    <2>5. /\ branches' \subseteq Branch /\ IsFiniteSet(branches')
          /\ worktrees' \subseteq branches'
      <3>1. ASSUME NEW name \in Names(i), Creates(i, name)
            PROVE  /\ branches' \subseteq Branch /\ IsFiniteSet(branches')
                   /\ branches \subseteq branches'
        BY <3>1, CreatesName
      <3> QED BY <1>1, <1>4, <2>1, <3>1 DEF WorktreeFailed
    <2>2. /\ IsTree(t) /\ DOMAIN t = DOMAIN tree
          /\ \A m \in DOMAIN tree :
               /\ t[m].attempt = tree[m].attempt
               /\ t[m].status = IF m \in {n} THEN "pending" ELSE tree[m].status
      BY <1>1, SetStatusTree DEF Status
    <2> HIDE DEF t
    <2>3. t[n].status # "running" /\ t[n].attempt <= MaxRetries + 1
      BY <1>1, <1>3, <2>2
    <2>4. \A m \in DOMAIN tree \ {n} :
            t[m].status = tree[m].status /\ t[m].attempt = tree[m].attempt
      BY <2>2
    <2> QED BY <1>2, <2>1, <2>2, <2>3, <2>4, <2>5, EndingStep
  <1>5. CASE RecordSome(i)
    <2>1. PICK o \in Outcome, code \in ReportedRefs \cup {execs[i].branch} :
            Record(i, o, code)
      BY <1>5 DEF RecordSome
    <2> DEFINE r == [status   |-> Classify(o), attempt |-> execs[i].attempt,
                     code_ref |-> code]
               t == [tree EXCEPT ![n] = r]
    <2>2. /\ Save(t) /\ SetPc(i, "ended")
          /\ UNCHANGED <<up, gold, tool, stray>>
          /\ branches' \subseteq Branch /\ IsFiniteSet(branches')
          /\ worktrees' \subseteq branches'
      BY <1>1, <2>1 DEF Record, git
    <2>3. Classify(o) \in {"done", "needs_retry"}
      BY DEF Classify
    <2>4. r \in Node /\ r.status # "running" /\ r.attempt = execs[i].attempt
      <3>1. code \in CodeRef /\ execs[i].attempt \in Nat \ {0}
        BY <1>1, DispatchAssumption DEF Executor, CodeRef
      <3>2. Classify(o) \in Status
        BY <2>3 DEF Status
      <3> QED BY <2>3, <3>1, <3>2 DEF Node
    <2> HIDE DEF r
    <2>5. /\ IsTree(t) /\ DOMAIN t = DOMAIN tree /\ t[n] = r
          /\ \A m \in DOMAIN tree \ {n} : t[m] = tree[m]
      BY <1>1, <1>3, <2>4, ReplaceNodeTree
    <2> HIDE DEF t
    <2>6. t[n].status # "running" /\ t[n].attempt <= MaxRetries + 1
      BY <1>1, <2>4, <2>5
    <2>7. \A m \in DOMAIN tree \ {n} :
            t[m].status = tree[m].status /\ t[m].attempt = tree[m].attempt
      BY <2>5
    <2> QED BY <1>2, <2>2, <2>5, <2>6, <2>7, EndingStep
  <1> QED
    BY <1>4, <1>5

\* A run lost to an exception: its node is stray unless another executor of
\* the call has it.
LEMMA ParseRaisedStep ==
  ASSUME IInv, NEW i \in DOMAIN execs, ParseRaised(i)
  PROVE  IInv'
  <1> DEFINE n == execs[i].node
  <1>1. /\ TypeOK /\ execs[i].pc # "ended" /\ SetPc(i, "ended")
        /\ UNCHANGED <<up, tree, gold, disk, tool, branches, worktrees>>
    BY DEF ParseRaised, At, git, IInv
  <1>2. /\ execs' \in Seq(Executor) /\ DOMAIN execs' = DOMAIN execs
        /\ execs'[i].pc = "ended"
        /\ \A j \in DOMAIN execs : /\ execs'[j].node = execs[j].node
                                   /\ execs'[j].attempt = execs[j].attempt
        /\ \A j \in DOMAIN execs \ {i} : execs'[j] = execs[j]
    BY <1>1, SetPcExecs
  <1>3. LiveNodes' = {execs[j].node : j \in Live \ {i}}
    BY <1>2 DEF LiveNodes, Live
  <1>4. n \in NodeIds
    <2>1. execs[i] \in Executor
      BY <1>1 DEF TypeOK
    <2> QED BY <2>1 DEF Executor
  <1>5. /\ stray \subseteq stray' /\ stray' \subseteq stray \cup {n}
        /\ \/ n \in stray'
           \/ tree[n].status # "running"
           \/ n \in LiveNodes'
    BY <1>3 DEF ParseRaised
  <1>6. TypeOK'
    BY <1>1, <1>2, <1>4, <1>5 DEF TypeOK
  <1>7. AttemptBounded'
    BY <1>1, <1>2 DEF IInv, AttemptBounded
  <1>8. RunningIsOwned'
    <2>1. \A m \in LiveNodes : m # n => m \in LiveNodes'
      BY <1>3 DEF LiveNodes
    <2>2. ASSUME up, NEW m \in DOMAIN tree, tree[m].status = "running"
          PROVE  m \in LiveNodes' \cup stray'
      <3>1. m \in LiveNodes \cup stray
        BY <2>2 DEF IInv, RunningIsOwned, WithStatus
      <3> QED BY <1>5, <2>1, <2>2, <3>1
    <2> QED BY <1>1, <2>2 DEF RunningIsOwned, WithStatus
  <1>9. Coherent'
    <2>1. tool.kind = "dispatch"
      BY <1>1 DEF IInv, Coherent
    <2>2. LiveNodes' \subseteq LiveNodes
      BY <1>3 DEF LiveNodes
    <2> QED BY <1>1, <2>1, <2>2 DEF IInv, Coherent
  <1> QED
    BY <1>6, <1>7, <1>8, <1>9 DEF IInv

\* A step between executors: the tree is replaced by one with at least the
\* same ids, and whatever is running in it is stray.
LEMMA TreeStep ==
  ASSUME IInv, up, execs = << >>, execs' = << >>,
         NEW t, Save(t), IsTree(t), IsFiniteSet(DOMAIN t),
         \A n \in DOMAIN t : t[n].attempt <= MaxRetries + 1,
         stray' \subseteq NodeIds,
         \A n \in DOMAIN t : t[n].status = "running" => n \in stray',
         tool' \in Tool, tool'.kind \notin {"add"},
         tool'.kind = "review" => tool'.tasks # << >>,
         UNCHANGED <<up, gold, git>>
  PROVE  IInv'
  <1>1. gold \in BOOLEAN
    BY DEF IInv, TypeOK
  <1>2. /\ IsTree(tree') /\ IsFiniteSet(DOMAIN tree')
        /\ IsTree(disk'.tree) /\ disk'.gold \in BOOLEAN
        /\ disk'.tree = tree'
        /\ \A n \in DOMAIN tree' : tree'[n].attempt <= MaxRetries + 1
    BY <1>1, SaveKeeps
  <1>3. LiveNodes' = {}
    BY DEF LiveNodes, Live
  <1>4. TypeOK'
    <2>1. << >> \in Seq(Executor)
      OBVIOUS
    <2> QED BY <1>2, <2>1 DEF IInv, TypeOK, git
  <1>5. AttemptBounded'
    BY <1>2 DEF AttemptBounded
  <1>6. RunningIsOwned'
    BY DEF RunningIsOwned, WithStatus, Save
  <1>7. Coherent'
    BY <1>2, <1>3 DEF IInv, Coherent, git
  <1> QED
    BY <1>4, <1>5, <1>6, <1>7 DEF IInv

\* What the steps below start from: no executor, every running node stray.
LEMMA BetweenExecutors ==
  ASSUME IInv, up, tool.kind # "dispatch"
  PROVE  /\ execs = << >> /\ IsTree(tree) /\ IsFiniteSet(DOMAIN tree)
         /\ stray \subseteq NodeIds /\ tool \in Tool
         /\ \A n \in DOMAIN tree :
              /\ tree[n] \in Node
              /\ tree[n].attempt <= MaxRetries + 1
              /\ tree[n].status = "running" => n \in stray
  <1>1. execs = << >> /\ IsFiniteSet(DOMAIN tree)
    BY DEF IInv, Coherent
  <1>2. LiveNodes = {}
    BY <1>1 DEF LiveNodes, Live
  <1>3. IsTree(tree) /\ stray \subseteq NodeIds /\ tool \in Tool
    BY DEF IInv, TypeOK
  <1>4. \A n \in DOMAIN tree : tree[n] \in Node
    BY <1>3 DEF IsTree
  <1>5. \A n \in DOMAIN tree : /\ tree[n].attempt <= MaxRetries + 1
                               /\ tree[n].status = "running" => n \in stray
    BY <1>2 DEF IInv, AttemptBounded, RunningIsOwned, WithStatus
  <1> QED
    BY <1>1, <1>3, <1>4, <1>5

\* A tool starts or goes on waiting for a human; nothing else changes.
LEMMA AwaitStep ==
  ASSUME IInv, up, tool.kind # "dispatch",
         tool' \in Tool, tool'.kind # "dispatch",
         tool'.kind = "add" => tool'.tasks # << >>
                               /\ CanAddUnder(tool'.tasks[1]),
         tool'.kind = "review" => tool'.tasks # << >>,
         UNCHANGED <<up, tree, gold, disk, execs, git, stray>>
  PROVE  IInv'
  <1>1. LiveNodes' = LiveNodes
    BY DEF LiveNodes, Live
  <1>2. TypeOK'
    BY DEF IInv, TypeOK, git
  <1>3. AttemptBounded'
    BY DEF IInv, AttemptBounded
  <1>4. RunningIsOwned'
    BY <1>1 DEF IInv, RunningIsOwned
  <1>5. Coherent'
    BY <1>1 DEF IInv, Coherent, CanAddUnder, git
  <1> QED
    BY <1>2, <1>3, <1>4, <1>5 DEF IInv

\* The calls and decisions that await a human, written as AwaitStep wants it.
LEMMA AwaitTypes ==
  ASSUME NEW tasks \in Seq(NodeIds), NEW kept \in Seq(NodeIds),
         NEW kind \in {"idle", "add", "review", "reviewAll", "dispatch"}
  PROVE  [kind |-> kind, tasks |-> tasks, kept |-> kept] \in Tool
  BY DEF Tool

\* The idle tool is a tool.
LEMMA IdleType ==
  /\ Idle \in Tool /\ Idle.kind = "idle" /\ << >> \in Seq(Executor)
  <1>1. << >> \in Seq(NodeIds) /\ << >> \in Seq(Executor)
    OBVIOUS
  <1>2. Idle \in Tool
    BY <1>1, AwaitTypes DEF Idle
  <1> QED
    BY <1>1, <1>2 DEF Idle

\* Adding a node under a parent that admits one keeps the invariant.
LEMMA AddUnderStep ==
  ASSUME IInv, up, tool.kind # "dispatch", NEW p, CanAddUnder(p),
         AddUnder(p), tool' \in Tool, tool'.kind = "idle"
  PROVE  IInv'
  <1> USE DispatchAssumption
  <1> DEFINE id == NextChildId(tree, p)
             t == AddNode(tree, id)
  <1>1. /\ Save(t) /\ execs' = execs
        /\ UNCHANGED <<up, gold, git, stray>>
    BY DEF AddUnder
  <1>2. id \in NodeIds
    BY DEF CanAddUnder
  <1> HIDE DEF id
  <1>3. /\ execs = << >> /\ IsTree(tree) /\ IsFiniteSet(DOMAIN tree)
        /\ stray \subseteq NodeIds
        /\ \A n \in DOMAIN tree :
             /\ tree[n].attempt <= MaxRetries + 1
             /\ tree[n].status = "running" => n \in stray
    BY BetweenExecutors
  <1>4. /\ IsTree(t) /\ DOMAIN t = DOMAIN tree \cup {id}
        /\ t[id] = NewNode
        /\ \A n \in DOMAIN tree \ {id} : t[n] = tree[n]
    BY <1>2, <1>3, AddNodeTree
  <1>5. IsFiniteSet(DOMAIN t)
    BY <1>3, <1>4, FS_AddElement
  <1> HIDE DEF t
  <1>6. \A n \in DOMAIN t : /\ t[n].attempt <= MaxRetries + 1
                            /\ t[n].status = "running" => n \in stray
    <2>1. NewNode.attempt = 1 /\ NewNode.status = "pending"
      BY DEF NewNode
    <2> QED BY <1>3, <1>4, <2>1
  <1> QED
    BY <1>1, <1>3, <1>4, <1>5, <1>6, TreeStep

\* Pruning a subtree while no executor runs keeps the invariant.
LEMMA PruneStep ==
  ASSUME IInv, up, tool.kind # "dispatch", NEW n,
         Save(PruneNode(tree, n)), execs' = execs,
         stray' \subseteq stray,
         \A m \in stray : ~InSubtree(n, m) => m \in stray',
         tool' \in Tool, tool'.kind \in {"idle", "reviewAll"},
         UNCHANGED <<up, gold, git>>
  PROVE  IInv'
  <1> DEFINE t == PruneNode(tree, n)
  <1>1. /\ execs = << >> /\ IsTree(tree) /\ IsFiniteSet(DOMAIN tree)
        /\ stray \subseteq NodeIds
        /\ \A m \in DOMAIN tree :
             /\ tree[m].attempt <= MaxRetries + 1
             /\ tree[m].status = "running" => m \in stray
    BY BetweenExecutors
  <1>2. /\ IsTree(t) /\ DOMAIN t = DOMAIN tree
        /\ \A m \in DOMAIN tree :
             /\ t[m].attempt = tree[m].attempt
             /\ \/ t[m].status = "pruned"
                \/ ~InSubtree(n, m) /\ t[m].status = tree[m].status
    BY <1>1, PruneNodeTree
  <1>3. Save(t)
    OBVIOUS
  <1> HIDE DEF t
  <1>4. \A m \in DOMAIN t : /\ t[m].attempt <= MaxRetries + 1
                            /\ t[m].status = "running" => m \in stray'
    BY <1>1, <1>2
  <1> QED
    BY <1>1, <1>2, <1>3, <1>4, TreeStep

\* A batch cut to the cycles left is still a task list.
LEMMA TruncatedType ==
  ASSUME IInv, BudgetLeft, NEW offered \in Seq(NodeIds),
         MaxParallel # NoLimit => MaxParallel > 1
  PROVE  Truncated(offered) \in Seq(NodeIds)
  <1> USE DispatchAssumption
  <1> DEFINE policy == IF MaxParallel = NoLimit THEN Len(offered)
                       ELSE IF MaxParallel < Len(offered) THEN MaxParallel
                       ELSE Len(offered)
             left   == MaxCycles - CompletedCycles(tree)
             k      == IF left < policy THEN left ELSE policy
  <1>1. CompletedCycles(tree) \in Nat
    BY CyclesNat DEF IInv, Coherent
  <1>2. left \in Nat
    BY <1>1 DEF BudgetLeft
  <1>3. Len(offered) \in Nat
    OBVIOUS
  <1>4. policy \in Nat /\ policy <= Len(offered)
    BY <1>3
  <1> HIDE DEF left, policy
  <1>5. k \in Nat /\ k <= Len(offered)
    BY <1>2, <1>3, <1>4
  <1> HIDE DEF k
  <1>6. SubSeq(offered, 1, k) \in Seq(NodeIds)
    BY <1>3, <1>5
  <1> QED
    BY <1>6 DEF Truncated, k, left, policy

\* Every tool that starts executors keeps the invariant, reviewed first or not.
LEMMA StartStep ==
  ASSUME IInv, StartExecutors
  PROVE  IInv'
  <1> USE DispatchAssumption
  <1>1. << >> \in Seq(NodeIds)
    OBVIOUS
  <1>2. ASSUME NEW n \in NodeIds, RunExecutor(n) PROVE IInv'
    <2>1. up /\ tool.kind = "idle" /\ execs = << >> /\ <<n>> \in Seq(NodeIds)
      BY <1>2, BetweenExecutors DEF RunExecutor, Ready
    <2>2. CASE Dispatch(<<n>>, FALSE)
      BY <2>1, <2>2, DispatchStep
    <2>3. CASE Await("review", <<n>>)
      <3>1. tool' = [kind |-> "review", tasks |-> <<n>>, kept |-> << >>]
        BY <2>3 DEF Await
      <3>2. tool' \in Tool
        BY <1>1, <2>1, <3>1, AwaitTypes
      <3>3. UNCHANGED <<up, tree, gold, disk, execs, git, stray>>
        BY <2>3 DEF Await
      <3> QED BY <2>1, <3>1, <3>2, <3>3, AwaitStep
    <2> QED BY <1>2, <2>2, <2>3 DEF RunExecutor
  <1>3. ASSUME NEW n \in NodeIds, ResumeExecutor(n) PROVE IInv'
    <2>1. up /\ tool.kind = "idle"
      BY <1>3 DEF ResumeExecutor, Ready
    <2>2. execs = << >>
      BY <2>1, BetweenExecutors
    <2>3. /\ n \in DOMAIN tree /\ tree[n].attempt <= MaxRetries
          /\ Dispatch(<<n>>, TRUE)
      BY <1>3 DEF ResumeExecutor
    <2>4. <<n>> \in Seq(NodeIds)
      BY <1>3
    <2>5. \A i \in DOMAIN <<n>> : /\ <<n>>[i] \in DOMAIN tree
                                 /\ tree[<<n>>[i]].attempt <= MaxRetries
      BY <2>3
    <2> QED BY <2>1, <2>2, <2>3, <2>4, <2>5, DispatchStep
  <1>4. ASSUME NEW offered \in TaskLists, RunExecutorParallel(offered)
        PROVE  IInv'
    <2> DEFINE tasks == Truncated(offered)
    <2>1. /\ up /\ tool.kind = "idle" /\ execs = << >> /\ BudgetLeft
          /\ MaxParallel # NoLimit => MaxParallel > 1
      BY <1>4, BetweenExecutors DEF RunExecutorParallel, Ready
    <2>2. tasks \in Seq(NodeIds)
      BY <2>1, TruncatedType
    <2> HIDE DEF tasks
    <2>3. CASE Dispatch(tasks, FALSE)
      BY <2>1, <2>2, <2>3, DispatchStep
    <2>4. CASE Await("reviewAll", tasks)
      <3>1. tool' = [kind |-> "reviewAll", tasks |-> tasks, kept |-> << >>]
        BY <2>4 DEF Await
      <3>2. tool' \in Tool
        BY <1>1, <2>2, <3>1, AwaitTypes
      <3>3. UNCHANGED <<up, tree, gold, disk, execs, git, stray>>
        BY <2>4 DEF Await
      <3> QED BY <2>1, <3>1, <3>2, <3>3, AwaitStep
    <2> QED BY <1>4, <2>3, <2>4 DEF RunExecutorParallel, tasks
  <1> QED
    BY <1>2, <1>3, <1>4 DEF StartExecutors

\* Every answer of the human to a proposal or a task keeps the invariant.
LEMMA ReviewStep ==
  ASSUME IInv, Review
  PROVE  IInv'
  <1> USE DispatchAssumption
  <1>1. /\ tool \in Tool /\ tool.tasks \in Seq(NodeIds)
        /\ tool.kept \in Seq(NodeIds) /\ << >> \in Seq(NodeIds)
    BY DEF IInv, TypeOK, Tool
  <1>2. Idle \in Tool /\ Idle.kind = "idle"
    BY IdleType
  <1>3. /\ up /\ tool.kind # "dispatch"
        /\ tool.kind = "add" => tool.tasks # << >>
                                /\ CanAddUnder(tool.tasks[1])
        /\ tool.kind = "review" => tool.tasks # << >>
    BY DEF Review, ProposalApproved, ProposalSkipped, ReviewApproved,
           ReviewSkipped, TaskApproved, TaskSkipped, ReviewsDone, IInv, Coherent
  <1>4. execs = << >>
    BY <1>3, BetweenExecutors
  \* A decision on one task of a parallel call leaves a well-formed tool.
  <1>5. ASSUME NEW kept \in Seq(NodeIds), tool.tasks # << >>,
               NextReviewed(kept)
        PROVE  tool' \in Tool /\ tool'.kind \in {"idle", "reviewAll"}
    <2>1. Tail(tool.tasks) \in Seq(NodeIds)
      BY <1>1, <1>5
    <2>2. CASE tool' = Idle
      BY <1>2, <2>2
    <2>3. CASE tool' = [kind |-> "reviewAll", tasks |-> Tail(tool.tasks),
                        kept |-> kept]
      BY <1>5, <2>1, <2>3, AwaitTypes
    <2>4. CASE tool' = [kind |-> "reviewAll", tasks |-> << >>, kept |-> kept]
      BY <1>1, <1>5, <2>4, AwaitTypes
    <2> QED BY <1>5, <2>2, <2>3, <2>4 DEF NextReviewed
  <1>6. CASE ProposalApproved
    BY <1>2, <1>3, <1>6, AddUnderStep DEF ProposalApproved
  <1>7. CASE ProposalSkipped
    BY <1>2, <1>3, <1>7, AwaitStep DEF ProposalSkipped
  <1>8. CASE ReviewApproved
    BY <1>1, <1>3, <1>4, <1>8, DispatchStep DEF ReviewApproved
  <1>9. CASE ReviewSkipped
    <2>1. /\ Save(PruneNode(tree, tool.tasks[1])) /\ tool' = Idle
          /\ UNCHANGED <<up, gold, git, execs, stray>>
      BY <1>9 DEF ReviewSkipped, Skip
    <2> QED BY <1>2, <1>3, <2>1, PruneStep
  <1>10. CASE TaskApproved
    <2>1. /\ tool.tasks # << >>
          /\ NextReviewed(Append(tool.kept, tool.tasks[1]))
          /\ UNCHANGED <<up, tree, gold, disk, execs, git, stray>>
      BY <1>10 DEF TaskApproved
    <2>2. Append(tool.kept, tool.tasks[1]) \in Seq(NodeIds)
      BY <1>1, <2>1
    <2>3. tool' \in Tool /\ tool'.kind \in {"idle", "reviewAll"}
      BY <1>5, <2>1, <2>2
    <2> QED BY <1>3, <2>1, <2>3, AwaitStep
  <1>11. CASE TaskSkipped
    <2>1. /\ tool.tasks # << >> /\ NextReviewed(tool.kept)
          /\ Save(PruneNode(tree, tool.tasks[1]))
          /\ UNCHANGED <<up, gold, git, execs, stray>>
      BY <1>11 DEF TaskSkipped, Skip
    <2>2. tool' \in Tool /\ tool'.kind \in {"idle", "reviewAll"}
      BY <1>1, <1>5, <2>1
    <2> QED BY <1>3, <2>1, <2>2, PruneStep
  <1>12. CASE ReviewsDone
    BY <1>1, <1>3, <1>4, <1>12, DispatchStep DEF ReviewsDone
  <1> QED
    BY <1>6, <1>7, <1>8, <1>9, <1>10, <1>11, <1>12 DEF Review

\* Every tree tool and the merge keep the invariant.
LEMMA ManualStep ==
  ASSUME IInv, Manual
  PROVE  IInv'
  <1> USE DispatchAssumption
  <1>1. /\ up /\ tool.kind = "idle" /\ tool.kind # "dispatch"
    BY DEF Manual, TreeAddNode, TreePrune, TreeUpdateNode, MergeRecordsMedal,
           TreeSetMeta, Ready
  <1>2. /\ execs = << >> /\ IsTree(tree) /\ IsFiniteSet(DOMAIN tree)
        /\ stray \subseteq NodeIds /\ tool \in Tool
        /\ \A n \in DOMAIN tree :
              /\ tree[n] \in Node
              /\ tree[n].attempt <= MaxRetries + 1
              /\ tree[n].status = "running" => n \in stray
    BY <1>1, BetweenExecutors
  <1>3. ASSUME NEW p \in NodeIds, TreeAddNode(p) PROVE IInv'
    <2>1. CanAddUnder(p)
      BY <1>3 DEF TreeAddNode
    <2>2. CASE AddUnder(p) /\ UNCHANGED tool
      BY <1>1, <1>2, <2>1, <2>2, AddUnderStep
    <2>3. CASE Await("add", <<p>>)
      <3>1. tool' = [kind |-> "add", tasks |-> <<p>>, kept |-> << >>]
        BY <2>3 DEF Await
      <3>2. tool' \in Tool
        <4>1. <<p>> \in Seq(NodeIds) /\ << >> \in Seq(NodeIds)
          BY <1>3
        <4> QED BY <3>1, <4>1, AwaitTypes
      <3>3. UNCHANGED <<up, tree, gold, disk, execs, git, stray>>
        BY <2>3 DEF Await
      <3> QED BY <1>1, <2>1, <3>1, <3>2, <3>3, AwaitStep
    <2> QED BY <1>3, <2>2, <2>3 DEF TreeAddNode
  <1>4. ASSUME NEW n \in NodeIds, TreePrune(n) PROVE IInv'
    <2>1. /\ Save(PruneNode(tree, n))
          /\ stray' = {m \in stray : ~InSubtree(n, m)}
          /\ UNCHANGED <<up, gold, tool, execs, git>>
      BY <1>4 DEF TreePrune
    <2> QED BY <1>1, <1>2, <2>1, PruneStep
  <1>5. ASSUME NEW n \in NodeIds, NEW u \in ManualUpdates,
               TreeUpdateNode(n, u)
        PROVE  IInv'
    <2> DEFINE r == Updated(tree[n], u)
               t == [tree EXCEPT ![n] = r]
    <2>1. /\ n \in DOMAIN tree /\ Save(t)
          /\ stray' = IF u.status = "running" THEN stray \cup {n}
                      ELSE stray \ {n}
          /\ UNCHANGED <<up, gold, tool, execs, git>>
      BY <1>5 DEF TreeUpdateNode
    <2>2. u.status \in Status /\ u.code_ref \in CodeRef
      OBVIOUS
    <2>3. tree[n] \in Node
      BY <1>2, <2>1
    <2>4. /\ r \in Node /\ r.status = u.status /\ r.attempt = tree[n].attempt
      BY <2>2, <2>3 DEF Node, Updated
    <2> HIDE DEF r
    <2>5. /\ IsTree(t) /\ DOMAIN t = DOMAIN tree /\ t[n] = r
          /\ \A m \in DOMAIN tree \ {n} : t[m] = tree[m]
      BY <1>2, <2>1, <2>4, ReplaceNodeTree
    <2> HIDE DEF t
    <2>6. \A m \in DOMAIN t : /\ t[m].attempt <= MaxRetries + 1
                              /\ t[m].status = "running" => m \in stray'
      BY <1>2, <2>1, <2>4, <2>5
    <2>7. stray' \subseteq NodeIds
      BY <1>2, <1>5, <2>1
    <2> QED BY <1>1, <1>2, <2>1, <2>5, <2>6, <2>7, TreeStep
  <1>6. CASE MergeRecordsMedal
    <2>1. /\ gold' \in BOOLEAN
          /\ UNCHANGED <<up, tree, disk, tool, execs, branches, worktrees, stray>>
      BY <1>6 DEF MergeRecordsMedal, git
    <2>2. LiveNodes' = LiveNodes
      BY <2>1 DEF LiveNodes, Live
    <2> QED BY <1>1, <2>1, <2>2 DEF IInv, TypeOK, AttemptBounded, RunningIsOwned,
                                    Coherent
  <1>7. CASE TreeSetMeta
    <2>1. Save(tree) /\ UNCHANGED <<up, gold, tool, execs, git, stray>>
      BY <1>7 DEF TreeSetMeta
    <2> QED BY <1>1, <1>2, <2>1, TreeStep
  <1> QED
    BY <1>3, <1>4, <1>5, <1>6, <1>7 DEF Manual

\* The end of a dispatch keeps the invariant: nothing is left to own a node.
LEMMA ToolReturnsStep ==
  ASSUME IInv, ToolReturns
  PROVE  IInv'
  <1>1. /\ up /\ Live = {} /\ execs' = << >> /\ tool' = Idle
        /\ UNCHANGED <<up, tree, gold, disk, branches, worktrees, stray>>
    BY DEF ToolReturns, git
  <1>2. LiveNodes = {} /\ LiveNodes' = {}
    BY <1>1 DEF LiveNodes, Live
  <1>3. << >> \in Seq(Executor) /\ Idle \in Tool /\ Idle.kind = "idle"
    BY IdleType
  <1> QED
    BY <1>1, <1>2, <1>3 DEF IInv, TypeOK, AttemptBounded, RunningIsOwned, Coherent

\* A crash keeps the invariant: what it speaks of on disk is untouched.
LEMMA CrashStep ==
  ASSUME IInv, Crash
  PROVE  IInv'
  <1>1. /\ up' = FALSE /\ execs' = << >> /\ tool' = Idle
        /\ UNCHANGED <<tree, gold, disk, branches, worktrees, stray>>
    BY DEF Crash, git
  <1>2. LiveNodes' = {}
    BY <1>1 DEF LiveNodes, Live
  <1>3. << >> \in Seq(Executor) /\ Idle \in Tool /\ Idle.kind = "idle"
    BY IdleType
  <1> QED
    <2>1. TypeOK'
      BY <1>1, <1>3 DEF IInv, TypeOK
    <2>2. AttemptBounded'
      BY <1>1 DEF IInv, AttemptBounded
    <2>3. RunningIsOwned'
      BY <1>1 DEF RunningIsOwned
    <2>4. Coherent'
      BY <1>1, <1>2, <1>3 DEF IInv, Coherent
    <2> QED BY <2>1, <2>2, <2>3, <2>4 DEF IInv

\* A restart keeps the invariant: what was running is pending again.
LEMMA ResumeStep ==
  ASSUME IInv, Resume
  PROVE  IInv'
  <1> DEFINE t == Requeue(disk.tree)
  <1>1. /\ up' = TRUE /\ tree' = t /\ disk'.tree = t /\ disk'.gold = disk.gold
        /\ gold' = disk.gold /\ stray' = {}
        /\ UNCHANGED <<tool, execs, branches, worktrees>>
    BY DEF Resume, git
  <1>2. /\ IsTree(tree) /\ IsFiniteSet(DOMAIN tree) /\ disk.tree = tree
        /\ \A n \in DOMAIN tree : tree[n].attempt <= MaxRetries + 1
        /\ tool = Idle /\ execs = << >>
    BY DEF IInv, TypeOK, Coherent, AttemptBounded, Resume, Idle
  <1>3. /\ IsTree(t) /\ DOMAIN t = DOMAIN tree
        /\ \A n \in DOMAIN tree :
             /\ t[n].attempt = tree[n].attempt
             /\ t[n].status = IF n \in WithStatus(tree, "running")
                                THEN "pending" ELSE tree[n].status
    BY <1>2, SetStatusTree DEF Requeue, Status
  <1> HIDE DEF t
  <1>4. \A n \in DOMAIN t : t[n].status # "running"
    BY <1>3 DEF WithStatus
  <1>5. LiveNodes' = {}
    BY <1>1, <1>2 DEF LiveNodes, Live
  <1>6. TypeOK'
    BY <1>1, <1>3 DEF IInv, TypeOK
  <1>7. AttemptBounded'
    BY <1>1, <1>2, <1>3 DEF AttemptBounded
  <1>8. RunningIsOwned'
    BY <1>1, <1>4 DEF RunningIsOwned, WithStatus
  <1>9. Coherent'
    BY <1>1, <1>2, <1>3, <1>5 DEF IInv, Coherent, Idle
  <1> QED
    BY <1>6, <1>7, <1>8, <1>9 DEF IInv

\* A step that changes nothing.
LEMMA StutterStep ==
  ASSUME IInv, UNCHANGED vars
  PROVE  IInv'
  <1>1. UNCHANGED <<up, tree, gold, disk, tool, execs, branches, worktrees, stray>>
    BY DEF vars
  <1>2. LiveNodes' = LiveNodes
    BY <1>1 DEF LiveNodes, Live
  <1> QED
    BY <1>1, <1>2 DEF IInv, TypeOK, AttemptBounded, RunningIsOwned, Coherent,
                      CanAddUnder

-----------------------------------------------------------------------------
(* The theorems *)

\* IInv is an inductive invariant: no tool call, executor step, review, crash
\* or restart leaves it.
THEOREM Inductive == Spec => []IInv
  <1>1. ASSUME IInv, [Next]_vars PROVE IInv'
    <2>1. CASE Manual
      BY <1>1, <2>1, ManualStep
    <2>2. CASE Review
      BY <1>1, <2>2, ReviewStep
    <2>3. CASE StartExecutors
      BY <1>1, <2>3, StartStep
    <2>4. ASSUME NEW i \in DOMAIN execs, ExecutorStep(i) PROVE IInv'
      BY <1>1, <2>4, WorktreeStep, RecordStep, ParseRaisedStep
      DEF ExecutorStep
    <2>5. CASE ToolReturns
      BY <1>1, <2>5, ToolReturnsStep
    <2>6. CASE Crash
      BY <1>1, <2>6, CrashStep
    <2>7. CASE Resume
      BY <1>1, <2>7, ResumeStep
    <2>8. CASE UNCHANGED vars
      BY <1>1, <2>8, StutterStep
    <2> QED
      BY <1>1, <2>1, <2>2, <2>3, <2>4, <2>5, <2>6, <2>7, <2>8 DEF Next
  <1> QED
    BY InitIInv, <1>1, PTL DEF Spec

\* The state keeps its types (TypeOK) in every run of the dispatcher.
THEOREM TypeCorrect == Spec => []TypeOK
  <1>1. IInv => TypeOK
    BY DEF IInv
  <1> QED
    BY Inductive, <1>1, PTL

\* No node is dispatched by way of ResumeExecutor beyond 1 + max_retries
\* attempts, whatever fails, crashes or is restarted (AttemptBounded).
THEOREM AttemptBound == Spec => []AttemptBounded
  <1>1. IInv => AttemptBounded
    BY DEF IInv
  <1> QED
    BY Inductive, <1>1, PTL

\* A node that is "running" has an executor, or is one the coordinator marked
\* or an exception left behind (RunningIsOwned).
THEOREM RunningOwned == Spec => []RunningIsOwned
  <1>1. IInv => RunningIsOwned
    BY DEF IInv
  <1> QED
    BY Inductive, <1>1, PTL

\* A resume finds every node as it was at the crash: whatever a step changed
\* it saved, so the tree on disk is the tree in memory in every state
\* (CrashLosesNothing).
THEOREM NothingLost == Spec => CrashLosesNothing
  <1>1. ASSUME IInv, [Next]_vars, ~up, up'
        PROVE  tree' = Requeue(tree)
    <2>1. CASE Resume
      BY <1>1, <2>1 DEF Resume, IInv, Coherent
    <2>2. CASE UNCHANGED vars
      BY <1>1, <2>2 DEF vars
    <2>3. execs = << >> /\ tool = Idle
      BY <1>1 DEF IInv, Coherent, Idle
    <2>4. CASE Manual \/ Review \/ StartExecutors
      BY <1>1, <2>3, <2>4
      DEF Manual, TreeAddNode, TreePrune, TreeUpdateNode, MergeRecordsMedal,
          TreeSetMeta, Review, ProposalApproved, ProposalSkipped,
          ReviewApproved, ReviewSkipped, TaskApproved, TaskSkipped,
          ReviewsDone, StartExecutors, RunExecutor, ResumeExecutor,
          RunExecutorParallel, Ready
    <2>5. CASE ToolReturns \/ Crash
      BY <1>1, <2>5 DEF ToolReturns, Crash
    <2>6. ASSUME NEW i \in DOMAIN execs, ExecutorStep(i) PROVE FALSE
      BY <2>3, <2>6
    <2> QED
      BY <1>1, <2>1, <2>2, <2>4, <2>5, <2>6 DEF Next
  <1>2. ASSUME NEW n \in DOMAIN tree
        PROVE  /\ n \in DOMAIN Requeue(tree)
               /\ Requeue(tree)[n] = IF tree[n].status = "running"
                                       THEN Marked(tree[n], "pending") ELSE tree[n]
    BY <1>2 DEF Requeue, SetStatus, WithStatus
  <1>3. ASSUME IInv, [Next]_vars
        PROVE  [~up /\ up' =>
                  \A n \in DOMAIN tree :
                    /\ n \in DOMAIN tree'
                    /\ tree'[n] = IF tree[n].status = "running"
                                    THEN Marked(tree[n], "pending")
                                    ELSE tree[n]]_vars
    BY <1>1, <1>2, <1>3
  <1> QED
    BY <1>3, Inductive, PTL DEF Spec, CrashLosesNothing

-----------------------------------------------------------------------------
(***************************************************************************)
(* Without reviews the cap on cycles holds.                                *)
(***************************************************************************)

\* The nodes that count or are about to.
Charged == Consumed(tree) \cup LiveNodes

\* Without reviews a tool never waits for a human.
BInv == tool.kind \in {"idle", "dispatch"} /\ BudgetHeld

-----------------------------------------------------------------------------
(* Counting *)

\* The nodes charged are finitely many.
LEMMA ChargedFinite ==
  ASSUME IInv
  PROVE  IsFiniteSet(Charged) /\ Cardinality(Charged) \in Nat
  <1>1. IsFiniteSet(DOMAIN tree) /\ Charged \subseteq DOMAIN tree
    BY DEF IInv, Coherent, Charged, Consumed
  <1> QED
    BY <1>1, FS_Subset, FS_CardinalityType

\* A task list names at most as many nodes as it is long.
LEMMA TasksBound ==
  ASSUME NEW tasks \in Seq(NodeIds), NEW S,
         S \subseteq {tasks[i] : i \in DOMAIN tasks}
  PROVE  IsFiniteSet(S) /\ Cardinality(S) \in Nat
         /\ Cardinality(S) <= Len(tasks)
  <1> DEFINE D == 1 .. Len(tasks)
             T == {tasks[i] : i \in D}
  <1>1. Len(tasks) \in Nat /\ DOMAIN tasks = D
    OBVIOUS
  <1>2. IsFiniteSet(D) /\ Cardinality(D) = Len(tasks)
    <2>1. IsFiniteSet(D) /\ Cardinality(D) = IF 1 > Len(tasks) THEN 0
                                             ELSE Len(tasks) - 1 + 1
      BY <1>1, FS_Interval
    <2> QED
      BY <1>1, <2>1
  <1>3. [i \in D |-> tasks[i]] \in Surjection(D, T)
    BY DEF Surjection
  <1>4. S \subseteq T
    BY <1>1
  <1> HIDE DEF T, D
  <1>5. IsFiniteSet(T) /\ Cardinality(T) <= Cardinality(D)
    BY <1>2, <1>3, FS_Surjection
  <1>6. /\ IsFiniteSet(S) /\ Cardinality(S) <= Cardinality(T)
        /\ Cardinality(S) \in Nat /\ Cardinality(T) \in Nat
    BY <1>4, <1>5, FS_Subset, FS_CardinalityType
  <1> QED
    BY <1>1, <1>2, <1>5, <1>6

\* What is charged can only shrink without a dispatch.
LEMMA ChargedShrinks ==
  ASSUME IInv, BudgetHeld, Live # {}, Charged' \subseteq Charged
  PROVE  BudgetHeld'
  <1>1. /\ IsFiniteSet(Charged) /\ Cardinality(Charged) \in Nat
        /\ Cardinality(Charged) <= MaxCycles
    BY ChargedFinite DEF BudgetHeld, Charged
  <1>2. IsFiniteSet(Charged') /\ Cardinality(Charged') <= Cardinality(Charged)
    BY <1>1, FS_Subset
  <1>3. Cardinality(Charged') \in Nat /\ MaxCycles \in Nat
    BY <1>2, FS_CardinalityType, DispatchAssumption
  <1> QED
    BY <1>1, <1>2, <1>3 DEF BudgetHeld, Charged

\* A batch no longer than the cycles left keeps the cap.
LEMMA DispatchBudget ==
  ASSUME IInv, NEW tasks \in Seq(NodeIds), NEW resume,
         Dispatch(tasks, resume),
         CompletedCycles(tree) + Len(tasks) <= MaxCycles
  PROVE  BudgetHeld'
  <1> DEFINE started == {tasks[i] : i \in {j \in DOMAIN tasks :
                                             Dispatchable(tasks[j])}}
  <1>1. /\ tree' = SetStatus(tree, started, "running")
        /\ execs' = [i \in DOMAIN tasks |->
                       IF Dispatchable(tasks[i]) THEN Launch(tasks[i], resume)
                                                 ELSE Refused(tasks[i])]
    BY DEF Dispatch, Save
  <1>2. started \subseteq {tasks[i] : i \in DOMAIN tasks}
    OBVIOUS
  <1>3. LiveNodes' \subseteq started
    <2>1. ASSUME NEW i \in DOMAIN execs', execs'[i].pc # "ended"
          PROVE  execs'[i].node \in started
      <3>1. i \in DOMAIN tasks
        BY <1>1
      <3>2. Dispatchable(tasks[i])
        BY <1>1, <2>1, <3>1 DEF Refused
      <3>3. execs'[i] = Launch(tasks[i], resume)
        BY <1>1, <3>1, <3>2
      <3>4. execs'[i].node = tasks[i]
        BY <3>3 DEF Launch
      <3> QED
        BY <3>1, <3>2, <3>4
    <2> QED
      BY <2>1 DEF LiveNodes, Live
  <1> HIDE DEF started
  <1>4. Consumed(tree') \subseteq Consumed(tree)
    <2>1. IsTree(tree)
      BY DEF IInv, TypeOK
    <2>2. /\ DOMAIN tree' = DOMAIN tree
          /\ \A n \in DOMAIN tree :
               tree'[n].status = IF n \in started THEN "running"
                                 ELSE tree[n].status
      BY <1>1, <2>1, SetStatusTree DEF Status
    <2> QED
      BY <2>2 DEF Consumed, CycleStatus
  <1>5. Charged' \subseteq Consumed(tree) \cup started
    BY <1>3, <1>4 DEF Charged, Consumed
  <1>6. /\ IsFiniteSet(started) /\ Cardinality(started) \in Nat
        /\ Cardinality(started) <= Len(tasks)
    BY <1>2, TasksBound
  <1>7. IsFiniteSet(Consumed(tree)) /\ Cardinality(Consumed(tree)) \in Nat
    <2>1. Consumed(tree) \subseteq DOMAIN tree
      BY DEF Consumed
    <2> QED
      BY <2>1, FS_Subset, FS_CardinalityType DEF IInv, Coherent
  <1> DEFINE U == Consumed(tree) \cup started
  <1>8. /\ IsFiniteSet(U)
        /\ Cardinality(U) <= Cardinality(Consumed(tree)) + Cardinality(started)
    <2>1. /\ IsFiniteSet(U)
          /\ Cardinality(U) =
               Cardinality(Consumed(tree)) + Cardinality(started)
                 - Cardinality(Consumed(tree) \cap started)
      BY <1>6, <1>7, FS_Union
    <2>2. Cardinality(Consumed(tree) \cap started) \in Nat
      BY <1>7, FS_Subset, FS_CardinalityType
    <2> QED
      BY <1>6, <1>7, <2>1, <2>2
  <1> HIDE DEF U
  <1>9. /\ Cardinality(Charged') <= Cardinality(U)
        /\ Cardinality(Charged') \in Nat /\ Cardinality(U) \in Nat
    BY <1>5, <1>8, FS_Subset, FS_CardinalityType DEF U
  <1>10. Len(tasks) \in Nat /\ MaxCycles \in Nat
    BY DispatchAssumption
  <1>11. Cardinality(Charged') <= MaxCycles
    BY <1>6, <1>7, <1>8, <1>9, <1>10 DEF CompletedCycles
  <1> QED
    BY <1>11 DEF BudgetHeld, Charged

\* The truncations leave a batch no longer than the cycles left.
LEMMA TruncatedBound ==
  ASSUME IInv, BudgetLeft, NEW offered \in Seq(NodeIds),
         MaxParallel # NoLimit => MaxParallel > 1
  PROVE  CompletedCycles(tree) + Len(Truncated(offered)) <= MaxCycles
  <1> USE DispatchAssumption
  <1> DEFINE policy == IF MaxParallel = NoLimit THEN Len(offered)
                       ELSE IF MaxParallel < Len(offered) THEN MaxParallel
                       ELSE Len(offered)
             left   == MaxCycles - CompletedCycles(tree)
             k      == IF left < policy THEN left ELSE policy
  <1>1. CompletedCycles(tree) \in Nat
    BY CyclesNat DEF IInv, Coherent
  <1>2. left \in Nat
    BY <1>1 DEF BudgetLeft
  <1>3. Len(offered) \in Nat
    OBVIOUS
  <1>4. policy \in Nat /\ policy <= Len(offered)
    BY <1>3
  <1> HIDE DEF policy
  <1>5. CompletedCycles(tree) + left = MaxCycles
    BY <1>1
  <1> HIDE DEF left
  <1>6. k \in Nat /\ k <= Len(offered) /\ k <= left
    BY <1>2, <1>3, <1>4
  <1> HIDE DEF k
  <1>7. Len(SubSeq(offered, 1, k)) = k
    BY <1>3, <1>6
  <1>8. Truncated(offered) = SubSeq(offered, 1, k)
    BY DEF Truncated, k, left, policy
  <1> QED
    BY <1>1, <1>2, <1>5, <1>6, <1>7, <1>8

-----------------------------------------------------------------------------
(* The steps *)

\* An executor's step moves its node from the executors to the count at most.
LEMMA ExecutorBudget ==
  ASSUME IInv, BudgetHeld, NEW i \in DOMAIN execs, ExecutorStep(i)
  PROVE  BudgetHeld'
  <1> DEFINE n == execs[i].node
  <1>1. /\ TypeOK /\ IsTree(tree) /\ execs \in Seq(Executor)
        /\ execs[i] \in Executor
    BY DEF IInv, TypeOK
  <1>2. execs[i].pc # "ended"
    BY ExecutorLive
  <1>3. i \in Live /\ n \in LiveNodes
    BY <1>2 DEF Live, LiveNodes
  <1>4. n \in DOMAIN tree
    BY <1>3 DEF IInv, Coherent
  <1>5. /\ DOMAIN execs' = DOMAIN execs /\ execs'[i].node = n
        /\ \A j \in DOMAIN execs \ {i} : execs'[j] = execs[j]
    <2>1. CASE ClearWorktree(i)
      BY <1>1, <2>1, SetPcExecs DEF ClearWorktree
    <2>2. CASE CloseWorktree(i)
      BY <1>1, <2>2, SetPcExecs DEF CloseWorktree
    <2>3. CASE WorktreeFailed(i)
      BY <1>1, <2>3, SetPcExecs DEF WorktreeFailed
    <2>4. CASE RecordSome(i)
      BY <1>1, <2>4, SetPcExecs DEF RecordSome, Record
    <2>5. CASE ParseRaised(i)
      BY <1>1, <2>5, SetPcExecs DEF ParseRaised
    <2>6. CASE AddWorktree(i)
      <3>0. PICK name : execs' = [execs EXCEPT ![i].pc = "running",
                                               ![i].branch = name]
        BY <2>6 DEF AddWorktree
      <3> DEFINE e == [execs[i] EXCEPT !.pc = "running", !.branch = name]
      <3>1. execs' = [execs EXCEPT ![i] = e]
        BY <3>0
      <3>2. e.node = n
        BY <1>1 DEF Executor
      <3> HIDE DEF e
      <3> QED
        BY <1>1, <3>1, <3>2
    <2>7. CASE TryAgain(i)
      BY <1>1, <2>7, SetPcExecs DEF TryAgain
    <2> QED
      BY <2>1, <2>2, <2>3, <2>4, <2>5, <2>6, <2>7 DEF ExecutorStep
  <1>6. LiveNodes' \subseteq LiveNodes
    <2>1. ASSUME NEW j \in DOMAIN execs', execs'[j].pc # "ended"
          PROVE  execs'[j].node \in LiveNodes
      BY <1>3, <1>5, <2>1 DEF LiveNodes, Live
    <2> QED
      BY <2>1 DEF LiveNodes, Live
  <1>7. Consumed(tree') \subseteq Consumed(tree) \cup {n}
    <2>1. CASE tree' = tree
      BY <2>1
    <2>2. CASE WorktreeFailed(i)
      <3>1. tree' = SetStatus(tree, {n}, "pending")
        BY <2>2 DEF WorktreeFailed, Save
      <3>2. /\ DOMAIN tree' = DOMAIN tree
            /\ \A m \in DOMAIN tree :
                 tree'[m].status = IF m \in {n} THEN "pending"
                                   ELSE tree[m].status
        BY <1>1, <3>1, SetStatusTree DEF Status
      <3> QED
        BY <3>2 DEF Consumed
    <2>3. CASE RecordSome(i)
      <3>1. \E r : tree' = [tree EXCEPT ![n] = r]
        BY <2>3 DEF RecordSome, Record, Save
      <3> QED
        BY <1>4, <3>1 DEF Consumed
    <2> QED
      BY <2>1, <2>2, <2>3 DEF ExecutorStep, ClearWorktree, AddWorktree,
                              TryAgain, CloseWorktree, ParseRaised
  <1>8. Charged' \subseteq Charged
    BY <1>3, <1>6, <1>7 DEF Charged
  <1> QED
    BY <1>3, <1>8, ChargedShrinks

\* Where nothing is reviewed, every step keeps the cap.
LEMMA BudgetStep ==
  ASSUME ~ReviewMode, IInv, BInv, [Next]_vars
  PROVE  BInv'
  <1>1. ASSUME execs' = << >> PROVE BudgetHeld'
    BY <1>1 DEF BudgetHeld, Live
  <1>2. tool.kind # "dispatch" => execs = << >>
    BY DEF IInv, Coherent
  <1>3. CASE Manual
    <2>1. tool.kind = "idle" /\ tool' = tool /\ execs' = execs
      BY <1>3 DEF Manual, TreeAddNode, TreePrune, TreeUpdateNode,
                  MergeRecordsMedal, TreeSetMeta, Ready, AddUnder
    <2> QED
      BY <1>1, <1>2, <2>1 DEF BInv
  <1>4. ~Review
    BY DEF BInv, Review, ProposalApproved, ProposalSkipped, ReviewApproved,
           ReviewSkipped, TaskApproved, TaskSkipped, ReviewsDone
  <1>5. CASE StartExecutors
    <2>1. ASSUME NEW tasks \in Seq(NodeIds), NEW resume,
                 Dispatch(tasks, resume),
                 CompletedCycles(tree) + Len(tasks) <= MaxCycles
          PROVE  BInv'
      <3>1. tool'.kind = "dispatch"
        BY <2>1 DEF Dispatch
      <3> QED
        BY <2>1, <3>1, DispatchBudget DEF BInv
    <2>2. CompletedCycles(tree) \in Nat /\ MaxCycles \in Nat
      BY CyclesNat, DispatchAssumption DEF IInv, Coherent
    <2>3. ASSUME NEW n \in NodeIds, BudgetLeft
          PROVE  /\ <<n>> \in Seq(NodeIds)
                 /\ CompletedCycles(tree) + Len(<<n>>) <= MaxCycles
      BY <2>2, <2>3 DEF BudgetLeft
    <2>4. ASSUME NEW n \in NodeIds, RunExecutor(n) \/ ResumeExecutor(n)
          PROVE  BInv'
      <3>1. BudgetLeft /\ \E resume : Dispatch(<<n>>, resume)
        BY <2>4 DEF RunExecutor, ResumeExecutor
      <3> QED
        BY <2>1, <2>3, <3>1
    <2>5. ASSUME NEW offered \in TaskLists, RunExecutorParallel(offered)
          PROVE  BInv'
      <3>1. offered \in Seq(NodeIds)
        BY DispatchAssumption
      <3>2. /\ BudgetLeft
            /\ MaxParallel # NoLimit => MaxParallel > 1
            /\ Dispatch(Truncated(offered), FALSE)
        BY <2>5 DEF RunExecutorParallel
      <3>3. Truncated(offered) \in Seq(NodeIds)
        BY <3>1, <3>2, TruncatedType
      <3>4. CompletedCycles(tree) + Len(Truncated(offered)) <= MaxCycles
        BY <3>1, <3>2, TruncatedBound
      <3> QED
        BY <2>1, <3>2, <3>3, <3>4
    <2> QED
      BY <1>5, <2>4, <2>5 DEF StartExecutors
  <1>6. ASSUME NEW i \in DOMAIN execs, ExecutorStep(i) PROVE BInv'
    <2>1. tool' = tool
      BY <1>6, ExecutorLive
    <2> QED
      BY <1>6, <2>1, ExecutorBudget DEF BInv
  <1>7. CASE ToolReturns \/ Crash
    BY <1>1, <1>7 DEF ToolReturns, Crash, BInv, Idle
  <1>8. CASE Resume
    <2>1. tool = Idle /\ execs = << >> /\ UNCHANGED <<tool, execs>>
      BY <1>2, <1>8 DEF Resume, IInv, Coherent, Idle
    <2> QED
      BY <1>1, <2>1 DEF BInv
  <1>9. CASE UNCHANGED vars
    BY <1>9 DEF vars, BInv, BudgetHeld, Consumed, Live, LiveNodes
  <1> QED
    BY <1>3, <1>4, <1>5, <1>6, <1>7, <1>8, <1>9 DEF Next

\* Without human reviews the executors of a call, together with the cycles
\* consumed, never exceed max_cycles (BudgetHeld), whatever the batches, the
\* duplicates in them, the failures and the restarts.
THEOREM BudgetKept == ~ReviewMode => (Spec => []BudgetHeld)
  <1> SUFFICES ASSUME ~ReviewMode PROVE Spec => []BudgetHeld
    OBVIOUS
  <1>1. Init => BInv
    BY DEF Init, BInv, BudgetHeld, Live, Idle
  <1>2. IInv /\ BInv /\ [Next]_vars => BInv'
    BY BudgetStep
  <1>3. BInv => BudgetHeld
    BY DEF BInv
  <1> QED
    BY <1>1, <1>2, <1>3, Inductive, PTL DEF Spec

-----------------------------------------------------------------------------
(***************************************************************************)
(* Executors keep out of each other's worktrees (OwnWorktree) and away from *)
(* the branches others have worked on (PreservedWork).                     *)
(***************************************************************************)

\* An executor past git has a branch, and while it works a directory that no
\* other is about to clear or to remove.
Apart(i) ==
  /\ execs[i].pc \in {"clearing", "running", "parsing"} =>
       execs[i].branch \in branches
  /\ execs[i].pc = "running" =>
       /\ execs[i].branch \in worktrees
       /\ \A j \in DOMAIN execs \ {i} :
            execs[j].pc \in {"clearing", "running", "parsing"} =>
              execs[j].branch # execs[i].branch

WInv == \A i \in DOMAIN execs : Apart(i)

-----------------------------------------------------------------------------
(* The steps *)

\* The executors a dispatch starts stand before git; those that clear a
\* directory clear one that has a branch.
LEMMA DispatchApart ==
  ASSUME IInv, NEW tasks, NEW resume, Dispatch(tasks, resume)
  PROVE  WInv'
  <1>1. /\ branches' = branches
        /\ worktrees' = worktrees
        /\ execs' = [i \in DOMAIN tasks |->
                       IF Dispatchable(tasks[i]) THEN Launch(tasks[i], resume)
                                                 ELSE Refused(tasks[i])]
    BY DEF Dispatch, git
  <1>2. worktrees \subseteq branches
    BY DEF IInv, TypeOK
  <1>3. ASSUME NEW i \in DOMAIN execs' PROVE Apart(i)'
    <2>1. CASE Dispatchable(tasks[i])
      <3>1. execs'[i] = Launch(tasks[i], resume)
        BY <1>1, <1>3, <2>1
      <3>2. /\ execs'[i].pc \in {"clearing", "adding"}
            /\ execs'[i].pc = "clearing" => execs'[i].branch \in worktrees
        BY <3>1 DEF Launch
      <3> QED
        BY <1>1, <1>2, <3>2 DEF Apart
    <2>2. CASE ~Dispatchable(tasks[i])
      <3>1. execs'[i] = Refused(tasks[i])
        BY <1>1, <1>3, <2>2
      <3>2. execs'[i].pc = "ended"
        BY <3>1 DEF Refused
      <3> QED
        BY <3>2 DEF Apart
    <2> QED
      BY <2>1, <2>2
  <1> QED
    BY <1>3 DEF WInv

\* What SetPc leaves alone.
LEMMA SetPcBranch ==
  ASSUME TypeOK, NEW i \in DOMAIN execs, NEW pc, SetPc(i, pc)
  PROVE  /\ DOMAIN execs' = DOMAIN execs
         /\ execs'[i].pc = pc /\ execs'[i].branch = execs[i].branch
         /\ \A j \in DOMAIN execs \ {i} : execs'[j] = execs[j]
  <1> DEFINE e == [execs[i] EXCEPT !.pc = pc]
  <1>1. execs \in Seq(Executor) /\ execs[i] \in Executor
    BY DEF TypeOK
  <1>2. e.pc = pc /\ e.branch = execs[i].branch
    BY <1>1 DEF Executor
  <1>3. execs' = [execs EXCEPT ![i] = e]
    BY DEF SetPc
  <1> HIDE DEF e
  <1> QED
    BY <1>1, <1>2, <1>3

\* A try that failed and an executor that ended are in nobody's way, whatever
\* branch and directory git left behind.
LEMMA EndApart ==
  ASSUME WInv, NEW i \in DOMAIN execs, DOMAIN execs' = DOMAIN execs,
         execs'[i].pc \in {"again", "ended"},
         \A j \in DOMAIN execs \ {i} : execs'[j] = execs[j],
         branches \subseteq branches', worktrees \subseteq worktrees'
  PROVE  WInv'
  <1>1. Apart(i)'
    BY DEF Apart
  <1>2. ASSUME NEW j \in DOMAIN execs \ {i} PROVE Apart(j)'
    <2>1. Apart(j) /\ execs'[j] = execs[j]
      BY DEF WInv
    <2> QED
      BY <2>1 DEF Apart
  <1> QED
    BY <1>1, <1>2 DEF WInv

\* Clearing a directory before the work, or removing it after, leaves every
\* other working executor's directory alone.
LEMMA DirectoryApart ==
  ASSUME TypeOK, WInv, NEW i \in DOMAIN execs,
         ClearWorktree(i) \/ CloseWorktree(i)
  PROVE  WInv'
  <1> DEFINE pc == IF execs[i].pc = "clearing" THEN "adding" ELSE "parsing"
  <1>1. /\ execs[i].pc \in {"clearing", "running"}
        /\ SetPc(i, pc)
        /\ worktrees' = worktrees \ {execs[i].branch}
        /\ branches' = branches
    BY DEF ClearWorktree, CloseWorktree, At
  <1>2. /\ DOMAIN execs' = DOMAIN execs
        /\ execs'[i].pc = pc /\ execs'[i].branch = execs[i].branch
        /\ \A j \in DOMAIN execs \ {i} : execs'[j] = execs[j]
    BY <1>1, SetPcBranch
  <1>3. Apart(i)
    BY DEF WInv
  <1>4. Apart(i)'
    BY <1>1, <1>2, <1>3 DEF Apart
  <1>5. ASSUME NEW j \in DOMAIN execs \ {i} PROVE Apart(j)'
    <2>1. Apart(j) /\ execs'[j] = execs[j]
      BY <1>2 DEF WInv
    <2>2. CASE execs[j].pc = "running"
      <3>1. /\ execs[j].branch \in worktrees /\ execs[j].branch \in branches
            /\ \A k \in DOMAIN execs \ {j} :
                 execs[k].pc \in {"clearing", "running", "parsing"} =>
                   execs[k].branch # execs[j].branch
        BY <2>1, <2>2 DEF Apart
      <3>2. execs[i].branch # execs[j].branch
        BY <1>1, <3>1
      <3>3. execs[j].branch \in worktrees'
        BY <1>1, <3>1, <3>2
      <3>4. \A k \in DOMAIN execs' \ {j} :
              execs'[k].pc \in {"clearing", "running", "parsing"} =>
                execs'[k].branch # execs'[j].branch
        BY <1>2, <2>1, <3>1, <3>2
      <3> QED
        BY <1>1, <2>1, <2>2, <3>1, <3>3, <3>4 DEF Apart
    <2>3. CASE execs[j].pc # "running"
      BY <1>1, <2>1, <2>3 DEF Apart
    <2> QED
      BY <2>2, <2>3
  <1> QED
    BY <1>2, <1>4, <1>5 DEF WInv

\* What an executor gets from git: a branch nobody has.
LEMMA AddedName ==
  ASSUME IInv, NEW i \in DOMAIN execs, AddWorktree(i)
  PROVE  \E name : /\ name \notin branches
                   /\ branches' = branches \cup {name}
                   /\ worktrees' = worktrees \cup {name}
                   /\ DOMAIN execs' = DOMAIN execs
                   /\ execs'[i].pc = "running" /\ execs'[i].branch = name
                   /\ \A j \in DOMAIN execs \ {i} : execs'[j] = execs[j]
  <1>1. PICK name \in Names(i) :
          /\ Creates(i, name)
          /\ worktrees' = worktrees \cup {name}
          /\ execs' = [execs EXCEPT ![i].pc = "running", ![i].branch = name]
    BY DEF AddWorktree
  <1>2. name \notin branches /\ branches' = branches \cup {name}
    BY <1>1, CreatesName
  <1>3. execs \in Seq(Executor) /\ execs[i] \in Executor
    BY DEF IInv, TypeOK
  <1> DEFINE e == [execs[i] EXCEPT !.pc = "running", !.branch = name]
  <1>4. e.pc = "running" /\ e.branch = name
    BY <1>3 DEF Executor
  <1>5. execs' = [execs EXCEPT ![i] = e]
    BY <1>1
  <1> HIDE DEF e
  <1>6. /\ DOMAIN execs' = DOMAIN execs
        /\ execs'[i].pc = "running" /\ execs'[i].branch = name
        /\ \A j \in DOMAIN execs \ {i} : execs'[j] = execs[j]
    BY <1>3, <1>4, <1>5
  <1> QED
    BY <1>1, <1>2, <1>6

\* git worktree add keeps the executors apart.
LEMMA AddWorktreeApart ==
  ASSUME IInv, WInv, NEW i \in DOMAIN execs, AddWorktree(i)
  PROVE  WInv'
  <1>1. PICK name : /\ name \notin branches
                    /\ branches' = branches \cup {name}
                    /\ worktrees' = worktrees \cup {name}
                    /\ DOMAIN execs' = DOMAIN execs
                    /\ execs'[i].pc = "running" /\ execs'[i].branch = name
                    /\ \A j \in DOMAIN execs \ {i} : execs'[j] = execs[j]
    BY AddedName
  <1>2. \A j \in DOMAIN execs \ {i} :
          execs[j].pc \in {"clearing", "running", "parsing"} =>
            execs[j].branch \in branches /\ execs[j].branch # name
    BY <1>1 DEF WInv, Apart
  <1>3. Apart(i)'
    BY <1>1, <1>2 DEF Apart
  <1>4. ASSUME NEW j \in DOMAIN execs \ {i} PROVE Apart(j)'
    <2>1. Apart(j) /\ execs'[j] = execs[j]
      BY <1>1 DEF WInv
    <2>2. CASE execs[j].pc = "running"
      <3>1. /\ execs[j].branch \in worktrees
            /\ \A k \in DOMAIN execs \ {j} :
                 execs[k].pc \in {"clearing", "running", "parsing"} =>
                   execs[k].branch # execs[j].branch
        BY <2>1, <2>2 DEF Apart
      <3>2. execs[j].branch # name /\ execs[j].branch \in branches
        BY <1>2, <2>2
      <3>3. \A k \in DOMAIN execs' \ {j} :
              execs'[k].pc \in {"clearing", "running", "parsing"} =>
                execs'[k].branch # execs'[j].branch
        BY <1>1, <2>1, <3>1, <3>2
      <3> QED
        BY <1>1, <2>1, <2>2, <3>1, <3>2, <3>3 DEF Apart
    <2>3. CASE execs[j].pc # "running"
      BY <1>1, <2>1, <2>3 DEF Apart
    <2> QED
      BY <2>2, <2>3
  <1> QED
    BY <1>1, <1>3, <1>4 DEF WInv

\* The steps of an executor other than those on its directory leave git as it
\* is, or a branch or a directory more.
LEMMA EndingGit ==
  ASSUME IInv, NEW i \in DOMAIN execs,
         TryAgain(i) \/ WorktreeFailed(i) \/ RecordSome(i) \/ ParseRaised(i)
  PROVE  /\ branches \subseteq branches' /\ worktrees \subseteq worktrees'
         /\ DOMAIN execs' = DOMAIN execs
         /\ execs'[i].pc \in {"again", "ended"}
         /\ \A j \in DOMAIN execs \ {i} : execs'[j] = execs[j]
  <1>1. ASSUME NEW name \in Names(i), Creates(i, name)
        PROVE  branches \subseteq branches'
    BY <1>1, CreatesName
  <1>2. branches \subseteq branches' /\ worktrees \subseteq worktrees'
    BY <1>1 DEF TryAgain, WorktreeFailed, RecordSome, Record, ParseRaised, git
  <1>3. PICK pc \in {"again", "ended"} : SetPc(i, pc)
    BY DEF TryAgain, WorktreeFailed, RecordSome, Record, ParseRaised
  <1>4. TypeOK
    BY DEF IInv
  <1> QED
    BY <1>2, <1>3, <1>4, SetPcBranch

\* Whatever an executor's step is, the executors stay apart.
LEMMA ExecutorApart ==
  ASSUME IInv, WInv, NEW i \in DOMAIN execs, ExecutorStep(i)
  PROVE  WInv'
  <1>1. CASE ClearWorktree(i) \/ CloseWorktree(i)
    BY <1>1, DirectoryApart DEF IInv
  <1>2. CASE AddWorktree(i)
    BY <1>2, AddWorktreeApart
  <1>3. CASE \/ TryAgain(i) \/ WorktreeFailed(i)
             \/ RecordSome(i) \/ ParseRaised(i)
    BY <1>3, EndingGit, EndApart
  <1> QED
    BY <1>1, <1>2, <1>3 DEF ExecutorStep

\* What the steps that are no executor's leave alone: the branches, and the
\* executors unless they start or clear them.
LEMMA OtherSteps ==
  ASSUME IInv, [Next]_vars
  PROVE  \/ \E i \in DOMAIN execs : ExecutorStep(i)
         \/ \E tasks, resume : Dispatch(tasks, resume)
         \/ branches' = branches /\ execs' = << >>
         \/ branches' = branches /\ UNCHANGED <<execs, worktrees>>
  <1>1. CASE Manual
    BY <1>1 DEF Manual, TreeAddNode, TreePrune, TreeUpdateNode, AddUnder, Await,
                MergeRecordsMedal, TreeSetMeta, git
  <1>2. CASE Review
    BY <1>2 DEF Review, ProposalApproved, ProposalSkipped, ReviewApproved,
                ReviewSkipped, TaskApproved, TaskSkipped, ReviewsDone, Skip,
                AddUnder, git
  <1>3. CASE StartExecutors
    BY <1>3 DEF StartExecutors, RunExecutor, ResumeExecutor,
                RunExecutorParallel, Await, git
  <1>4. CASE ToolReturns \/ Crash \/ Resume
    BY <1>4 DEF ToolReturns, Crash, Resume, git
  <1>5. CASE UNCHANGED vars
    BY <1>5 DEF vars
  <1> QED
    BY <1>1, <1>2, <1>3, <1>4, <1>5 DEF Next

-----------------------------------------------------------------------------
(* The theorems *)

\* WInv is inductive relative to IInv, in whatever order executors, failed
\* tries, crashes and restarts follow one another and whatever the nodes refer
\* to.
THEOREM ApartInductive == Spec => []WInv
  <1>1. Init => WInv
    BY DEF Init, WInv
  <1>2. ASSUME IInv, WInv, [Next]_vars PROVE WInv'
    <2>1. ASSUME NEW i \in DOMAIN execs, ExecutorStep(i) PROVE WInv'
      BY <1>2, <2>1, ExecutorApart
    <2>2. ASSUME NEW tasks, NEW resume, Dispatch(tasks, resume) PROVE WInv'
      BY <1>2, <2>2, DispatchApart
    <2>3. CASE execs' = << >>
      BY <2>3 DEF WInv
    <2>4. CASE branches' = branches /\ UNCHANGED <<execs, worktrees>>
      BY <1>2, <2>4 DEF WInv, Apart
    <2> QED
      BY <1>2, <2>1, <2>2, <2>3, <2>4, OtherSteps
  <1> QED
    BY <1>1, <1>2, Inductive, PTL DEF Spec

\* Every executor works in a directory and on a branch of its own, also when a
\* node is dispatched twice and after crashes (OwnWorktree).
THEOREM OwnWorktrees == Spec => []OwnWorktree
  <1>1. WInv => OwnWorktree
    BY DEF WInv, Apart, OwnWorktree
  <1> QED
    BY ApartInductive, <1>1, PTL

\* A step of an executor deletes no branch, and takes none that is there.
LEMMA ExecutorPreserves ==
  ASSUME IInv, NEW i \in DOMAIN execs, ExecutorStep(i), NEW b \in branches
  PROVE  b \in branches' /\ (AtWork(b)' => AtWork(b))
  <1>1. CASE ClearWorktree(i) \/ CloseWorktree(i)
    <2>1. PICK pc \in {"adding", "parsing"} : SetPc(i, pc)
      BY <1>1 DEF ClearWorktree, CloseWorktree
    <2>2. /\ DOMAIN execs' = DOMAIN execs /\ execs'[i].pc # "running"
          /\ \A j \in DOMAIN execs \ {i} : execs'[j] = execs[j]
      BY <2>1, SetPcBranch DEF IInv
    <2>3. branches' = branches
      BY <1>1 DEF ClearWorktree, CloseWorktree
    <2> QED
      BY <2>2, <2>3 DEF AtWork
  <1>2. CASE AddWorktree(i)
    BY <1>2, AddedName DEF AtWork
  <1>3. CASE \/ TryAgain(i) \/ WorktreeFailed(i)
             \/ RecordSome(i) \/ ParseRaised(i)
    BY <1>3, EndingGit DEF AtWork
  <1> QED
    BY <1>1, <1>2, <1>3 DEF ExecutorStep

\* A branch is never deleted, and once it is there no executor is put to work
\* on it: the work of every earlier run is kept, whatever reports and the
\* coordinator call it (PreservedWork).
THEOREM WorkPreserved == Spec => PreservedWork
  <1>1. ASSUME IInv, [Next]_vars, NEW b \in branches
        PROVE  b \in branches' /\ (AtWork(b)' => AtWork(b))
    <2>1. ASSUME NEW i \in DOMAIN execs, ExecutorStep(i)
          PROVE  b \in branches' /\ (AtWork(b)' => AtWork(b))
      BY <1>1, <2>1, ExecutorPreserves
    <2>2. ASSUME NEW tasks, NEW resume, Dispatch(tasks, resume)
          PROVE  b \in branches' /\ (AtWork(b)' => AtWork(b))
      <3>1. /\ branches' = branches
            /\ execs' = [i \in DOMAIN tasks |->
                           IF Dispatchable(tasks[i])
                             THEN Launch(tasks[i], resume)
                             ELSE Refused(tasks[i])]
        BY <2>2 DEF Dispatch, git
      <3>2. \A n : Launch(n, resume).pc # "running" /\ Refused(n).pc # "running"
        BY DEF Launch, Refused
      <3>3. \A i \in DOMAIN execs' : execs'[i].pc # "running"
        BY <3>1, <3>2
      <3> QED
        BY <3>1, <3>3 DEF AtWork
    <2>3. CASE branches' = branches /\ execs' = << >>
      BY <2>3 DEF AtWork
    <2>4. CASE branches' = branches /\ UNCHANGED <<execs, worktrees>>
      BY <2>4 DEF AtWork
    <2> QED
      BY <1>1, <2>1, <2>2, <2>3, <2>4, OtherSteps
  <1>2. IInv /\ [Next]_vars =>
          [\A b \in branches : b \in branches' /\ (AtWork(b)' => AtWork(b))]_vars
    BY <1>1
  <1> QED
    BY <1>2, Inductive, PTL DEF Spec, PreservedWork

-----------------------------------------------------------------------------
(* What no step may undo.  Two promises about steps, PrunedStaysPruned and  *)
(* ResultsAreFinal, from what holds of the nodes executors work on: none is *)
(* pruned and, where no task list names a node twice, each is running and   *)
(* belongs to one executor.                                                 *)

\* No executor works on a node that was pruned.
NonePruned == \A i \in Live : tree[execs[i].node].status # "pruned"

\* A list that names no node twice.
Distinct(s) == \A i, j \in DOMAIN s : i # j => s[i] # s[j]

\* The task lists the coordinator offers.
DistinctLists == \A tasks \in TaskLists : Distinct(tasks)

\* What a parallel call still reviews or has kept names no node twice.
Apiece ==
  /\ Distinct(tool.tasks)
  /\ Distinct(tool.kept)
  /\ \A i \in DOMAIN tool.tasks, j \in DOMAIN tool.kept :
       tool.tasks[i] # tool.kept[j]

\* Where lists are distinct, the node of a live executor is running, and no
\* two executors share one.
Sole ==
  /\ \A i \in Live : tree[execs[i].node].status = "running"
  /\ \A i, j \in DOMAIN execs : i # j => execs[i].node # execs[j].node
  /\ Apiece

\* A nonempty set of numbers with a bound has a least one.
LEMMA LeastNumber ==
  ASSUME NEW N \in Nat, NEW S \in SUBSET (0 .. N), S # {}
  PROVE  \E x \in S : \A y \in S : x <= y
  <1> DEFINE U == 0 .. N
             R == StrictSubsetOrdering(U)
             T == {0 .. x : x \in S}
  <1>1. IsWellFoundedOn(R, FiniteSubsetsOf(U))
    BY FS_StrictSubsetOrderingWellFounded
  <1>2. IsFiniteSet(U)
    BY FS_Interval
  <1>3. FiniteSubsetsOf(U) = SUBSET U
    BY <1>2, FS_FiniteSubsetsOfFinite
  <1>4. T \subseteq SUBSET U /\ T # {}
    <2>1. \A x \in S : x \in 0 .. N
      OBVIOUS
    <2>2. \A x \in S : 0 .. x \subseteq U
      BY <2>1
    <2> HIDE DEF U
    <2> QED BY <2>2
  <1> HIDE DEF R
  <1>5. PICK s \in T : \A r \in T : ~(<<r, s>> \in R)
    <2> HIDE DEF T, U
    <2> QED BY <1>1, <1>3, <1>4, WFMin
  <1>6. PICK x \in S : s = 0 .. x
    BY <1>5
  <1>7. ASSUME NEW y \in S, y < x PROVE FALSE
    <2>1. x \in Nat /\ y \in Nat /\ x <= N /\ y <= N
      OBVIOUS
    <2>2. 0 .. y \in T /\ s \in SUBSET U /\ 0 .. y \in SUBSET U
      BY <1>4, <1>5
    <2>3. 0 .. y \subseteq 0 .. x /\ x \in 0 .. x /\ x \notin 0 .. y
      BY <2>1, <1>7
    <2>4. 0 .. y \subseteq s /\ 0 .. y # s
      BY <1>6, <2>3
    <2>5. <<0 .. y, s>> \in R
      BY <2>2, <2>4 DEF R, StrictSubsetOrdering
    <2> QED BY <1>5, <2>2, <2>5
  <1> QED
    BY <1>7

\* The id next_child_id hands out is not taken.
LEMMA FreshChild ==
  ASSUME NEW t, DOMAIN t \subseteq NodeIds, NEW p \in NodeIds
  PROVE  NextChildId(t, p) \notin DOMAIN t
  <1> USE IdeaTreeAssumption
  <1> DEFINE nums == {n[Len(n)] : n \in Children(t, p)}
             OK(k) == /\ \A j \in nums : j < k
                      /\ k = 1 \/ k - 1 \in nums
             next == CHOOSE k \in 1 .. MaxWidth + 1 : OK(k)
  <1>1. \A n \in NodeIds : /\ n \in Seq(1 .. MaxWidth) /\ Len(n) \in Nat
                           /\ Len(n) > 0 => n[Len(n)] \in 1 .. MaxWidth
    <2> SUFFICES ASSUME NEW n \in NodeIds
                 PROVE  /\ n \in Seq(1 .. MaxWidth) /\ Len(n) \in Nat
                        /\ Len(n) > 0 => n[Len(n)] \in 1 .. MaxWidth
      OBVIOUS
    <2>1. PICK d \in 0 .. DepthBound : n \in [1 .. d -> 1 .. MaxWidth]
      BY DEF NodeIds
    <2>2. n \in Seq(1 .. MaxWidth)
      BY <2>1
    <2> QED BY <2>2
  <1>2. nums \subseteq 1 .. MaxWidth
    <2> SUFFICES ASSUME NEW n \in Children(t, p)
                 PROVE  n[Len(n)] \in 1 .. MaxWidth
      OBVIOUS
    <2>1. n \in NodeIds /\ Len(n) = Len(p) + 1
      BY DEF Children
    <2>2. Len(p) \in Nat
      BY <1>1
    <2> QED BY <1>1, <2>1, <2>2
  <1> HIDE DEF nums
  <1>3. \E k \in 1 .. MaxWidth + 1 : OK(k)
    <2> DEFINE S == {k \in 1 .. MaxWidth + 1 : \A j \in nums : j < k}
    <2>1. S \in SUBSET (0 .. MaxWidth + 1) /\ S # {}
      <3>1. MaxWidth + 1 \in S
        BY <1>2
      <3> QED BY <3>1
    <2>2. PICK k \in S : \A y \in S : k <= y
      <3> HIDE DEF S
      <3>1. MaxWidth + 1 \in Nat
        OBVIOUS
      <3> QED BY <2>1, <3>1, LeastNumber
    <2>3. k = 1 \/ k - 1 \in nums
      <3> SUFFICES ASSUME k # 1 PROVE k - 1 \in nums
        OBVIOUS
      <3>1. k - 1 \in 1 .. MaxWidth + 1 /\ k - 1 \notin S
        BY <2>2
      <3>2. PICK j \in nums : ~(j < k - 1)
        BY <3>1
      <3>3. j < k /\ j \in Nat /\ k \in Nat
        BY <1>2, <2>2, <3>2
      <3>4. j = k - 1
        BY <3>2, <3>3
      <3> QED BY <3>2, <3>4
    <2> QED BY <2>2, <2>3
  <1>4. next \in 1 .. MaxWidth + 1 /\ OK(next)
    <2> HIDE DEF OK
    <2> QED BY <1>3
  <1> HIDE DEF next
  <1>5. NextChildId(t, p) = Append(p, next)
    BY DEF NextChildId, next, nums
  <1>6. ASSUME Append(p, next) \in DOMAIN t PROVE FALSE
    <2> DEFINE m == Append(p, next)
    <2>1. p \in Seq(Nat) /\ next \in Nat /\ Len(p) \in Nat
      BY <1>1, <1>4
    <2>2. /\ Len(m) = Len(p) + 1 /\ m[Len(m)] = next
          /\ SubSeq(m, 1, Len(p)) = p /\ m \in DOMAIN t
      BY <1>6, <2>1
    <2> HIDE DEF m
    <2>3. m \in Children(t, p)
      <3>1. Len(p) <= Len(p) + 1
        BY <2>1
      <3> QED BY <2>2, <3>1 DEF Children, InSubtree
    <2>4. next \in nums
      BY <2>2, <2>3 DEF nums
    <2> QED BY <1>4, <2>1, <2>4
  <1> QED
    BY <1>5, <1>6

\* A dispatch marks the admissible nodes of its tasks and touches no other;
\* its executors stand in the order of the tasks.
LEMMA DispatchMarks ==
  ASSUME IInv, NEW tasks \in Seq(NodeIds), NEW resume \in BOOLEAN,
         Dispatch(tasks, resume)
  PROVE  /\ DOMAIN tree' = DOMAIN tree
         /\ \A n \in DOMAIN tree :
              tree[n].status \in {"done", "merged", "pruned"} =>
                tree'[n] = tree[n]
         /\ DOMAIN execs' = DOMAIN tasks
         /\ \A i \in DOMAIN tasks :
              /\ execs'[i].node = tasks[i]
              /\ execs'[i].pc # "ended" => tree'[tasks[i]].status = "running"
         /\ tool'.tasks = << >> /\ tool'.kept = << >>
  <1> DEFINE ok == {j \in DOMAIN tasks : Dispatchable(tasks[j])}
             started == {tasks[i] : i \in ok}
  <1>1. /\ execs' = [i \in DOMAIN tasks |->
                       IF Dispatchable(tasks[i]) THEN Launch(tasks[i], resume)
                                                 ELSE Refused(tasks[i])]
        /\ tree' = SetStatus(tree, started, "running")
        /\ tool' = [kind |-> "dispatch", tasks |-> << >>, kept |-> << >>]
    BY DEF Dispatch, Save
  <1>2. IsTree(tree) /\ \A n \in DOMAIN tree : tree[n] \in Node
    BY DEF IInv, TypeOK, IsTree
  <1>3. \A n \in started :
          /\ n \in DOMAIN tree
          /\ tree[n].status \in {"pending", "running", "needs_retry"}
    BY DEF Dispatchable
  <1>4. /\ DOMAIN tree' = DOMAIN tree
        /\ \A n \in DOMAIN tree : n \in started => tree'[n].status = "running"
    BY <1>1, <1>2, SetStatusTree DEF Status
  <1>5. \A n \in DOMAIN tree \ started : tree'[n] = tree[n]
    <2> HIDE DEF started
    <2> QED BY <1>1 DEF SetStatus
  <1>6. \A n \in DOMAIN tree :
          tree[n].status \in {"done", "merged", "pruned"} => tree'[n] = tree[n]
    <2> HIDE DEF started
    <2> QED BY <1>3, <1>5
  <1>7. ASSUME NEW i \in DOMAIN tasks
        PROVE  /\ execs'[i].node = tasks[i]
               /\ execs'[i].pc # "ended" => tree'[tasks[i]].status = "running"
    <2>1. CASE Dispatchable(tasks[i])
      <3>1. execs'[i].node = tasks[i]
        BY <1>1, <2>1 DEF Launch
      <3>2. tasks[i] \in started
        BY <2>1
      <3> QED BY <1>3, <1>4, <3>1, <3>2
    <2>2. CASE ~Dispatchable(tasks[i])
      BY <1>1, <2>2 DEF Refused
    <2> QED BY <2>1, <2>2
  <1> QED
    BY <1>1, <1>4, <1>6, <1>7

\* A step of an executor touches the node it works on and no other, and if it
\* does the executor has ended; the other executors stay as they are.
LEMMA ExecutorMarks ==
  ASSUME IInv, NEW i \in DOMAIN execs, ExecutorStep(i)
  PROVE  /\ i \in Live /\ tool' = tool
         /\ DOMAIN tree' = DOMAIN tree
         /\ \A n \in DOMAIN tree : n # execs[i].node => tree'[n] = tree[n]
         /\ tree' = tree \/ execs'[i].pc = "ended"
         /\ DOMAIN execs' = DOMAIN execs
         /\ \A j \in DOMAIN execs : execs'[j].node = execs[j].node
         /\ \A j \in DOMAIN execs \ {i} : execs'[j] = execs[j]
  <1>1. i \in Live /\ tool' = tool
    BY ExecutorLive DEF Live
  <1>2. TypeOK /\ IsTree(tree) /\ execs \in Seq(Executor) /\ execs[i] \in Executor
    BY DEF IInv, TypeOK
  <1>3. CASE \/ ClearWorktree(i) \/ TryAgain(i) \/ CloseWorktree(i)
             \/ ParseRaised(i)
    <2>1. PICK pc \in {"adding", "again", "parsing", "ended"} : SetPc(i, pc)
      BY <1>3 DEF ClearWorktree, TryAgain, CloseWorktree, ParseRaised
    <2>2. tree' = tree
      BY <1>3 DEF ClearWorktree, TryAgain, CloseWorktree, ParseRaised
    <2> QED BY <1>1, <1>2, <2>1, <2>2, SetPcExecs
  <1>4. CASE AddWorktree(i)
    <2>1. tree' = tree
      BY <1>4 DEF AddWorktree
    <2>2. PICK f : execs' = [execs EXCEPT ![i].pc = "running",
                                          ![i].branch = f]
      BY <1>4 DEF AddWorktree
    <2>3. /\ DOMAIN execs' = DOMAIN execs
          /\ \A j \in DOMAIN execs \ {i} : execs'[j] = execs[j]
      BY <2>2
    <2>4. execs'[i].node = execs[i].node
      BY <1>2, <2>2 DEF Executor
    <2> QED BY <1>1, <2>1, <2>3, <2>4
  <1>5. CASE WorktreeFailed(i)
    <2>1. /\ tree' = SetStatus(tree, {execs[i].node}, "pending")
          /\ SetPc(i, "ended")
      BY <1>5 DEF WorktreeFailed, Save
    <2>2. /\ DOMAIN tree' = DOMAIN tree
          /\ \A n \in DOMAIN tree : n # execs[i].node => tree'[n] = tree[n]
      BY <2>1 DEF SetStatus
    <2> QED BY <1>1, <1>2, <2>1, <2>2, SetPcExecs
  <1>6. CASE RecordSome(i)
    <2>1. PICK r : /\ tree' = [tree EXCEPT ![execs[i].node] = r]
                   /\ SetPc(i, "ended")
      BY <1>6 DEF RecordSome, Record, Save
    <2>2. /\ DOMAIN tree' = DOMAIN tree
          /\ \A n \in DOMAIN tree : n # execs[i].node => tree'[n] = tree[n]
      BY <2>1
    <2> QED BY <1>1, <1>2, <2>1, <2>2, SetPcExecs
  <1> QED
    BY <1>3, <1>4, <1>5, <1>6 DEF ExecutorStep

\* What a step outside a dispatch may do to a node that exists.
Allowed(n) ==
  \/ tree'[n] = tree[n]
  \/ tree[n].status = "running"
  \/ /\ tree'[n].status = "pruned"
     /\ Manual \/ ReviewSkipped \/ TaskSkipped
  \/ \E u \in ManualUpdates : TreeUpdateNode(n, u)

\* The tasks of a call are distinct if the lists they come from are.
Once(tasks) == DistinctLists /\ Apiece => Distinct(tasks)

\* A step that starts no dispatch and leaves no executor behind.
Calm ==
  /\ execs' = << >>
  /\ \A n \in DOMAIN tree : n \in DOMAIN tree' /\ Allowed(n)

\* A pruning marks the subtree and leaves the rest alone.
LEMMA PruneMarks ==
  ASSUME IInv, NEW id, tree' = PruneNode(tree, id)
  PROVE  \A n \in DOMAIN tree :
           /\ n \in DOMAIN tree'
           /\ tree'[n] = tree[n] \/ tree'[n].status = "pruned"
  <1>1. \A n \in DOMAIN tree : tree[n] \in Node
    BY DEF IInv, TypeOK, IsTree
  <1> QED
    BY <1>1, MarkedNode DEF PruneNode, Status

\* A new idea takes an id of its own, every other node is left alone.
LEMMA AddMarks ==
  ASSUME IInv, NEW p, CanAddUnder(p), AddUnder(p)
  PROVE  \A n \in DOMAIN tree : n \in DOMAIN tree' /\ tree'[n] = tree[n]
  <1>1. DOMAIN tree \subseteq NodeIds /\ p \in DOMAIN tree
    BY DEF IInv, TypeOK, IsTree, CanAddUnder
  <1> DEFINE id == NextChildId(tree, p)
  <1>2. id \notin DOMAIN tree
    BY <1>1, FreshChild
  <1>3. tree' = AddNode(tree, id)
    BY DEF AddUnder, Save
  <1> HIDE DEF id
  <1> QED
    BY <1>2, <1>3 DEF AddNode

\* The tree tools start no executor and do what is allowed to each node.
LEMMA ManualCalm ==
  ASSUME IInv, Manual
  PROVE  Calm
  <1>1. up /\ tool.kind # "dispatch"
    BY DEF Manual, TreeAddNode, TreePrune, TreeUpdateNode, MergeRecordsMedal,
           TreeSetMeta, Ready
  <1>2. execs = << >>
    BY <1>1, BetweenExecutors
  <1>3. execs' = << >>
    BY <1>2 DEF Manual, TreeAddNode, TreePrune, TreeUpdateNode,
                MergeRecordsMedal, TreeSetMeta, AddUnder, Await
  <1>4. ASSUME NEW p \in NodeIds, TreeAddNode(p)
        PROVE  \A n \in DOMAIN tree : n \in DOMAIN tree' /\ tree'[n] = tree[n]
    <2>1. CanAddUnder(p) /\ (AddUnder(p) \/ tree' = tree)
      BY <1>4 DEF TreeAddNode, Await
    <2> QED BY <2>1, AddMarks
  <1>5. ASSUME NEW id \in NodeIds, TreePrune(id)
        PROVE  \A n \in DOMAIN tree :
                 /\ n \in DOMAIN tree'
                 /\ tree'[n] = tree[n] \/ tree'[n].status = "pruned"
    <2>1. tree' = PruneNode(tree, id)
      BY <1>5 DEF TreePrune, Save
    <2> QED BY <2>1, PruneMarks
  <1>6. ASSUME NEW m \in NodeIds, NEW u \in ManualUpdates, TreeUpdateNode(m, u)
        PROVE  \A n \in DOMAIN tree :
                 n \in DOMAIN tree' /\ (n = m \/ tree'[n] = tree[n])
    BY <1>6 DEF TreeUpdateNode, Save
  <1>7. CASE MergeRecordsMedal \/ TreeSetMeta
    <2>1. tree' = tree
      BY <1>7 DEF MergeRecordsMedal, TreeSetMeta, Save
    <2> QED BY <1>3, <2>1 DEF Calm, Allowed
  <1>8. ASSUME NEW m \in NodeIds, NEW u \in ManualUpdates, TreeUpdateNode(m, u)
        PROVE  Calm
    BY <1>3, <1>6, <1>8 DEF Calm, Allowed
  <1>9. ASSUME NEW p \in NodeIds, TreeAddNode(p) \/ TreePrune(p)
        PROVE  Calm
    <2>1. \A n \in DOMAIN tree :
            /\ n \in DOMAIN tree'
            /\ tree'[n] = tree[n] \/ tree'[n].status = "pruned"
      BY <1>4, <1>5, <1>9
    <2> QED BY <1>3, <2>1 DEF Calm, Allowed
  <1> QED
    BY <1>7, <1>8, <1>9 DEF Manual

\* An answer of the human dispatches what was under review, or starts nothing
\* and does what is allowed to each node.
LEMMA ReviewCalm ==
  ASSUME IInv, Review
  PROVE  \/ Calm
         \/ \E tasks \in {tool.tasks, tool.kept} : Dispatch(tasks, FALSE)
  <1>1. /\ up /\ tool.kind # "dispatch"
        /\ tool.kind = "add" => CanAddUnder(tool.tasks[1])
    BY DEF Review, ProposalApproved, ProposalSkipped, ReviewApproved,
           ReviewSkipped, TaskApproved, TaskSkipped, ReviewsDone, IInv, Coherent
  <1>2. execs = << >>
    BY <1>1, BetweenExecutors
  <1>3. CASE ReviewApproved \/ ReviewsDone
    BY <1>3 DEF ReviewApproved, ReviewsDone
  <1>4. CASE ProposalApproved
    <2>1. AddUnder(tool.tasks[1]) /\ CanAddUnder(tool.tasks[1])
          /\ execs' = << >>
      BY <1>1, <1>2, <1>4 DEF ProposalApproved, AddUnder
    <2>2. \A n \in DOMAIN tree : n \in DOMAIN tree' /\ tree'[n] = tree[n]
      BY <2>1, AddMarks
    <2> QED BY <2>1, <2>2 DEF Calm, Allowed
  <1>5. CASE ProposalSkipped \/ TaskApproved
    <2>1. tree' = tree /\ execs' = << >>
      BY <1>2, <1>5 DEF ProposalSkipped, TaskApproved
    <2> QED BY <2>1 DEF Calm, Allowed
  <1>6. CASE ReviewSkipped \/ TaskSkipped
    <2>1. tree' = PruneNode(tree, tool.tasks[1]) /\ execs' = << >>
      BY <1>2, <1>6 DEF ReviewSkipped, TaskSkipped, Skip, Save
    <2>2. \A n \in DOMAIN tree :
            /\ n \in DOMAIN tree'
            /\ tree'[n] = tree[n] \/ tree'[n].status = "pruned"
      BY <2>1, PruneMarks
    <2> QED BY <1>6, <2>1, <2>2 DEF Calm, Allowed
  <1> QED
    BY <1>3, <1>4, <1>5, <1>6 DEF Review

\* Truncation keeps a front of the list, so it repeats no node the list did not.
LEMMA TruncatedDistinct ==
  ASSUME IInv, BudgetLeft, NEW offered \in Seq(NodeIds), Distinct(offered),
         MaxParallel # NoLimit => MaxParallel > 1
  PROVE  Distinct(Truncated(offered))
  <1> USE DispatchAssumption
  <1> DEFINE policy == IF MaxParallel = NoLimit THEN Len(offered)
                       ELSE IF MaxParallel < Len(offered) THEN MaxParallel
                       ELSE Len(offered)
             left   == MaxCycles - CompletedCycles(tree)
             k      == IF left < policy THEN left ELSE policy
  <1>1. CompletedCycles(tree) \in Nat
    BY CyclesNat DEF IInv, Coherent
  <1>2. left \in Nat
    BY <1>1 DEF BudgetLeft
  <1>3. Len(offered) \in Nat
    OBVIOUS
  <1>4. policy \in Nat /\ policy <= Len(offered)
    BY <1>3
  <1> HIDE DEF left, policy
  <1>5. k \in Nat /\ k <= Len(offered)
    BY <1>2, <1>3, <1>4
  <1> HIDE DEF k
  <1>6. Distinct(SubSeq(offered, 1, k))
    BY <1>3, <1>5 DEF Distinct
  <1> QED
    BY <1>6 DEF Truncated, k, left, policy

\* The tools that start executors dispatch their tasks or await the human.
LEMMA StartCalm ==
  ASSUME IInv, StartExecutors
  PROVE  \/ Calm
         \/ \E tasks \in Seq(NodeIds), resume \in BOOLEAN :
              Once(tasks) /\ Dispatch(tasks, resume)
  <1>1. up /\ tool.kind = "idle"
    BY DEF StartExecutors, RunExecutor, ResumeExecutor, RunExecutorParallel,
           Ready
  <1>2. execs = << >>
    BY <1>1, BetweenExecutors
  <1>3. ASSUME NEW kind, NEW tasks, Await(kind, tasks) PROVE Calm
    <2>1. tree' = tree /\ execs' = << >>
      BY <1>2, <1>3 DEF Await
    <2> QED BY <2>1 DEF Calm, Allowed
  <1>4. ASSUME NEW n \in NodeIds, RunExecutor(n) \/ ResumeExecutor(n)
        PROVE  \/ Calm
               \/ \E tasks \in Seq(NodeIds), resume \in BOOLEAN :
                    Once(tasks) /\ Dispatch(tasks, resume)
    <2>1. <<n>> \in Seq(NodeIds) /\ Once(<<n>>)
      BY DEF Once, Distinct
    <2>2. \/ Await("review", <<n>>)
          \/ Dispatch(<<n>>, FALSE)
          \/ Dispatch(<<n>>, TRUE)
      BY <1>4 DEF RunExecutor, ResumeExecutor
    <2> QED BY <1>3, <2>1, <2>2
  <1>5. ASSUME NEW offered \in TaskLists, RunExecutorParallel(offered)
        PROVE  \/ Calm
               \/ \E tasks \in Seq(NodeIds), resume \in BOOLEAN :
                    Once(tasks) /\ Dispatch(tasks, resume)
    <2>1. BudgetLeft /\ (MaxParallel # NoLimit => MaxParallel > 1)
      BY <1>5 DEF RunExecutorParallel
    <2>2. offered \in Seq(NodeIds)
      BY DispatchAssumption
    <2>3. Truncated(offered) \in Seq(NodeIds) /\ Once(Truncated(offered))
      BY <2>1, <2>2, TruncatedType, TruncatedDistinct DEF Once, DistinctLists
    <2>4. \/ Await("reviewAll", Truncated(offered))
          \/ Dispatch(Truncated(offered), FALSE)
      BY <1>5 DEF RunExecutorParallel
    <2> QED BY <1>3, <2>3, <2>4
  <1> QED
    BY <1>4, <1>5 DEF StartExecutors

\* Every step is a dispatch between executors, a step of one executor, or a
\* step after which there is none; or it touches neither tree nor executors.
LEMMA EveryStep ==
  ASSUME IInv, [Next]_vars
  PROVE  \/ Calm
         \/ \E tasks \in Seq(NodeIds), resume \in BOOLEAN :
              Once(tasks) /\ Dispatch(tasks, resume)
         \/ \E i \in DOMAIN execs : ExecutorStep(i)
         \/ UNCHANGED <<tree, execs, tool>>
  <1>1. CASE Manual
    BY <1>1, ManualCalm
  <1>2. CASE Review
    <2>1. tool.tasks \in Seq(NodeIds) /\ tool.kept \in Seq(NodeIds)
      BY DEF IInv, TypeOK, Tool
    <2>2. Once(tool.tasks) /\ Once(tool.kept)
      BY DEF Once, Apiece
    <2> QED BY <1>2, <2>1, <2>2, ReviewCalm
  <1>3. CASE StartExecutors
    BY <1>3, StartCalm
  <1>4. CASE ToolReturns \/ Crash
    <2>1. tree' = tree /\ execs' = << >>
      BY <1>4 DEF ToolReturns, Crash
    <2> QED BY <2>1 DEF Calm, Allowed
  <1>5. CASE Resume
    <2>1. tree' = Requeue(tree) /\ execs' = execs /\ tool = Idle
      BY <1>5 DEF Resume, IInv, Coherent
    <2>2. execs' = << >>
      BY <2>1 DEF IInv, Coherent, Idle
    <2>3. \A n \in DOMAIN tree :
            n \in DOMAIN tree' /\ (tree'[n] = tree[n]
                                   \/ tree[n].status = "running")
      BY <2>1 DEF Requeue, SetStatus, WithStatus
    <2> QED BY <2>2, <2>3 DEF Calm, Allowed
  <1>6. CASE UNCHANGED vars
    BY <1>6 DEF vars
  <1> QED
    BY <1>1, <1>2, <1>3, <1>4, <1>5, <1>6 DEF Next

\* A step of an executor leaves its node as it is, or pending or with a result.
LEMMA ExecutorResult ==
  ASSUME IInv, NEW i \in DOMAIN execs, ExecutorStep(i)
  PROVE  \/ tree'[execs[i].node] = tree[execs[i].node]
         \/ tree'[execs[i].node].status \in {"pending", "done", "needs_retry"}
  <1> DEFINE n == execs[i].node
  <1>1. i \in Live
    BY ExecutorMarks
  <1>2. n \in DOMAIN tree /\ tree[n] \in Node /\ IsTree(tree)
    BY <1>1 DEF IInv, TypeOK, Coherent, LiveNodes, IsTree
  <1>3. CASE tree' = tree
    BY <1>3
  <1>4. CASE WorktreeFailed(i)
    <2>1. tree' = SetStatus(tree, {n}, "pending")
      BY <1>4 DEF WorktreeFailed, Save
    <2> QED BY <1>2, <2>1, SetStatusTree DEF Status
  <1>5. CASE RecordSome(i)
    <2>1. PICK o \in Outcome, code \in ReportedRefs \cup {execs[i].branch} :
            Record(i, o, code)
      BY <1>5 DEF RecordSome
    <2>2. tree'[n].status = Classify(o)
      BY <1>2, <2>1 DEF Record, Save
    <2> QED BY <2>2 DEF Classify
  <1> QED
    BY <1>3, <1>4, <1>5 DEF ExecutorStep, ClearWorktree, AddWorktree,
                            TryAgain, CloseWorktree, ParseRaised

\* No step lets an executor work on a pruned node, and a pruned node stays
\* pruned unless the coordinator updates it.
LEMMA PrunedStep ==
  ASSUME IInv, NonePruned, [Next]_vars
  PROVE  /\ NonePruned'
         /\ \A n \in DOMAIN tree \cap DOMAIN tree' :
              tree[n].status = "pruned" =>
                \/ tree'[n].status = "pruned"
                \/ \E u \in ManualUpdates : TreeUpdateNode(n, u)
  <1>1. LiveNodes \subseteq DOMAIN tree
    BY DEF IInv, Coherent
  <1>2. CASE Calm
    <2>1. Live' = {}
      BY <1>2 DEF Calm, Live
    <2> QED BY <1>2, <2>1 DEF Calm, Allowed, NonePruned
  <1>3. ASSUME NEW tasks \in Seq(NodeIds), NEW resume \in BOOLEAN,
               Dispatch(tasks, resume)
        PROVE  /\ NonePruned'
               /\ \A n \in DOMAIN tree : tree[n].status = "pruned" =>
                                           tree'[n] = tree[n]
    <2>1. /\ DOMAIN execs' = DOMAIN tasks
          /\ \A i \in DOMAIN tasks :
              /\ execs'[i].node = tasks[i]
              /\ execs'[i].pc # "ended" => tree'[tasks[i]].status = "running"
          /\ \A n \in DOMAIN tree :
              tree[n].status = "pruned" => tree'[n] = tree[n]
      BY <1>3, DispatchMarks
    <2>2. \A i \in Live' : tree'[execs'[i].node].status = "running"
      BY <2>1 DEF Live
    <2> QED BY <2>1, <2>2 DEF NonePruned
  <1>4. ASSUME NEW i \in DOMAIN execs, ExecutorStep(i)
        PROVE  /\ NonePruned'
               /\ \A n \in DOMAIN tree : tree[n].status = "pruned" =>
                                           tree'[n] = tree[n]
    <2>1. /\ i \in Live /\ DOMAIN tree' = DOMAIN tree
          /\ \A n \in DOMAIN tree : n # execs[i].node => tree'[n] = tree[n]
          /\ DOMAIN execs' = DOMAIN execs
          /\ \A j \in DOMAIN execs : execs'[j].node = execs[j].node
          /\ \A j \in DOMAIN execs \ {i} : execs'[j] = execs[j]
      BY <1>4, ExecutorMarks
    <2>2. tree[execs[i].node].status # "pruned"
      BY <2>1 DEF NonePruned
    <2>3. tree'[execs[i].node].status # "pruned"
      BY <1>4, <2>2, ExecutorResult
    <2>4. ASSUME NEW j \in Live' PROVE tree'[execs'[j].node].status # "pruned"
      <3>1. j \in Live
        BY <2>1, <2>4 DEF Live
      <3>2. /\ execs'[j].node = execs[j].node /\ execs[j].node \in DOMAIN tree
            /\ tree[execs[j].node].status # "pruned"
        BY <1>1, <2>1, <3>1 DEF NonePruned, LiveNodes, Live
      <3> QED BY <2>1, <2>3, <3>2
    <2> QED BY <2>1, <2>2, <2>4 DEF NonePruned
  <1>5. CASE UNCHANGED <<tree, execs, tool>>
    BY <1>5 DEF NonePruned, Live
  <1> QED
    BY <1>2, <1>3, <1>4, <1>5, EveryStep

\* A pruned idea comes back only when the coordinator updates it by name:
\* neither a dispatch nor an executor, a review, a new idea or a restart
\* revives it (PrunedStaysPruned).
THEOREM PrunedRemains == Spec => PrunedStaysPruned
  <1>1. Init => NonePruned
    BY DEF Init, NonePruned, Live
  <1>2. IInv /\ NonePruned /\ [Next]_vars => NonePruned'
    BY PrunedStep
  <1>3. IInv /\ NonePruned /\ [Next]_vars =>
          [\A n \in DOMAIN tree \cap DOMAIN tree' :
             tree[n].status = "pruned" =>
               \/ tree'[n].status = "pruned"
               \/ \E u \in ManualUpdates : TreeUpdateNode(n, u)]_vars
    BY PrunedStep
  <1> QED
    BY <1>1, <1>2, <1>3, Inductive, PTL DEF Spec, PrunedStaysPruned

\* No step puts a node twice among the tasks under review and those kept.
LEMMA ApieceStep ==
  ASSUME IInv, Apiece, DistinctLists, [Next]_vars
  PROVE  Apiece'
  <1>1. tool.tasks \in Seq(NodeIds) /\ tool.kept \in Seq(NodeIds)
    BY DEF IInv, TypeOK, Tool
  <1>2. ASSUME tool' = tool PROVE Apiece'
    BY <1>2 DEF Apiece, Distinct
  <1>3. ASSUME Distinct(tool'.tasks), tool'.kept = << >> PROVE Apiece'
    BY <1>3 DEF Apiece, Distinct
  <1>4. ASSUME tool' = Idle PROVE Apiece'
    BY <1>3, <1>4 DEF Idle, Distinct
  <1>5. ASSUME NEW tasks, NEW resume, Dispatch(tasks, resume) PROVE Apiece'
    <2>1. tool'.tasks = << >> /\ tool'.kept = << >>
      BY <1>5 DEF Dispatch
    <2> QED BY <1>3, <2>1 DEF Distinct
  <1>6. ASSUME NEW kind, NEW tasks, Await(kind, tasks), Distinct(tasks)
        PROVE  Apiece'
    BY <1>3, <1>6 DEF Await
  <1>7. \A n : Distinct(<<n>>)
    BY DEF Distinct
  <1>8. CASE Manual
    BY <1>2, <1>6, <1>7, <1>8
    DEF Manual, TreeAddNode, TreePrune, TreeUpdateNode, MergeRecordsMedal,
        TreeSetMeta
  <1>9. ASSUME NEW kept, tool.tasks # << >>, NextReviewed(kept),
               \/ kept = tool.kept
               \/ kept = Append(tool.kept, tool.tasks[1])
        PROVE  Apiece'
    <2>1. Distinct(kept)
      BY <1>1, <1>9 DEF Apiece, Distinct
    <2>2. CASE Len(tool.tasks) > 1
      <3>1. tool' = [kind |-> "reviewAll", tasks |-> Tail(tool.tasks),
                     kept |-> kept]
        BY <1>9, <2>2, Zenon DEF NextReviewed
      <3>2. tool'.tasks = Tail(tool.tasks) /\ tool'.kept = kept
        BY <3>1
      <3>3. Distinct(Tail(tool.tasks))
        BY <1>1, <1>9 DEF Apiece, Distinct
      <3>4. \A i \in DOMAIN Tail(tool.tasks), j \in DOMAIN kept :
              Tail(tool.tasks)[i] # kept[j]
        BY <1>1, <1>9 DEF Apiece, Distinct
      <3> QED BY <2>1, <3>2, <3>3, <3>4 DEF Apiece
    <2>3. CASE ~(Len(tool.tasks) > 1)
      <3>1. tool' = Idle \/ (tool'.tasks = << >> /\ tool'.kept = kept)
        BY <1>9, <2>3 DEF NextReviewed
      <3> QED BY <1>4, <2>1, <3>1 DEF Apiece, Distinct
    <2> QED BY <2>2, <2>3
  <1>10. CASE Review
    <2>1. CASE TaskApproved \/ TaskSkipped
      BY <1>9, <2>1 DEF TaskApproved, TaskSkipped
    <2>2. CASE ReviewApproved \/ ReviewsDone
      BY <1>5, <2>2 DEF ReviewApproved, ReviewsDone
    <2>3. CASE ProposalApproved \/ ProposalSkipped \/ ReviewSkipped
      BY <1>4, <2>3 DEF ProposalApproved, ProposalSkipped, ReviewSkipped
    <2> QED BY <1>10, <2>1, <2>2, <2>3 DEF Review
  <1>11. CASE StartExecutors
    <2>1. ASSUME NEW n \in NodeIds, RunExecutor(n) \/ ResumeExecutor(n)
          PROVE  Apiece'
      BY <1>5, <1>6, <1>7, <2>1 DEF RunExecutor, ResumeExecutor
    <2>2. ASSUME NEW offered \in TaskLists, RunExecutorParallel(offered)
          PROVE  Apiece'
      <3>1. BudgetLeft /\ (MaxParallel # NoLimit => MaxParallel > 1)
        BY <2>2 DEF RunExecutorParallel
      <3>2. offered \in Seq(NodeIds) /\ Distinct(offered)
        BY DispatchAssumption DEF DistinctLists
      <3>3. Distinct(Truncated(offered))
        BY <3>1, <3>2, TruncatedDistinct
      <3> QED BY <1>5, <1>6, <2>2, <3>3 DEF RunExecutorParallel
    <2> QED BY <1>11, <2>1, <2>2 DEF StartExecutors
  <1>12. ASSUME NEW i \in DOMAIN execs, ExecutorStep(i) PROVE Apiece'
    BY <1>2, <1>12, ExecutorMarks
  <1>13. CASE ToolReturns \/ Crash
    BY <1>4, <1>13 DEF ToolReturns, Crash
  <1>14. CASE Resume \/ UNCHANGED vars
    BY <1>2, <1>14 DEF Resume, vars
  <1> QED
    BY <1>8, <1>10, <1>11, <1>12, <1>13, <1>14 DEF Next

\* Where lists are distinct, no step gives two executors one node or takes the
\* node of a live one out of running, and none but a tree tool or a skip
\* touches a result.
LEMMA ResultStep ==
  ASSUME IInv, Sole, DistinctLists, [Next]_vars
  PROVE  /\ Sole'
         /\ \A n \in DOMAIN tree :
              tree[n].status \in {"done", "merged"} =>
                Manual \/ ReviewSkipped \/ TaskSkipped \/ tree'[n] = tree[n]
  <1>1. Apiece /\ Apiece'
    BY ApieceStep DEF Sole
  <1>2. LiveNodes \subseteq DOMAIN tree
    BY DEF IInv, Coherent
  <1>3. CASE Calm
    <2>1. Live' = {}
      BY <1>3 DEF Calm, Live
    <2>2. \A i, j \in DOMAIN execs' : i # j => execs'[i].node # execs'[j].node
      BY <1>3 DEF Calm
    <2>3. ASSUME NEW n \in DOMAIN tree, NEW u \in ManualUpdates,
                 TreeUpdateNode(n, u)
          PROVE  Manual
      <3>1. n \in NodeIds
        BY DEF IInv, TypeOK, IsTree
      <3> QED BY <2>3, <3>1 DEF Manual
    <2> QED BY <1>1, <1>3, <2>1, <2>2, <2>3 DEF Calm, Allowed, Sole
  <1>4. ASSUME NEW tasks \in Seq(NodeIds), NEW resume \in BOOLEAN,
               Once(tasks), Dispatch(tasks, resume)
        PROVE  /\ Sole'
               /\ \A n \in DOMAIN tree :
                    tree[n].status \in {"done", "merged"} => tree'[n] = tree[n]
    <2>1. /\ DOMAIN execs' = DOMAIN tasks
          /\ \A i \in DOMAIN tasks :
              /\ execs'[i].node = tasks[i]
              /\ execs'[i].pc # "ended" => tree'[tasks[i]].status = "running"
          /\ \A n \in DOMAIN tree :
              tree[n].status \in {"done", "merged"} => tree'[n] = tree[n]
      BY <1>4, DispatchMarks
    <2>2. \A i \in Live' : tree'[execs'[i].node].status = "running"
      BY <2>1 DEF Live
    <2>3. \A i, j \in DOMAIN execs' : i # j => execs'[i].node # execs'[j].node
      BY <1>1, <1>4, <2>1 DEF Once, Distinct
    <2> QED BY <1>1, <2>1, <2>2, <2>3 DEF Sole
  <1>5. ASSUME NEW i \in DOMAIN execs, ExecutorStep(i)
        PROVE  /\ Sole'
               /\ \A n \in DOMAIN tree :
                    tree[n].status \in {"done", "merged"} => tree'[n] = tree[n]
    <2>1. /\ i \in Live /\ DOMAIN tree' = DOMAIN tree
          /\ \A n \in DOMAIN tree : n # execs[i].node => tree'[n] = tree[n]
          /\ tree' = tree \/ execs'[i].pc = "ended"
          /\ DOMAIN execs' = DOMAIN execs
          /\ \A j \in DOMAIN execs : execs'[j].node = execs[j].node
          /\ \A j \in DOMAIN execs \ {i} : execs'[j] = execs[j]
      BY <1>5, ExecutorMarks
    <2>2. tree[execs[i].node].status = "running"
      BY <2>1 DEF Sole
    <2>3. \A j, k \in DOMAIN execs' : j # k => execs'[j].node # execs'[k].node
      BY <2>1 DEF Sole
    <2>4. ASSUME NEW j \in Live'
          PROVE  tree'[execs'[j].node].status = "running"
      <3>1. j \in Live
        BY <2>1, <2>4 DEF Live
      <3>2. /\ execs'[j].node = execs[j].node /\ execs[j].node \in DOMAIN tree
            /\ tree[execs[j].node].status = "running"
        BY <1>2, <2>1, <3>1 DEF Sole, LiveNodes, Live
      <3>3. CASE j = i
        BY <2>1, <2>4, <3>2, <3>3 DEF Live
      <3>4. CASE j # i
        <4>1. execs[j].node # execs[i].node
          BY <3>4, <3>1 DEF Sole, Live
        <4> QED BY <2>1, <3>2, <4>1
      <3> QED BY <3>3, <3>4
    <2> QED BY <1>1, <2>1, <2>2, <2>3, <2>4 DEF Sole
  <1>6. CASE UNCHANGED <<tree, execs, tool>>
    BY <1>1, <1>6 DEF Sole, Live
  <1> QED
    BY <1>3, <1>4, <1>5, <1>6, EveryStep

\* Where no task list names a node twice, the result of an idea is changed by
\* a tree tool or a human's skip, never by an executor, a dispatch or a restart
\* (ResultsAreFinal).  With a node named twice the second executor's result
\* replaces the first one's, as the code has it.
THEOREM ResultsKept == DistinctLists => (Spec => ResultsAreFinal)
  <1> SUFFICES ASSUME DistinctLists PROVE Spec => ResultsAreFinal
    OBVIOUS
  <1>1. Init => Sole
    BY DEF Init, Sole, Apiece, Distinct, Live, Idle
  <1>2. IInv /\ Sole /\ [Next]_vars => Sole'
    BY ResultStep
  <1>3. IInv /\ Sole /\ [Next]_vars =>
          [\A n \in DOMAIN tree \ {Root} :
             tree[n].status \in {"done", "merged"} =>
               Manual \/ ReviewSkipped \/ TaskSkipped
                 \/ tree'[n] = tree[n]]_vars
    BY ResultStep
  <1> QED
    BY <1>1, <1>2, <1>3, Inductive, PTL DEF Spec, ResultsAreFinal
=============================================================================
