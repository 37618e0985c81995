-------------------------- MODULE ExecutorDispatch --------------------------
(***************************************************************************)
(* The coordinator's tools on the idea tree and the executors they         *)
(* dispatch (src/src/coordinator/tools/executor_run.py, tree_ops.py and    *)
(* worktree.py, with the resume path of orchestrator.py).                  *)
(*                                                                         *)
(* The coordinator agent runs its write tools one at a time, so there is   *)
(* one tool call in progress at most ("tool"); the concurrency is within a *)
(* call: the human review it awaits, and the executors it gathers.  A      *)
(* step ends where the coroutine awaits.  asyncio.gather lets each task    *)
(* run to its first await before anything else happens, so a dispatch      *)
(* marks all its nodes running in one step.                                *)
(*                                                                         *)
(* A crash, a cancelled run and the emergency timeout are one action: the  *)
(* process state goes, the tree on disk, the branches and the leftover     *)
(* worktrees stay.  What the language model decides (which tool, on which  *)
(* node, what a report says) is any choice.                                *)
(***************************************************************************)
EXTENDS IdeaTree

CONSTANTS
  MaxCycles,      \* config.max_cycles
  MaxRetries,     \* config.max_retries
  MaxParallel,    \* budget_policy.max_parallel_executors, or NoLimit
  ReviewMode,     \* ui.interaction_mode is "review" or "collaborative"
  TaskLists,      \* the task lists offered to RunExecutorParallel
  ManualUpdates,  \* the updates offered to TreeUpdateNode
  ReportedRefs,   \* the code_refs a report may name: any string
  Golds,          \* whether a merge may set the gold medal, may clear it
  MaxBranches     \* bound: branches git has room for

ASSUME DispatchAssumption ==
  /\ MaxCycles \in Nat
  /\ MaxRetries \in Nat
  /\ MaxParallel \in Nat \cup {NoLimit}
  /\ ReviewMode \in BOOLEAN
  /\ TaskLists \subseteq Seq(NodeIds)
  /\ ManualUpdates \subseteq [status : Status, code_ref : CodeRef]
  /\ ReportedRefs \subseteq CodeRef \ {NoBranch}
  /\ Golds \subseteq BOOLEAN
  /\ MaxBranches \in Nat

VARIABLES
  up,         \* the process is alive
  tree,       \* IdeaTree._nodes
  gold,       \* tree.meta["achieved_medal"] = "gold"
  disk,       \* the last idea_tree.json: [tree, gold]
  tool,       \* the write tool in progress
  execs,      \* the executors of the dispatch in progress, by task
  branches,   \* the branches git has
  worktrees,  \* the branches that have a worktree directory
  stray       \* history: nodes set to running with no executor to finish them

vars == <<up, tree, gold, disk, tool, execs, branches, worktrees, stray>>

git == <<branches, worktrees>>

-----------------------------------------------------------------------------
Idle == [kind |-> "idle", tasks |-> << >>, kept |-> << >>]

\* tasks: what is left to review (the parent for "add", the node for
\* "review"); kept: the tasks of a parallel call approved so far.
Tool == [kind : {"idle", "add", "review", "reviewAll", "dispatch"},
         tasks : Seq(NodeIds), kept : Seq(NodeIds)]

Executor == [node : NodeIds, attempt : Nat \ {0},
             from : Branch \cup {Trunk, Elsewhere}, branch : Branch,
             pc : {"clearing", "adding", "again", "running", "parsing",
                   "ended"}]

Live == {i \in DOMAIN execs : execs[i].pc # "ended"}
LiveNodes == {execs[i].node : i \in Live}

Ready == up /\ tool.kind = "idle"

\* Every mutation of the tree ends in tree.save().
Save(t) == tree' = t /\ disk' = [tree |-> t, gold |-> gold]

Init ==
  /\ up = TRUE
  /\ tree = RootOnly
  /\ gold = FALSE
  /\ disk = [tree |-> RootOnly, gold |-> FALSE]
  /\ tool = Idle
  /\ execs = << >>
  /\ branches = {}
  /\ worktrees = {}
  /\ stray = {}

-----------------------------------------------------------------------------
(* Dispatch *)

\* Seeded fault: any recorded state may run again.
FaultyDispatchable(n) ==
  ~gold /\ n \in DOMAIN tree

\* _validate_dispatch: no gold yet, the node exists, its status admits a run,
\* and it is a leaf when a depth limit is set.
Dispatchable(n) ==
  /\ ~gold
  /\ n \in DOMAIN tree
  /\ tree[n].status \in {"pending", "running", "needs_retry"}
  /\ MaxTreeDepth # NoLimit => Depth(n) >= MaxTreeDepth

\* The branch name before any timestamp: "-a<attempt>" on a resume that
\* continues preserved work.
BaseName(n, suffix) == [node |-> n, suffix |-> suffix, stamp |-> 0]

Continues(n, resume) == resume /\ tree[n].code_ref # NoBranch

Launch(n, resume) ==
  LET attempt == IF resume THEN tree[n].attempt + 1 ELSE tree[n].attempt
      base    == BaseName(n, IF Continues(n, resume) THEN attempt ELSE 0)
  IN [node |-> n, attempt |-> attempt, branch |-> base,
      from |-> IF Continues(n, resume) THEN tree[n].code_ref ELSE Trunk,
      pc |-> IF base \in worktrees THEN "clearing" ELSE "adding"]

Refused(n) ==
  [node |-> n, attempt |-> 1, from |-> Trunk,
   branch |-> BaseName(n, 0), pc |-> "ended"]

\* _run_single_executor up to its first await, for every task of the call.
Dispatch(tasks, resume) ==
  LET started == {tasks[i] : i \in {j \in DOMAIN tasks : Dispatchable(tasks[j])}}
  IN
  /\ execs' = [i \in DOMAIN tasks |->
                 IF Dispatchable(tasks[i]) THEN Launch(tasks[i], resume)
                                           ELSE Refused(tasks[i])]
  /\ Save(SetStatus(tree, started, "running"))
  /\ tool' = [kind |-> "dispatch", tasks |-> << >>, kept |-> << >>]
  /\ stray' = stray \ started
  /\ UNCHANGED <<up, gold, git>>

Await(kind, tasks) ==
  /\ tool' = [kind |-> kind, tasks |-> tasks, kept |-> << >>]
  /\ UNCHANGED <<up, tree, gold, disk, execs, git, stray>>

BudgetLeft == CompletedCycles(tree) < MaxCycles

\* RunExecutorTool.execute: the cap, then the human, then the dispatch.
RunExecutor(n) ==
  /\ Ready
  /\ BudgetLeft
  /\ IF ReviewMode /\ n \in DOMAIN tree
       THEN Await("review", <<n>>)
       ELSE Dispatch(<<n>>, FALSE)

\* Seeded fault: one retry too many.
FaultyResumeExecutor(n) ==
  /\ Ready
  /\ n \in DOMAIN tree
  /\ tree[n].status = "needs_retry"
  /\ tree[n].code_ref # NoBranch
  /\ tree[n].attempt <= MaxRetries + 1
  /\ BudgetLeft
  /\ Dispatch(<<n>>, TRUE)

ResumeExecutor(n) ==
  /\ Ready
  /\ n \in DOMAIN tree
  /\ tree[n].status = "needs_retry"
  /\ tree[n].code_ref # NoBranch
  /\ tree[n].attempt <= MaxRetries
  /\ BudgetLeft
  /\ Dispatch(<<n>>, TRUE)

\* Seeded fault: only the parallelism is bounded.
FaultyTruncated(tasks) ==
  IF MaxParallel # NoLimit /\ MaxParallel < Len(tasks)
    THEN SubSeq(tasks, 1, MaxParallel) ELSE tasks

\* RunExecutorParallelTool.execute: two truncations, then every remaining
\* task must be admissible before the first review.
Truncated(tasks) ==
  LET policy == IF MaxParallel = NoLimit THEN Len(tasks)
                ELSE IF MaxParallel < Len(tasks) THEN MaxParallel
                ELSE Len(tasks)
      left   == MaxCycles - CompletedCycles(tree)
  IN SubSeq(tasks, 1, IF left < policy THEN left ELSE policy)

Admissible(n) ==
  /\ n \in DOMAIN tree
  /\ tree[n].status \in {"pending", "needs_retry"}
  /\ MaxTreeDepth # NoLimit => Depth(n) >= MaxTreeDepth

RunExecutorParallel(offered) ==
  /\ Ready
  /\ MaxParallel # NoLimit => MaxParallel > 1
  /\ ~gold
  /\ BudgetLeft
  /\ LET tasks == Truncated(offered)
     IN /\ \A i \in DOMAIN tasks : Admissible(tasks[i])
        /\ IF ReviewMode THEN Await("reviewAll", tasks)
                         ELSE Dispatch(tasks, FALSE)

-----------------------------------------------------------------------------
(* The human review a tool awaits; a timeout approves. *)

Skip(n) ==
  /\ Save(PruneNode(tree, n))
  /\ UNCHANGED <<up, gold, git, execs, stray>>

ReviewApproved ==
  /\ up /\ tool.kind = "review"
  /\ Dispatch(tool.tasks, FALSE)

\* The skip prunes the node whatever its status: the gate comes before
\* _validate_dispatch.
ReviewSkipped ==
  /\ up /\ tool.kind = "review"
  /\ Skip(tool.tasks[1])
  /\ tool' = Idle

\* One task of a parallel call has been approved, others remain or not.
NextReviewed(kept) ==
  IF Len(tool.tasks) > 1
    THEN tool' = [kind |-> "reviewAll", tasks |-> Tail(tool.tasks),
                  kept |-> kept]
    ELSE tool' = IF kept = << >> THEN Idle
                 ELSE [kind |-> "reviewAll", tasks |-> << >>, kept |-> kept]

TaskApproved ==
  /\ up /\ tool.kind = "reviewAll" /\ tool.tasks # << >>
  /\ NextReviewed(Append(tool.kept, tool.tasks[1]))
  /\ UNCHANGED <<up, tree, gold, disk, execs, git, stray>>

TaskSkipped ==
  /\ up /\ tool.kind = "reviewAll" /\ tool.tasks # << >>
  /\ Skip(tool.tasks[1])
  /\ NextReviewed(tool.kept)

\* All reviewed: the kept tasks are dispatched (validated again, each).
ReviewsDone ==
  /\ up /\ tool.kind = "reviewAll" /\ tool.tasks = << >>
  /\ Dispatch(tool.kept, FALSE)

-----------------------------------------------------------------------------
(* One executor *)

SetPc(i, pc) == execs' = [execs EXCEPT ![i].pc = pc]

At(i, pc) == up /\ execs[i].pc = pc

\* Seeded fault: the stale branch goes with its directory.
FaultyClearWorktree(i) ==
  /\ At(i, "clearing")
  /\ worktrees' = worktrees \ {execs[i].branch}
  /\ branches' = branches \ {execs[i].branch}
  /\ SetPc(i, "adding")
  /\ UNCHANGED <<up, tree, gold, disk, tool, stray>>

\* _create_worktree removes a directory an earlier run left at its path.
ClearWorktree(i) ==
  /\ At(i, "clearing")
  /\ worktrees' = worktrees \ {execs[i].branch}
  /\ SetPc(i, "adding")
  /\ UNCHANGED <<up, tree, gold, disk, tool, branches, stray>>

\* Seeded fault: an existing branch is taken over (-B for -b).
FaultyUntaken(name) == name \in Branch

Untaken(name) == name \notin branches

\* The first try takes the name as it was computed, the second one stamps it.
Names(i) ==
  IF execs[i].pc = "adding" THEN {execs[i].branch}
  ELSE {[execs[i].branch EXCEPT !.stamp = s] : s \in 1 .. MaxBranches}

\* What git worktree add -b <name> <path> <start point> needs.
Creates(i, name) ==
  /\ up /\ execs[i].pc \in {"adding", "again"}
  /\ name \in Names(i)
  /\ Untaken(name)
  /\ execs[i].from \in branches \cup {Trunk}
  /\ Cardinality(branches) < MaxBranches
  /\ branches' = branches \cup {name}

AddWorktree(i) ==
  /\ \E name \in Names(i) :
       /\ Creates(i, name)
       /\ worktrees' = worktrees \cup {name}
       /\ execs' = [execs EXCEPT ![i].pc = "running", ![i].branch = name]
  /\ UNCHANGED <<up, tree, gold, disk, tool, stray>>

\* The first try fails for whatever reason: the branch exists, the start point
\* does not, git refuses, or is killed at its timeout with the branch made,
\* its directory too or not.
TryAgain(i) ==
  /\ At(i, "adding")
  /\ \/ UNCHANGED git
     \/ \E name \in Names(i) :
          /\ Creates(i, name)
          /\ worktrees' \in {worktrees, worktrees \cup {name}}
  /\ SetPc(i, "again")
  /\ UNCHANGED <<up, tree, gold, disk, tool, stray>>

\* Seeded fault: the failure is tried again for ever.
FaultyWorktreeFailed(i) ==
  /\ At(i, "again")
  /\ Save(SetStatus(tree, {execs[i].node}, "pending"))
  /\ UNCHANGED <<up, gold, tool, execs, git, stray>>

\* Both tries failed: nothing ran, the node goes back to pending; of the second
\* try a branch may stay, its directory is removed.
WorktreeFailed(i) ==
  /\ At(i, "again")
  /\ UNCHANGED branches \/ \E name \in Names(i) : Creates(i, name)
  /\ Save(SetStatus(tree, {execs[i].node}, "pending"))
  /\ SetPc(i, "ended")
  /\ UNCHANGED <<up, gold, tool, worktrees, stray>>

\* The agent returned, failed or hit executor_timeout: commit and remove the
\* worktree, keep the branch, then await the report's parse.
CloseWorktree(i) ==
  /\ At(i, "running")
  /\ worktrees' = worktrees \ {execs[i].branch}
  /\ SetPc(i, "parsing")
  /\ UNCHANGED <<up, tree, gold, disk, tool, branches, stray>>

\* What a finished run can have produced: a metric or none, the parser's
\* eval_status, the agent's stop_reason, and the kind of raw report.
Outcome == [score : BOOLEAN,
            eval_status : {"scored", "skipped", "failed_to_run"},
            stop_reason : {"finished", "max_turns", "none"},
            report : {"text", "timed_out", "error"}]

\* _classify_executor_outcome.
Classify(o) ==
  IF \/ o.score
     \/ /\ o.report = "text"
        /\ o.stop_reason # "max_turns"
        /\ o.eval_status = "skipped"
    THEN "done" ELSE "needs_retry"

Record(i, o, code) ==
  LET n == execs[i].node
  IN /\ At(i, "parsing")
     /\ Save([tree EXCEPT ![n] = [status   |-> Classify(o),
                                  attempt  |-> execs[i].attempt,
                                  code_ref |-> code]])
     /\ SetPc(i, "ended")
     /\ UNCHANGED <<up, gold, tool, git, stray>>

\* code_ref is what the report names, or the actual branch.
RecordSome(i) ==
  \E o \in Outcome, code \in ReportedRefs \cup {execs[i].branch} :
    Record(i, o, code)

\* The parse yields JSON that is no object: parsed.get raises outside the try,
\* the tool reports an error and the node keeps its status.
ParseRaised(i) ==
  /\ At(i, "parsing")
  /\ SetPc(i, "ended")
  /\ stray' = IF tree[execs[i].node].status = "running"
                 /\ ~ \E j \in Live \ {i} : execs[j].node = execs[i].node
                THEN stray \cup {execs[i].node} ELSE stray
  /\ UNCHANGED <<up, tree, gold, disk, tool, git>>

ExecutorStep(i) ==
  \/ ClearWorktree(i)
  \/ AddWorktree(i)
  \/ TryAgain(i)
  \/ WorktreeFailed(i)
  \/ CloseWorktree(i)
  \/ RecordSome(i)
  \/ ParseRaised(i)

\* gather is complete, the tool returns its report to the agent.
ToolReturns ==
  /\ up /\ tool.kind = "dispatch"
  /\ Live = {}
  /\ execs' = << >>
  /\ tool' = Idle
  /\ UNCHANGED <<up, tree, gold, disk, git, stray>>

-----------------------------------------------------------------------------
(* The tree tools *)

CanAddUnder(p) ==
  /\ p \in DOMAIN tree
  /\ MaxTreeDepth # NoLimit => Depth(p) + 1 <= MaxTreeDepth
  /\ NextChildId(tree, p) \in NodeIds

AddUnder(p) ==
  /\ Save(AddNode(tree, NextChildId(tree, p)))
  /\ UNCHANGED <<up, gold, execs, git, stray>>

TreeAddNode(p) ==
  /\ Ready
  /\ CanAddUnder(p)
  /\ IF ReviewMode THEN Await("add", <<p>>)
                   ELSE AddUnder(p) /\ UNCHANGED tool

ProposalApproved ==
  /\ up /\ tool.kind = "add"
  /\ AddUnder(tool.tasks[1])
  /\ tool' = Idle

ProposalSkipped ==
  /\ up /\ tool.kind = "add"
  /\ tool' = Idle
  /\ UNCHANGED <<up, tree, gold, disk, execs, git, stray>>

\* Any status on any node: update_node checks field names only.  code_ref is
\* left alone when it is None.
Updated(node, u) ==
  [node EXCEPT !.status = u.status,
               !.code_ref = IF u.code_ref = NoBranch THEN @ ELSE u.code_ref]

TreeUpdateNode(n, u) ==
  /\ Ready
  /\ n \in DOMAIN tree
  /\ Save([tree EXCEPT ![n] = Updated(@, u)])
  /\ stray' = IF u.status = "running" THEN stray \cup {n} ELSE stray \ {n}
  /\ UNCHANGED <<up, gold, tool, execs, git>>

\* Seeded fault: the pruned tree is not saved.
FaultyTreePrune(n) ==
  /\ Ready
  /\ n \in DOMAIN tree
  /\ tree' = PruneNode(tree, n)
  /\ stray' = {m \in stray : ~InSubtree(n, m)}
  /\ UNCHANGED <<up, gold, disk, tool, execs, git>>

TreePrune(n) ==
  /\ Ready
  /\ n \in DOMAIN tree
  /\ Save(PruneNode(tree, n))
  /\ stray' = {m \in stray : ~InSubtree(n, m)}
  /\ UNCHANGED <<up, gold, tool, execs, git>>

\* GitMergeBranch records the medal in tree.meta, where silver and bronze
\* replace gold; nothing saves the tree.
MergeRecordsMedal ==
  /\ Ready
  /\ gold' \in Golds
  /\ UNCHANGED <<up, tree, disk, tool, execs, git, stray>>

-----------------------------------------------------------------------------
(* Crash, cancellation, emergency timeout; then a run with --resume. *)

Crash ==
  /\ up
  /\ up' = FALSE
  /\ execs' = << >>
  /\ tool' = Idle
  /\ UNCHANGED <<tree, gold, disk, git, stray>>

Resume ==
  /\ ~up
  /\ up' = TRUE
  /\ tree' = Requeue(disk.tree)
  /\ gold' = disk.gold
  /\ disk' = [tree |-> Requeue(disk.tree), gold |-> disk.gold]
  /\ stray' = {}
  /\ UNCHANGED <<tool, execs, git>>

TreeSetMeta ==
  /\ Ready
  /\ Save(tree)
  /\ UNCHANGED <<up, gold, tool, execs, git, stray>>

Manual ==
  \/ \E n \in NodeIds : TreeAddNode(n) \/ TreePrune(n)
  \/ \E n \in NodeIds, u \in ManualUpdates : TreeUpdateNode(n, u)
  \/ MergeRecordsMedal
  \/ TreeSetMeta

Review ==
  \/ ProposalApproved \/ ProposalSkipped
  \/ ReviewApproved \/ ReviewSkipped
  \/ TaskApproved \/ TaskSkipped \/ ReviewsDone

StartExecutors ==
  \/ \E n \in NodeIds : RunExecutor(n) \/ ResumeExecutor(n)
  \/ \E tasks \in TaskLists : RunExecutorParallel(tasks)

Next ==
  \/ Manual
  \/ Review
  \/ StartExecutors
  \/ \E i \in DOMAIN execs : ExecutorStep(i)
  \/ ToolReturns
  \/ Crash
  \/ Resume

\* The human answers or the review times out, an executor's agent is cut off
\* by executor_timeout and git and the parser return: a tool call advances.
Fairness ==
  /\ WF_vars(Review)
  /\ WF_vars(\E i \in DOMAIN execs : ExecutorStep(i))
  /\ WF_vars(ToolReturns)

Spec == Init /\ [][Next]_vars
FairSpec == Spec /\ Fairness
-----------------------------------------------------------------------------
(* Properties *)

TypeOK ==
  /\ up \in BOOLEAN
  /\ IsTree(tree)
  /\ gold \in BOOLEAN
  /\ IsTree(disk.tree) /\ disk.gold \in BOOLEAN
  /\ tool \in Tool
  /\ execs \in Seq(Executor)
  /\ branches \subseteq Branch
  /\ worktrees \subseteq branches
  /\ stray \subseteq NodeIds

\* No node is attempted more than 1 + max_retries times by way of
\* ResumeExecutor, across fresh re-runs, failed worktrees, crashes and
\* restarts: the attempt is written only when a run is recorded.
AttemptBounded ==
  /\ \A n \in DOMAIN tree : tree[n].attempt <= MaxRetries + 1
  /\ \A i \in DOMAIN execs : execs[i].attempt <= MaxRetries + 1

\* While executors run, the nodes that consumed a cycle and those that are
\* about to stay within max_cycles: the dispatch tools check the cap before a
\* whole batch, and the nodes of the batch leave and enter the count.
BudgetHeld ==
  Live # {} => Cardinality(Consumed(tree) \cup LiveNodes) <= MaxCycles

\* A node is "running" only while an executor of this process works on it,
\* unless the coordinator said so itself or a run was lost to an exception;
\* in particular nothing is "running" after a restart.
RunningIsOwned ==
  up => WithStatus(tree, "running") \subseteq LiveNodes \cup stray

\* Every executor has a directory and a branch of its own from the moment it
\* starts to work, also when a node is dispatched twice and after a crash left
\* directories and branches behind.
OwnWorktree ==
  \A i \in DOMAIN execs : execs[i].pc = "running" =>
    /\ execs[i].branch \in worktrees
    /\ \A j \in DOMAIN execs \ {i} :
         execs[j].pc \in {"running", "parsing"} =>
           execs[j].branch # execs[i].branch

\* The executor whose work in progress goes to a branch.
AtWork(b) ==
  \E i \in DOMAIN execs : execs[i].pc = "running" /\ execs[i].branch = b

\* A branch an executor got is never deleted, and once it is there no executor
\* is put to work on it: the work of every earlier run is kept, whatever the
\* reports and the coordinator name as a node's code_ref and whatever a crash, a
\* killed git or an abandoned run left behind.
PreservedWork ==
  [][\A b \in branches : b \in branches' /\ (AtWork(b)' => AtWork(b))]_vars

\* After a crash and a resume every node there was at the crash is there again
\* as it was, the running ones set back to pending: nothing any step of a tool
\* or an executor wrote to a node is in memory only when its process goes.
CrashLosesNothing ==
  [][~up /\ up' =>
       \A n \in DOMAIN tree :
         /\ n \in DOMAIN tree'
         /\ tree'[n] = IF tree[n].status = "running"
                         THEN Marked(tree[n], "pending") ELSE tree[n]]_vars

\* A pruned node is revived by an explicit TreeUpdateNode only: a review that
\* pruned a task, or the subtree a later task lies in, keeps it from running
\* although it was admissible when the call began.
PrunedStaysPruned ==
  [][\A n \in DOMAIN tree \cap DOMAIN tree' :
       tree[n].status = "pruned" =>
         \/ tree'[n].status = "pruned"
         \/ \E u \in ManualUpdates : TreeUpdateNode(n, u)]_vars

\* The recorded result of an idea (done or merged) is changed by a tree tool
\* the coordinator calls, or by a human who skips the idea, never by an
\* executor or a restart.
ResultsAreFinal ==
  [][\A n \in DOMAIN tree \ {Root} :
       tree[n].status \in {"done", "merged"} =>
         Manual \/ ReviewSkipped \/ TaskSkipped \/ tree'[n] = tree[n]]_vars

\* The inductive strengthening the proofs use: the tree on disk is the tree in
\* memory, no executor outlives its tool call, a running executor's node
\* exists, and a proposal under review keeps the place it was checked for.
Coherent ==
  /\ disk.tree = tree
  /\ IsFiniteSet(DOMAIN tree)
  /\ IsFiniteSet(branches)
  /\ ~up => tool = Idle
  /\ tool.kind # "dispatch" => execs = << >>
  /\ LiveNodes \subseteq DOMAIN tree
  /\ tool.kind = "add" => tool.tasks # << >> /\ CanAddUnder(tool.tasks[1])
  /\ tool.kind = "review" => tool.tasks # << >>

\* Every tool call that waits for a human or for executors returns.
ToolCallReturns == (tool.kind # "idle") ~> (tool.kind = "idle")
=============================================================================
