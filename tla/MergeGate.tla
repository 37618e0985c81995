----------------------------- MODULE MergeGate -----------------------------
(***************************************************************************)
(* GitMergeBranch (src/src/coordinator/tools/git_ops.py): the branch of an *)
(* experiment is evaluated in a worktree of its own, its score is compared *)
(* with that of the trunk, and git merges it in the working directory of   *)
(* the project.  The runs of a project share that directory and with it    *)
(* the one HEAD; each has a tree of its own, whose metadata say what the   *)
(* trunk scores and whether the evaluation won a gold medal.               *)
(*                                                                         *)
(* A git command either succeeds, or fails and changes nothing, or is      *)
(* killed by its timeout, before or after it did its work.                 *)
(***************************************************************************)
EXTENDS Integers, FiniteSets

CONSTANTS
  Runs,         \* coordinators with a conversation of their own
  Branches,     \* branches with an experiment
  Targets,      \* branches that may be merged into
  Main,         \* main, or master: a protected branch
  None,         \* Python's None
  Trunk,        \* config.trunk_branch, or None
  RequireBase,  \* config.require_base_branch
  Scores,       \* bound: the scores that occur
  Retries       \* eval_retries

ASSUME MergeAssumption ==
  /\ Trunk \in Targets \cup {None}
  /\ Main \notin Targets /\ None \notin Targets \cup {Main}
  /\ Scores \subseteq Int /\ None \notin Int
  /\ Retries \in Nat

VARIABLES
  head,      \* the branch checked out in the working directory
  unmerged,  \* a merge with conflicts is in progress there
  merged,    \* what each branch took in
  dirs,      \* branches whose directory for evaluation exists
  entries,   \* branches whose directory git has an entry for
  pc,        \* where each run stands
  job,       \* locals of its call
  meta,      \* tree.meta in memory
  saved      \* tree.meta in idea_tree.json

vars == <<head, unmerged, merged, dirs, entries, pc, job, meta, saved>>
repo == <<head, unmerged, merged>>
evals == <<dirs, entries>>

Heads == Targets \cup {Main}
Score == Scores \cup {None}

Meta == [trunk : Score, base : Score, evaluated : BOOLEAN, minimize : BOOLEAN,
         gold : BOOLEAN]

DefaultMeta == [trunk |-> None, base |-> None, evaluated |-> FALSE,
                minimize |-> FALSE, gold |-> FALSE]

\* src, tgt, current: as in the code; score: the score in hand, measured when
\* the evaluation and not the model found it; home and trouble: history, HEAD
\* at the call and whether a git command failed in the middle of it.
Job == [src : Branches \cup {None}, tgt : Targets \cup {None}, score : Score,
        measured : BOOLEAN, gold : BOOLEAN, attempt : 0 .. Retries + 1,
        current : Heads \cup {None}, home : Heads, trouble : BOOLEAN]

NoJob(h, t) ==
  [src |-> None, tgt |-> None, score |-> None, measured |-> FALSE,
   gold |-> FALSE, attempt |-> 0, current |-> None, home |-> h, trouble |-> t]

Evaluating == {"prepare", "evaluate", "clean"}
PastGate == {"guarded", "checkout", "merge", "abort", "back", "finish"}
Busy == Evaluating \cup PastGate

\* What a merge brings: the branch, and whether its evaluation found gold.
Merge == [src : Branches, gold : BOOLEAN]
MergeOf(j) == [src |-> j.src, gold |-> j.gold]

Init ==
  /\ head = Main
  /\ unmerged = FALSE
  /\ merged = [b \in Heads |-> {}]
  /\ dirs = {} /\ entries = {}
  /\ pc = [r \in Runs |-> "down"]
  /\ job = [r \in Runs |-> NoJob(Main, FALSE)]
  /\ meta = [r \in Runs |-> DefaultMeta]
  /\ saved = [r \in Runs |-> DefaultMeta]

At(r, s) == pc[r] = s
Goto(r, s) == pc' = [pc EXCEPT ![r] = s]

\* The tool answers; t: git failed on the way.
Return(r, t) ==
  /\ Goto(r, "idle")
  /\ job' = [job EXCEPT ![r] = NoJob(job[r].home, t \/ job[r].trouble)]

-----------------------------------------------------------------------------
(* The score of the trunk *)

Improves(m, new, old) == IF m.minimize THEN new < old ELSE new > old

\* The "or" takes a score of 0.0 for none.
TrunkScore(m) == IF m.trunk \in {None, 0} THEN m.base ELSE m.trunk

Passes(m, s) == TrunkScore(m) = None \/ Improves(m, s, TrunkScore(m))

\* The score is known: compare, and go on or refuse.
Judge(r, j) ==
  IF Passes(meta[r], j.score)
  THEN /\ Goto(r, "guarded")
       /\ job' = [job EXCEPT ![r] = j]
  ELSE /\ Goto(r, "idle")
       /\ job' = [job EXCEPT ![r] = NoJob(j.home, j.trouble)]

-----------------------------------------------------------------------------
(* A run and the other tools it calls *)

\* The preflight wants a clean repository, on the base branch; then the trunk
\* is checked out, if one is configured and git can.
Start(r) ==
  /\ At(r, "down") /\ ~unmerged
  /\ RequireBase => head = Main
  /\ head' \in {head} \cup (IF Trunk = None THEN {} ELSE {Trunk})
  /\ Goto(r, "idle")
  /\ job' = [job EXCEPT ![r] = NoJob(head', FALSE)]
  /\ UNCHANGED <<unmerged, merged, evals, meta, saved>>

\* TreeSetMeta: what is given replaces what was there, nothing is unset; the
\* evaluation command may be set to the empty string.
TreeSetMeta(r) ==
  /\ At(r, "idle")
  /\ \E t, b \in Scores, e, d \in BOOLEAN :
       \E trunk \in {t, meta[r].trunk}, base \in {b, meta[r].base} :
         meta' = [meta EXCEPT ![r] =
           [@ EXCEPT !.trunk = trunk, !.base = base, !.evaluated = e,
                     !.minimize = d]]
  /\ saved' = [saved EXCEPT ![r] = meta'[r]]
  /\ UNCHANGED <<repo, evals, pc, job>>

\* Any other tool that changes the tree saves it, the metadata included.
SaveTree(r) ==
  /\ At(r, "idle")
  /\ saved' = [saved EXCEPT ![r] = meta[r]]
  /\ UNCHANGED <<repo, evals, pc, job, meta>>

-----------------------------------------------------------------------------
(* GitMergeBranch, up to the gate *)

\* The target named, else the configured one; the protected ones are refused.
TargetOf(given) == IF given = None THEN Trunk ELSE given
Admissible(given) == TargetOf(given) \notin {Main, None}

\* Seeded fault: a score of the model's own saves the evaluation.
FaultyMustEvaluate(r, claimed) == meta[r].evaluated /\ claimed = None

\* The model's own score counts where there is no evaluation command.
MustEvaluate(r, claimed) == meta[r].evaluated

CallMerge(r) ==
  /\ At(r, "idle")
  /\ \E src \in Branches, given \in Heads \cup {None}, claimed \in Score :
       LET j == [NoJob(head, unmerged) EXCEPT
                   !.src = src, !.tgt = TargetOf(given), !.score = claimed]
       IN /\ Admissible(given)
          /\ \/ /\ MustEvaluate(r, claimed)
                /\ Goto(r, "prepare")
                /\ job' = [job EXCEPT ![r] = j]
             \/ /\ ~MustEvaluate(r, claimed) /\ claimed # None
                /\ Judge(r, j)
  /\ UNCHANGED <<repo, evals, meta, saved>>

\* A directory left at the branch's place is removed, by git or, with git's
\* entry staying behind, as a directory; git adds none where it has an entry.
Prepare(r) ==
  /\ At(r, "prepare")
  /\ \E removed \in BOOLEAN :
       LET b == job[r].src
           left == IF b \in dirs /\ removed THEN entries \ {b} ELSE entries
       IN \/ /\ b \notin left
             /\ dirs' = dirs \cup {b}
             /\ entries' = left \cup {b}
             /\ Goto(r, "evaluate")
             /\ job' = [job EXCEPT ![r].attempt = 1]
          \/ /\ dirs' = dirs \ {b}
             /\ entries' = left
             /\ Return(r, FALSE)
  /\ UNCHANGED <<repo, meta, saved>>

\* A timeout or a transient failure is tried again.
Evaluate(r) ==
  /\ At(r, "evaluate")
  /\ \/ /\ job[r].attempt <= Retries
        /\ job' = [job EXCEPT ![r].attempt = @ + 1]
        /\ UNCHANGED pc
     \/ /\ Goto(r, "clean")
        /\ UNCHANGED job
     \/ /\ Goto(r, "clean")
        /\ \E s \in Scores, g \in BOOLEAN :
             job' = [job EXCEPT ![r] =
               [@ EXCEPT !.score = s, !.gold = g, !.measured = TRUE]]
  /\ UNCHANGED <<repo, evals, meta, saved>>

\* The finally clause, and what the score decides.
Clean(r) ==
  /\ At(r, "clean")
  /\ dirs' = dirs \ {job[r].src}
  /\ entries' \in {entries} \cup (IF job[r].src \in dirs
                                  THEN {entries \ {job[r].src}} ELSE {})
  /\ IF job[r].measured THEN Judge(r, job[r]) ELSE Return(r, FALSE)
  /\ UNCHANGED <<repo, meta, saved>>

-----------------------------------------------------------------------------
(* The git steps *)

\* A guard of the plugin refuses.
Refuse(r) ==
  /\ At(r, "guarded")
  /\ Return(r, FALSE)
  /\ UNCHANGED <<repo, evals, meta, saved>>

\* The guards pass; git is asked for the branch to return to.
ReadCurrent(r) ==
  /\ At(r, "guarded")
  /\ Goto(r, "checkout")
  /\ \/ job' = [job EXCEPT ![r].current = head]
     \/ job' = [job EXCEPT ![r].trouble = TRUE]
  /\ UNCHANGED <<repo, evals, meta, saved>>

\* Seeded fault: the merge follows whatever became of the checkout.
FaultyCheckout(r) ==
  /\ At(r, "checkout")
  /\ head' \in {head, job[r].tgt}
  /\ unmerged => head' = head
  /\ Goto(r, "merge")
  /\ UNCHANGED <<unmerged, merged, evals, job, meta, saved>>

\* Verifies the source and checks the target out.
Checkout(r) ==
  /\ At(r, "checkout")
  /\ \/ /\ ~unmerged
        /\ head' = job[r].tgt
        /\ Goto(r, "merge") /\ UNCHANGED job
     \/ /\ head' = head
        /\ Return(r, FALSE)
     \/ /\ ~unmerged
        /\ head' = job[r].tgt
        /\ Return(r, TRUE)
  /\ UNCHANGED <<unmerged, merged, evals, meta, saved>>

\* What git merge does to the repository.
Lands(r) == /\ ~unmerged
            /\ merged' = [merged EXCEPT ![head] = @ \cup {MergeOf(job[r])}]
            /\ UNCHANGED <<head, unmerged>>
Conflicts == ~unmerged /\ unmerged' = TRUE /\ UNCHANGED <<head, merged>>

\* Seeded fault: the medal is noted before git has merged.
FaultyGitMerge(r) ==
  /\ At(r, "merge")
  /\ \/ Lands(r) /\ Goto(r, "finish") /\ UNCHANGED job
     \/ Conflicts /\ Goto(r, "abort") /\ UNCHANGED job
  /\ meta' = [meta EXCEPT ![r].gold = @ \/ job[r].gold]
  /\ UNCHANGED <<evals, saved>>

\* Seeded fault: a conflict is not told from a merge.
FaultyGitMergeRc(r) ==
  /\ At(r, "merge")
  /\ Lands(r) \/ Conflicts \/ UNCHANGED repo
  /\ Goto(r, "finish")
  /\ UNCHANGED <<evals, job, meta, saved>>

GitMerge(r) ==
  /\ At(r, "merge")
  /\ \/ Lands(r) /\ Goto(r, "finish") /\ UNCHANGED job
     \/ Conflicts /\ Goto(r, "abort") /\ UNCHANGED job
     \/ UNCHANGED <<repo, job>> /\ Goto(r, "abort")
     \/ /\ Lands(r)
        /\ Goto(r, "abort")
        /\ job' = [job EXCEPT ![r].trouble = TRUE]
  /\ UNCHANGED <<evals, meta, saved>>

\* Seeded fault: the conflict is reported and left there.
FaultyAbort(r) ==
  /\ At(r, "abort")
  /\ Return(r, FALSE)
  /\ UNCHANGED <<repo, evals, meta, saved>>

Abort(r) ==
  /\ At(r, "abort")
  /\ Goto(r, "back")
  /\ \/ unmerged' = FALSE /\ UNCHANGED job
     \/ /\ unmerged /\ UNCHANGED unmerged
        /\ job' = [job EXCEPT ![r].trouble = TRUE]
  /\ UNCHANGED <<head, merged, evals, meta, saved>>

\* HEAD goes back to where it was, if git can.
Back(r) ==
  /\ At(r, "back")
  /\ \/ /\ ~unmerged /\ job[r].current # None
        /\ head' = job[r].current
        /\ Return(r, FALSE)
     \/ head' = head /\ Return(r, TRUE)
  /\ UNCHANGED <<unmerged, merged, evals, meta, saved>>

\* A silver or bronze medal replaces a gold one, no medal leaves it.
MedalsAfter(m, j) ==
  IF j.gold THEN {TRUE} ELSE {m.gold} \cup (IF j.measured THEN {FALSE} ELSE {})

\* The medal is set in memory; the model is told to record the score.
Finish(r) ==
  /\ At(r, "finish")
  /\ \/ /\ job[r].current = job[r].tgt
        /\ head' = head
        /\ Return(r, FALSE)
     \/ /\ ~unmerged /\ job[r].current \notin {None, job[r].tgt}
        /\ head' = job[r].current
        /\ Return(r, FALSE)
     \/ /\ job[r].current # job[r].tgt
        /\ head' = head
        /\ Return(r, TRUE)
  /\ \E g \in MedalsAfter(meta[r], job[r]) :
       meta' = [meta EXCEPT ![r].gold = g]
  /\ UNCHANGED <<unmerged, merged, evals, saved>>

-----------------------------------------------------------------------------
(* The end of a run, and the world between runs *)

\* The run ends, or is cancelled at an await: only the evaluation's directory
\* has a finally, and git may still be making it.  The tree in memory is lost;
\* the next start loads the saved one.
Stop(r) ==
  /\ ~At(r, "down")
  /\ Goto(r, "down")
  /\ IF pc[r] \in Evaluating
     THEN dirs' \in {dirs, dirs \ {job[r].src}}
     ELSE UNCHANGED dirs
  /\ entries' \in {entries} \cup (IF dirs' # dirs
                                  THEN {entries \ {job[r].src}} ELSE {})
  /\ job' = [job EXCEPT ![r] = NoJob(job[r].home, FALSE)]
  /\ meta' = [meta EXCEPT ![r] = saved[r]]
  /\ UNCHANGED <<repo, saved>>

\* With no run in the project, the human puts the repository in order, and
\* the temporary directory is emptied.
AllDown == \A r \in Runs : At(r, "down")

Tidy ==
  /\ AllDown
  /\ head' = Main /\ unmerged' = FALSE
  /\ UNCHANGED <<merged, evals, pc, job, meta, saved>>

WipeTmp ==
  /\ AllDown
  /\ dirs' = {}
  /\ UNCHANGED <<repo, entries, pc, job, meta, saved>>

Step(r) ==
  \/ Prepare(r) \/ Evaluate(r) \/ Clean(r)
  \/ Refuse(r) \/ ReadCurrent(r) \/ Checkout(r) \/ GitMerge(r)
  \/ Abort(r) \/ Back(r) \/ Finish(r)

Next ==
  \/ \E r \in Runs : \/ Start(r) \/ TreeSetMeta(r) \/ SaveTree(r)
                     \/ CallMerge(r) \/ Step(r) \/ Stop(r)
  \/ Tidy \/ WipeTmp

Spec == Init /\ [][Next]_vars

-----------------------------------------------------------------------------
\* The types of the state.
TypeOK ==
  /\ head \in Heads /\ unmerged \in BOOLEAN
  /\ merged \in [Heads -> SUBSET Merge]
  /\ dirs \subseteq Branches /\ entries \subseteq Branches
  /\ pc \in [Runs -> {"down", "idle"} \cup Busy]
  /\ job \in [Runs -> Job]
  /\ meta \in [Runs -> Meta] /\ saved \in [Runs -> Meta]

\* Nothing is ever merged into main, whatever git does with a command, as the
\* docstring of GitMergeBranchTool promises.
MainIsClean == merged[Main] = {}

\* Who reports a merge has merged, into the target it names (the git steps of
\* GitMergeBranch, each of which can fail).
SuccessIsTrue ==
  \A r \in Runs : At(r, "finish") => MergeOf(job[r]) \in merged[job[r].tgt]

\* A call that returns, merged or refused, leaves HEAD where it was and no
\* merge in progress, unless git itself failed half way (the restoring
\* checkouts of GitMergeBranch).
LeavesNoTrace ==
  \A r \in Runs : At(r, "idle") /\ ~job[r].trouble
                    => head = job[r].home /\ ~unmerged

\* The gold medal that stops all further experiments belongs to something that
\* was merged and that the evaluation found to be gold.
MedalIsBacked ==
  \A r \in Runs : meta[r].gold =>
    \E b \in Heads : \E m \in merged[b] : m.gold

\* With an evaluation command, only what the evaluation measured in this very
\* call is merged, and only when it beats the score the tree records for the
\* trunk (a recorded 0 counts as none): the model cannot talk its way past.
GateHolds ==
  \A r \in Runs : pc[r] \in PastGate =>
    /\ meta[r].evaluated => job[r].measured
    /\ meta[r].trunk \notin {None, 0} =>
         IF meta[r].minimize THEN job[r].score < meta[r].trunk
                             ELSE job[r].score > meta[r].trunk
=============================================================================
