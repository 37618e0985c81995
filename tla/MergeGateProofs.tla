-------------------------- MODULE MergeGateProofs --------------------------
(***************************************************************************)
(* What MergeGate promises for any scores, branches and retries: the gate  *)
(* and the medal for any number of runs in a project, a clean main branch  *)
(* for one run at a time.                                                  *)
(***************************************************************************)
EXTENDS MergeGate, TLAPS

\* A call under way has a branch to merge and a target to merge it into.
Calls == \A r \in Runs : pc[r] \in Busy => job[r].src \in Branches
                                         /\ job[r].tgt \in Targets

Typed == TypeOK /\ Calls

LEMMA NoJobType == ASSUME NEW h \in Heads, NEW t \in BOOLEAN
                   PROVE NoJob(h, t) \in Job
  BY MergeAssumption DEF MergeAssumption, NoJob, Job, Score

\* A call names a target that is no protected branch.
LEMMA TargetType == ASSUME NEW given \in Heads \cup {None}, Admissible(given)
                    PROVE TargetOf(given) \in Targets
  BY MergeAssumption DEF MergeAssumption, Admissible, TargetOf, Heads

LEMMA ReturnType ==
  ASSUME Typed, NEW r \in Runs, NEW t \in BOOLEAN, Return(r, t)
  PROVE  /\ pc' \in [Runs -> {"down", "idle"} \cup Busy]
         /\ job' \in [Runs -> Job]
         /\ Calls'
  <1>1. job[r].home \in Heads /\ (t \/ job[r].trouble) \in BOOLEAN
    BY DEF Typed, TypeOK, Job
  <1>2. NoJob(job[r].home, t \/ job[r].trouble) \in Job
    BY <1>1, NoJobType
  <1> QED
    BY <1>2 DEF Return, Goto, Typed, TypeOK, Calls, Busy, Evaluating, PastGate

LEMMA JudgeType ==
  ASSUME Typed, NEW r \in Runs, NEW j \in Job, Judge(r, j),
         j.src \in Branches, j.tgt \in Targets
  PROVE  /\ pc' \in [Runs -> {"down", "idle"} \cup Busy]
         /\ job' \in [Runs -> Job]
         /\ Calls'
  <1>1. j.home \in Heads /\ j.trouble \in BOOLEAN
    BY DEF Job
  <1>2. NoJob(j.home, j.trouble) \in Job
    BY <1>1, NoJobType
  <1> QED
    BY <1>2
    DEF Judge, Goto, Typed, TypeOK, Calls, Busy, Evaluating, PastGate

\* One step on to s of a run that keeps its branch and its target.
LEMMA OnType ==
  ASSUME Typed, NEW r \in Runs, NEW s \in Busy, NEW j \in Job, pc[r] \in Busy,
         pc' = [pc EXCEPT ![r] = s], job' = [job EXCEPT ![r] = j],
         j.src = job[r].src, j.tgt = job[r].tgt
  PROVE  /\ pc' \in [Runs -> {"down", "idle"} \cup Busy]
         /\ job' \in [Runs -> Job]
         /\ Calls'
  BY DEF Typed, TypeOK, Calls

LEMMA InitType == Init => Typed
  <1> SUFFICES ASSUME Init PROVE Typed
    OBVIOUS
  <1>1. NoJob(Main, FALSE) \in Job
    BY NoJobType DEF Heads
  <1>2. DefaultMeta \in Meta
    BY DEF DefaultMeta, Meta, Score
  <1> QED
    BY <1>1, <1>2 DEF Init, Typed, TypeOK, Heads, Calls, Busy, Evaluating, PastGate

\* The steps before git is called.
LEMMA CallType ==
  ASSUME Typed, NEW r \in Runs,
         Start(r) \/ TreeSetMeta(r) \/ SaveTree(r) \/ CallMerge(r) \/ Stop(r)
  PROVE  Typed'
  <1> USE DEF Typed
  <1>1. CASE Start(r)
    <2>1. head' \in Heads
      BY <1>1, MergeAssumption DEF Start, TypeOK, Heads, MergeAssumption
    <2>2. NoJob(head', FALSE) \in Job
      BY <2>1, NoJobType
    <2> QED
      BY <1>1, <2>1, <2>2 DEF Start, TypeOK, Goto, evals, Calls, Busy, Evaluating, PastGate
  <1>2. CASE TreeSetMeta(r)
    <2>1. PICK t \in Scores, b \in Scores, e \in BOOLEAN, d \in BOOLEAN :
            \E trunk \in {t, meta[r].trunk}, base \in {b, meta[r].base} :
              meta' = [meta EXCEPT ![r] =
                [@ EXCEPT !.trunk = trunk, !.base = base, !.evaluated = e,
                          !.minimize = d]]
      BY <1>2 DEF TreeSetMeta
    <2>2. meta[r] \in Meta
      BY DEF TypeOK
    <2>3. PICK trunk \in {t, meta[r].trunk}, base \in {b, meta[r].base} :
            meta' = [meta EXCEPT ![r] =
              [meta[r] EXCEPT !.trunk = trunk, !.base = base, !.evaluated = e,
                              !.minimize = d]]
      BY <2>1 DEF TypeOK
    <2>4. trunk \in Score /\ base \in Score
      BY <2>2, <2>3 DEF Meta, Score
    <2>5. [meta[r] EXCEPT !.trunk = trunk, !.base = base, !.evaluated = e,
                          !.minimize = d] \in Meta
      BY <2>2, <2>4 DEF Meta
    <2>6. meta' \in [Runs -> Meta]
      BY <2>3, <2>5 DEF TypeOK
    <2> QED
      BY <1>2, <2>6 DEF TreeSetMeta, TypeOK, repo, evals, Calls
  <1>3. CASE SaveTree(r)
    BY <1>3 DEF SaveTree, TypeOK, repo, evals, Calls
  <1>4. CASE CallMerge(r)
    <2>1. PICK src \in Branches, given \in Heads \cup {None}, claimed \in Score :
            LET j == [NoJob(head, unmerged) EXCEPT
                        !.src = src, !.tgt = TargetOf(given), !.score = claimed]
            IN /\ Admissible(given)
               /\ \/ Goto(r, "prepare") /\ job' = [job EXCEPT ![r] = j]
                  \/ Judge(r, j)
      BY <1>4 DEF CallMerge
    <2> DEFINE j == [NoJob(head, unmerged) EXCEPT
                       !.src = src, !.tgt = TargetOf(given), !.score = claimed]
    <2>2. TargetOf(given) \in Targets
      BY <2>1, TargetType
    <2>3. NoJob(head, unmerged) \in Job
      BY NoJobType DEF TypeOK
    <2>4. j \in Job
      BY <2>2, <2>3 DEF Job
    <2>5. /\ pc' \in [Runs -> {"down", "idle"} \cup Busy]
          /\ job' \in [Runs -> Job]
          /\ Calls'
      <3>0. j.src \in Branches /\ j.tgt \in Targets
        BY <2>2, <2>3 DEF Job
      <3>1. CASE Judge(r, j)
        BY <2>4, <3>0, <3>1, JudgeType
      <3>2. CASE Goto(r, "prepare") /\ job' = [job EXCEPT ![r] = j]
        BY <2>4, <3>0, <3>2 DEF Goto, TypeOK, Busy, Evaluating, Calls
      <3> QED
        BY <2>1, <3>1, <3>2
    <2> QED
      BY <1>4, <2>5 DEF CallMerge, TypeOK, repo, evals
  <1>5. CASE Stop(r)
    <2>1. dirs' \subseteq Branches /\ entries' \subseteq Branches
      BY <1>5 DEF Stop, TypeOK
    <2>2. NoJob(job[r].home, FALSE) \in Job
      BY NoJobType DEF TypeOK, Job
    <2> QED
      BY <1>5, <2>1, <2>2
      DEF Stop, TypeOK, Goto, repo, Calls, Busy, Evaluating, PastGate
  <1> QED
    BY <1>1, <1>2, <1>3, <1>4, <1>5

\* The evaluation.
LEMMA EvaluationType ==
  ASSUME Typed, NEW r \in Runs, Prepare(r) \/ Evaluate(r) \/ Clean(r)
  PROVE  Typed'
  <1> USE DEF Typed
  <1>0. /\ job[r] \in Job
        /\ pc[r] \in Busy /\ job[r].src \in Branches /\ job[r].tgt \in Targets
    BY DEF TypeOK, Calls, Prepare, Evaluate, Clean, At, Busy, Evaluating
  <1>1. CASE Prepare(r)
    <2>1. dirs' \subseteq Branches /\ entries' \subseteq Branches
      BY <1>0, <1>1 DEF Prepare, TypeOK
    <2>2. CASE Goto(r, "evaluate") /\ job' = [job EXCEPT ![r].attempt = 1]
      <3>1. [job[r] EXCEPT !.attempt = 1] \in Job
        BY <1>0, MergeAssumption DEF Job, MergeAssumption
      <3>2. job' = [job EXCEPT ![r] = [job[r] EXCEPT !.attempt = 1]]
        BY <2>2
      <3>3. "evaluate" \in Busy
        BY DEF Busy, Evaluating
      <3>4. /\ pc' \in [Runs -> {"down", "idle"} \cup Busy]
            /\ job' \in [Runs -> Job]
            /\ Calls'
        BY <1>0, <2>2, <3>1, <3>2, <3>3, OnType DEF Goto, Job
      <3> QED
        BY <1>1, <2>1, <3>4 DEF Prepare, TypeOK, repo
    <2>3. CASE Return(r, FALSE)
      BY <1>1, <2>1, <2>3, ReturnType DEF Prepare, TypeOK, repo
    <2> QED
      BY <1>1, <2>2, <2>3 DEF Prepare
  <1>2. CASE Evaluate(r)
    <2>1. PICK j \in Job : /\ job' = [job EXCEPT ![r] = j]
                           /\ j.src = job[r].src /\ j.tgt = job[r].tgt
      <3>1. CASE /\ job[r].attempt <= Retries
                 /\ job' = [job EXCEPT ![r].attempt = @ + 1]
        <4>1. job[r].attempt \in 0 .. Retries + 1
          BY <1>0 DEF Job
        <4>2. job[r].attempt + 1 \in 0 .. Retries + 1
          BY <3>1, <4>1, MergeAssumption DEF MergeAssumption
        <4> DEFINE j == [job[r] EXCEPT !.attempt = job[r].attempt + 1]
        <4>3. j \in Job /\ j.src = job[r].src /\ j.tgt = job[r].tgt
          BY <1>0, <4>2 DEF Job
        <4>4. job' = [job EXCEPT ![r] = j]
          BY <3>1 DEF TypeOK
        <4> QED
          BY <4>3, <4>4
      <3>2. CASE UNCHANGED job
        BY <1>0, <3>2 DEF TypeOK
      <3>3. CASE \E s \in Scores, g \in BOOLEAN :
                   job' = [job EXCEPT ![r] =
                     [@ EXCEPT !.score = s, !.gold = g, !.measured = TRUE]]
        <4>1. PICK s \in Scores, g \in BOOLEAN :
                job' = [job EXCEPT ![r] =
                  [@ EXCEPT !.score = s, !.gold = g, !.measured = TRUE]]
          BY <3>3
        <4> DEFINE j == [job[r] EXCEPT !.score = s, !.gold = g, !.measured = TRUE]
        <4>2. j \in Job /\ j.src = job[r].src /\ j.tgt = job[r].tgt
          BY <1>0 DEF Job, Score
        <4>3. job' = [job EXCEPT ![r] = j]
          BY <4>1 DEF TypeOK
        <4> QED
          BY <4>2, <4>3
      <3> QED
        BY <1>2, <3>1, <3>2, <3>3 DEF Evaluate
    <2>2. PICK s \in Busy : pc' = [pc EXCEPT ![r] = s]
      BY <1>0, <1>2 DEF Evaluate, Goto, TypeOK, Busy, Evaluating
    <2>3. /\ pc' \in [Runs -> {"down", "idle"} \cup Busy]
          /\ job' \in [Runs -> Job]
          /\ Calls'
      BY <1>0, <2>1, <2>2, OnType
    <2> QED
      BY <1>2, <2>3 DEF Evaluate, TypeOK, repo, evals
  <1>3. CASE Clean(r)
    <2>1. dirs' \subseteq Branches /\ entries' \subseteq Branches
      BY <1>3 DEF Clean, TypeOK
    <2>2. /\ pc' \in [Runs -> {"down", "idle"} \cup Busy]
          /\ job' \in [Runs -> Job]
          /\ Calls'
      BY <1>0, <1>3, JudgeType, ReturnType DEF Clean
    <2> QED
      BY <1>3, <2>1, <2>2 DEF Clean, TypeOK, repo
  <1> QED
    BY <1>1, <1>2, <1>3

\* The git steps.
LEMMA GitType ==
  ASSUME Typed, NEW r \in Runs,
         \/ Refuse(r) \/ ReadCurrent(r) \/ Checkout(r) \/ GitMerge(r)
         \/ Abort(r) \/ Back(r) \/ Finish(r)
  PROVE  Typed'
  <1> USE DEF Typed
  <1>0. /\ job[r] \in Job
        /\ pc[r] \in Busy /\ job[r].src \in Branches /\ job[r].tgt \in Targets
    BY DEF TypeOK, Calls, Refuse, ReadCurrent, Checkout, GitMerge, Abort, Back,
           Finish, At, Busy, PastGate
  <1>1. ASSUME NEW s \in Busy, Goto(r, s),
               \/ UNCHANGED job
               \/ job' = [job EXCEPT ![r].trouble = TRUE]
               \/ job' = [job EXCEPT ![r].current = head]
        PROVE  /\ pc' \in [Runs -> {"down", "idle"} \cup Busy]
               /\ job' \in [Runs -> Job]
               /\ Calls'
    <2>1. PICK j \in Job : /\ job' = [job EXCEPT ![r] = j]
                           /\ j.src = job[r].src /\ j.tgt = job[r].tgt
      <3>1. CASE UNCHANGED job
        BY <1>0, <3>1 DEF TypeOK
      <3>2. CASE job' = [job EXCEPT ![r].trouble = TRUE]
        <4>1. [job[r] EXCEPT !.trouble = TRUE] \in Job
          BY <1>0 DEF Job
        <4> QED
          BY <1>0, <3>2, <4>1 DEF TypeOK, Job
      <3>3. CASE job' = [job EXCEPT ![r].current = head]
        <4>1. [job[r] EXCEPT !.current = head] \in Job
          BY <1>0 DEF Job, TypeOK
        <4> QED
          BY <1>0, <3>3, <4>1 DEF TypeOK, Job
      <3> QED
        BY <1>1, <3>1, <3>2, <3>3
    <2> QED
      BY <1>0, <1>1, <2>1, OnType DEF Goto
  <1>2. {"guarded", "checkout", "merge", "abort", "back", "finish"} \subseteq Busy
    BY DEF Busy, PastGate
  <1>3. Targets \subseteq Heads /\ job[r].current \in Heads \cup {None}
    BY <1>0 DEF Heads, Job
  <1>4. CASE Refuse(r)
    BY <1>4, ReturnType DEF Refuse, TypeOK, repo, evals
  <1>5. CASE ReadCurrent(r)
    BY <1>1, <1>2, <1>5 DEF ReadCurrent, TypeOK, repo, evals
  <1>6. CASE Checkout(r)
    <2>1. head' \in Heads
      BY <1>0, <1>3, <1>6 DEF Checkout, TypeOK
    <2>2. /\ pc' \in [Runs -> {"down", "idle"} \cup Busy]
          /\ job' \in [Runs -> Job]
          /\ Calls'
      BY <1>1, <1>2, <1>6, ReturnType DEF Checkout
    <2> QED
      BY <1>6, <2>1, <2>2 DEF Checkout, TypeOK, evals
  <1>7. CASE GitMerge(r)
    <2>1. MergeOf(job[r]) \in Merge
      BY <1>0 DEF MergeOf, Merge, Job
    <2>2. /\ head' \in Heads /\ unmerged' \in BOOLEAN
          /\ merged' \in [Heads -> SUBSET Merge]
      BY <1>7, <2>1 DEF GitMerge, Lands, Conflicts, TypeOK, repo
    <2>3. /\ pc' \in [Runs -> {"down", "idle"} \cup Busy]
          /\ job' \in [Runs -> Job]
          /\ Calls'
      BY <1>1, <1>2, <1>7 DEF GitMerge
    <2> QED
      BY <1>7, <2>2, <2>3 DEF GitMerge, TypeOK, evals
  <1>8. CASE Abort(r)
    <2>1. /\ pc' \in [Runs -> {"down", "idle"} \cup Busy]
          /\ job' \in [Runs -> Job]
          /\ Calls'
      BY <1>1, <1>2, <1>8 DEF Abort
    <2> QED
      BY <1>8, <2>1 DEF Abort, TypeOK, evals
  <1>9. CASE Back(r)
    <2>1. /\ pc' \in [Runs -> {"down", "idle"} \cup Busy]
          /\ job' \in [Runs -> Job]
          /\ Calls'
      BY <1>9, ReturnType DEF Back
    <2> QED
      BY <1>3, <1>9, <2>1 DEF Back, TypeOK, evals
  <1>10. CASE Finish(r)
    <2>1. /\ pc' \in [Runs -> {"down", "idle"} \cup Busy]
          /\ job' \in [Runs -> Job]
          /\ Calls'
      BY <1>10, ReturnType DEF Finish
    <2>2. head' \in Heads
      BY <1>3, <1>10 DEF Finish, TypeOK
    <2>3. PICK g \in BOOLEAN : meta' = [meta EXCEPT ![r].gold = g]
      <3>1. meta[r].gold \in BOOLEAN
        BY DEF TypeOK, Meta
      <3> QED
        BY <1>10, <3>1 DEF Finish, MedalsAfter
    <2>4. [meta[r] EXCEPT !.gold = g] \in Meta
      BY DEF TypeOK, Meta
    <2>5. meta' = [meta EXCEPT ![r] = [meta[r] EXCEPT !.gold = g]]
      BY <2>3 DEF TypeOK
    <2>6. meta' \in [Runs -> Meta]
      BY <2>4, <2>5 DEF TypeOK
    <2> QED
      BY <1>10, <2>1, <2>2, <2>6 DEF Finish, TypeOK, evals
  <1> QED
    BY <1>4, <1>5, <1>6, <1>7, <1>8, <1>9, <1>10

LEMMA WorldType == Typed /\ (Tidy \/ WipeTmp) => Typed'
  BY DEF Typed, TypeOK, Calls, Tidy, WipeTmp, Heads, evals, repo

LEMMA StepType == Typed /\ [Next]_vars => Typed'
  <1> SUFFICES ASSUME Typed, [Next]_vars PROVE Typed'
    OBVIOUS
  <1>1. CASE UNCHANGED vars
    BY <1>1 DEF vars, repo, evals, Typed, TypeOK, Calls
  <1> QED
    BY <1>1, CallType, EvaluationType, GitType, WorldType DEF Next, Step

LEMMA AlwaysTyped == Spec => []Typed
  BY InitType, StepType, PTL DEF Spec

\* The type invariant: every variable keeps its type, for any number of runs.
THEOREM MergeTypes == Spec => []TypeOK
  <1>1. Typed => TypeOK
    BY DEF Typed
  <1> QED
    BY <1>1, AlwaysTyped, PTL

-----------------------------------------------------------------------------
(* The gate *)

\* What GateHolds says of one run with the call j and the metadata m.
Admitted(m, j) ==
  /\ m.evaluated => j.measured
  /\ m.trunk \notin {None, 0} =>
       IF m.minimize THEN j.score < m.trunk ELSE j.score > m.trunk

LEMMA JudgeAdmits ==
  ASSUME NEW r, NEW j, Passes(meta[r], j.score),
         meta[r].evaluated => j.measured
  PROVE  Admitted(meta[r], j)
  BY DEF Passes, TrunkScore, Improves, Admitted

\* A step of one run leaves the others' calls and metadata alone.
Private(r) == \A q \in Runs \ {r} : /\ pc'[q] = pc[q] /\ job'[q] = job[q]
                                    /\ meta'[q] = meta[q]

LEMMA StepIsPrivate ==
  ASSUME Typed, NEW r \in Runs,
         \/ Start(r) \/ TreeSetMeta(r) \/ SaveTree(r) \/ CallMerge(r)
         \/ Step(r) \/ Stop(r)
  PROVE  Private(r)
  <1> USE DEF Private, Goto, Return, Judge, Typed, TypeOK
  <1>1. CASE Start(r) \/ TreeSetMeta(r) \/ SaveTree(r) \/ CallMerge(r) \/ Stop(r)
    BY <1>1 DEF Start, TreeSetMeta, SaveTree, CallMerge, Stop
  <1>2. CASE Prepare(r) \/ Evaluate(r) \/ Clean(r)
    BY <1>2 DEF Prepare, Evaluate, Clean
  <1>3. CASE Refuse(r) \/ ReadCurrent(r) \/ Checkout(r) \/ GitMerge(r)
    BY <1>3 DEF Refuse, ReadCurrent, Checkout, GitMerge
  <1>4. CASE Abort(r) \/ Back(r) \/ Finish(r)
    BY <1>4 DEF Abort, Back, Finish
  <1> QED
    BY <1>1, <1>2, <1>3, <1>4 DEF Step

\* Within the gate's bounds a call keeps what admitted it.
LEMMA StaysAdmitted ==
  ASSUME Typed, NEW r \in Runs, pc'[r] \in PastGate,
         pc[r] \in PastGate => Admitted(meta[r], job[r]),
         \/ Start(r) \/ TreeSetMeta(r) \/ SaveTree(r) \/ CallMerge(r)
         \/ Step(r) \/ Stop(r)
  PROVE  Admitted(meta'[r], job'[r])
  <1> USE DEF Typed, TypeOK, At, Goto
  <1>0. job[r] \in Job /\ meta[r] \in Meta
    OBVIOUS
  <1>1. CASE Start(r) \/ TreeSetMeta(r) \/ SaveTree(r) \/ Stop(r)
    BY <1>1 DEF Start, TreeSetMeta, SaveTree, Stop, PastGate
  <1>2. CASE CallMerge(r)
    <2>1. PICK j : /\ Judge(r, j)
                   /\ ~meta[r].evaluated
      BY <1>2 DEF CallMerge, MustEvaluate, PastGate
    <2>2. Passes(meta[r], j.score) /\ job'[r] = j
      BY <2>1 DEF Judge, PastGate
    <2> QED
      BY <1>2, <2>1, <2>2, JudgeAdmits DEF CallMerge
  <1>3. CASE Prepare(r) \/ Evaluate(r)
    BY <1>3 DEF Prepare, Evaluate, Return, PastGate
  <1>4. CASE Clean(r)
    <2>1. job[r].measured /\ Judge(r, job[r])
      BY <1>4 DEF Clean, Return, PastGate
    <2>2. Passes(meta[r], job[r].score) /\ job'[r] = job[r]
      BY <2>1 DEF Judge, PastGate
    <2> QED
      BY <1>4, <2>1, <2>2, JudgeAdmits DEF Clean
  <1>5. CASE Refuse(r) \/ Back(r) \/ Finish(r)
    BY <1>5 DEF Refuse, Back, Finish, Return, PastGate
  <1>6. CASE ReadCurrent(r) \/ Checkout(r) \/ GitMerge(r) \/ Abort(r)
    <2>1. /\ pc[r] \in PastGate /\ meta' = meta
          /\ job'[r].measured = job[r].measured
          /\ job'[r].score = job[r].score
      BY <1>0, <1>6
      DEF ReadCurrent, Checkout, GitMerge, Abort, PastGate, Return, Job
    <2> QED
      BY <2>1 DEF Admitted
  <1> QED
    BY <1>1, <1>2, <1>3, <1>4, <1>5, <1>6 DEF Step

LEMMA StepGate == Typed /\ GateHolds /\ [Next]_vars => GateHolds'
  <1> SUFFICES ASSUME Typed, GateHolds, [Next]_vars,
                      NEW q \in Runs, pc'[q] \in PastGate
               PROVE  Admitted(meta'[q], job'[q])
    BY DEF GateHolds, Admitted
  <1>1. pc[q] \in PastGate => Admitted(meta[q], job[q])
    BY DEF GateHolds, Admitted
  <1>2. ASSUME NEW r \in Runs,
               \/ Start(r) \/ TreeSetMeta(r) \/ SaveTree(r) \/ CallMerge(r)
               \/ Step(r) \/ Stop(r)
        PROVE  Admitted(meta'[q], job'[q])
    <2>1. CASE q = r
      BY <1>1, <1>2, <2>1, StaysAdmitted
    <2>2. CASE q # r
      BY <1>1, <1>2, <2>2, StepIsPrivate DEF Private
    <2> QED
      BY <2>1, <2>2
  <1>3. CASE Tidy \/ WipeTmp \/ UNCHANGED vars
    BY <1>1, <1>3 DEF Tidy, WipeTmp, vars
  <1> QED
    BY <1>2, <1>3 DEF Next

\* Whatever the model claims and however many runs share the project, only a
\* score that the evaluation measured in the same call and that beats the one
\* recorded for the trunk takes a branch past the gate.
THEOREM GateKept == Spec => []GateHolds
  <1>1. Init => GateHolds
    BY DEF Init, GateHolds, PastGate
  <1> QED
    BY <1>1, StepGate, AlwaysTyped, PTL DEF Spec

-----------------------------------------------------------------------------
(* The medal *)

GoldMerged == \E b \in Heads : \E m \in merged[b] : m.gold

\* A medal, noted or about to be, in memory or on disk, has its merge.
MedalInv ==
  \A r \in Runs : \/ meta[r].gold \/ saved[r].gold
                  \/ pc[r] = "finish" /\ job[r].gold
                  => GoldMerged

\* What was merged stays merged.
LEMMA MergedGrows ==
  ASSUME Typed, GoldMerged, [Next]_vars PROVE GoldMerged'
  <1>1. \A b \in Heads : merged[b] \subseteq merged'[b]
    <2>1. CASE UNCHANGED merged
      BY <2>1
    <2>2. CASE \E r \in Runs : Lands(r)
      BY <2>2 DEF Lands, Typed, TypeOK
    <2> QED
      BY <2>1, <2>2
      DEF Next, Step, Start, TreeSetMeta, SaveTree, CallMerge, Stop, Prepare,
          Evaluate, Clean, Refuse, ReadCurrent, Checkout, GitMerge, Conflicts,
          Abort, Back, Finish, Tidy, WipeTmp, repo, vars
  <1> QED
    BY <1>1 DEF GoldMerged

LEMMA StepMedal == Typed /\ MedalInv /\ [Next]_vars => MedalInv'
  <1> SUFFICES ASSUME Typed, MedalInv, [Next]_vars, ~GoldMerged, ~GoldMerged'
               PROVE  MedalInv'
    BY MergedGrows DEF MedalInv
  <1>0. \A r \in Runs : /\ ~meta[r].gold /\ ~saved[r].gold
                        /\ pc[r] = "finish" => ~job[r].gold
    BY DEF MedalInv
  <1> SUFFICES ASSUME NEW q \in Runs
               PROVE  /\ ~meta'[q].gold /\ ~saved'[q].gold
                      /\ pc'[q] = "finish" => ~job'[q].gold
    BY DEF MedalInv
  <1> USE DEF Typed, TypeOK
  <1>1. CASE UNCHANGED <<pc, job, meta, saved>>
    BY <1>0, <1>1
  <1>2. ASSUME NEW r \in Runs,
               \/ Start(r) \/ TreeSetMeta(r) \/ SaveTree(r) \/ CallMerge(r)
               \/ Step(r) \/ Stop(r)
        PROVE  /\ ~meta'[q].gold /\ ~saved'[q].gold
               /\ pc'[q] = "finish" => ~job'[q].gold
    <2>1. pc'[r] # "finish" \/ GitMerge(r) \/ Finish(r)
      <3> USE DEF Goto, At, Return, Judge
      <3>1. CASE Start(r) \/ TreeSetMeta(r) \/ SaveTree(r) \/ Stop(r)
        BY <3>1 DEF Start, TreeSetMeta, SaveTree, Stop
      <3>4. CASE CallMerge(r)
        <4>1. \/ pc' = [pc EXCEPT ![r] = "prepare"]
              \/ pc' = [pc EXCEPT ![r] = "guarded"]
              \/ pc' = [pc EXCEPT ![r] = "idle"]
          BY <3>4 DEF CallMerge
        <4> QED
          BY <3>4, <4>1 DEF CallMerge
      <3>2. CASE Prepare(r) \/ Evaluate(r) \/ Clean(r)
        BY <3>2 DEF Prepare, Evaluate, Clean
      <3>3. CASE Refuse(r) \/ ReadCurrent(r) \/ Checkout(r) \/ Abort(r) \/ Back(r)
        BY <3>3 DEF Refuse, ReadCurrent, Checkout, Abort, Back
      <3> QED
        BY <1>2, <3>1, <3>2, <3>3, <3>4 DEF Step
    <2>2. CASE GitMerge(r)
      <3>1. meta' = meta /\ saved' = saved
        BY <2>2 DEF GitMerge
      <3>2. CASE Lands(r) /\ UNCHANGED job
        <4>1. MergeOf(job[r]) \in merged'[head] /\ head \in Heads
          BY <3>2 DEF Lands
        <4>2. ~MergeOf(job[r]).gold
          BY <4>1 DEF GoldMerged
        <4>3. ~job[r].gold
          BY <4>2 DEF MergeOf
        <4> QED
          BY <1>0, <2>2, <3>1, <3>2, <4>3 DEF GitMerge, Goto
      <3>3. CASE Goto(r, "abort")
        BY <1>0, <2>2, <3>1, <3>3, StepIsPrivate, <1>2 DEF Goto, Private
      <3> QED
        BY <2>2, <3>2, <3>3 DEF GitMerge
    <2>3. CASE Finish(r)
      <3>1. PICK g \in MedalsAfter(meta[r], job[r]) :
              meta' = [meta EXCEPT ![r].gold = g]
        BY <2>3 DEF Finish
      <3>2. g = FALSE
        <4>1. meta[r].gold = FALSE
          BY <1>0 DEF Meta
        <4>2. job[r].gold = FALSE
          BY <1>0, <2>3 DEF Finish, At, Job
        <4> QED
          BY <3>1, <4>1, <4>2 DEF MedalsAfter
      <3>3. meta'[q].gold = FALSE /\ saved' = saved
        BY <1>0, <2>3, <3>1, <3>2 DEF Finish, Meta
      <3>4. pc' = [pc EXCEPT ![r] = "idle"] /\ (q # r => job'[q] = job[q])
        BY <2>3 DEF Finish, Return, Goto
      <3> QED
        BY <1>0, <3>3, <3>4
    <2>4. CASE pc'[r] # "finish" /\ ~Finish(r)
      <3>1. /\ meta'[q].gold \in {meta[q].gold, saved[q].gold}
            /\ saved'[q].gold \in {meta'[q].gold, saved[q].gold}
        <4>1. CASE TreeSetMeta(r)
          <5>1. meta'[q].gold = meta[q].gold
            <6>1. PICK t \in Scores, b \in Scores, e \in BOOLEAN, d \in BOOLEAN :
                    \E trunk \in {t, meta[r].trunk}, base \in {b, meta[r].base} :
                      meta' = [meta EXCEPT ![r] =
                        [@ EXCEPT !.trunk = trunk, !.base = base,
                                  !.evaluated = e, !.minimize = d]]
              BY <4>1 DEF TreeSetMeta
            <6> QED
              BY <6>1 DEF Meta
          <5> QED
            BY <4>1, <5>1 DEF TreeSetMeta
        <4>2. CASE SaveTree(r)
          BY <4>2 DEF SaveTree
        <4>3. CASE Stop(r)
          BY <4>3 DEF Stop
        <4>4. CASE UNCHANGED <<meta, saved>>
          BY <4>4
        <4> QED
          BY <1>2, <2>4, <4>1, <4>2, <4>3, <4>4
          DEF Step, Start, CallMerge, Prepare, Evaluate, Clean, Refuse,
              ReadCurrent, Checkout, GitMerge, Abort, Back
      <3> QED
        BY <1>0, <1>2, <2>4, <3>1, StepIsPrivate DEF Private
    <2> QED
      BY <2>1, <2>2, <2>3, <2>4
  <1> QED
    BY <1>1, <1>2 DEF Next, Tidy, WipeTmp, vars

\* The medal that stops a run's experiments belongs to a merged branch, across
\* restarts and for any number of runs.
THEOREM MedalsBacked == Spec => []MedalIsBacked
  <1>1. Init => MedalInv
    BY DEF Init, MedalInv, DefaultMeta
  <1>2. MedalInv => MedalIsBacked
    BY DEF MedalInv, MedalIsBacked, GoldMerged
  <1> QED
    BY <1>1, <1>2, StepMedal, AlwaysTyped, PTL DEF Spec

-----------------------------------------------------------------------------
(* One run at a time: the working directory is its own *)

OneRun == \A q, r \in Runs : q = r

\* Where HEAD is at each point of a call, and what the call remembers of it.
Placed(r) ==
  /\ pc[r] = "merge" => head = job[r].tgt
  /\ pc[r] = "finish" => MergeOf(job[r]) \in merged[job[r].tgt]
  /\ ~job[r].trouble =>
       /\ pc[r] \in {"idle", "guarded", "checkout"} \cup Evaluating
            => head = job[r].home /\ ~unmerged
       /\ pc[r] \in {"checkout", "merge", "abort", "back", "finish"}
            => job[r].current = job[r].home
       /\ pc[r] \in {"merge", "abort", "finish"} => head = job[r].tgt
       /\ pc[r] \in {"merge", "back", "finish"} => ~unmerged

OneInv == MainIsClean /\ \A r \in Runs : Placed(r)

LEMMA NoMergeIntoMain ==
  ASSUME Typed, OneInv, [Next]_vars PROVE MainIsClean'
  <1>1. CASE UNCHANGED merged
    BY <1>1 DEF OneInv, MainIsClean
  <1>2. ASSUME NEW r \in Runs, GitMerge(r), Lands(r) PROVE MainIsClean'
    <2>1. head = job[r].tgt
      BY <1>2 DEF OneInv, Placed, GitMerge, At
    <2>2. job[r].tgt \in Targets
      BY <1>2 DEF Typed, Calls, GitMerge, At, Busy, PastGate
    <2>3. head # Main
      BY <2>1, <2>2, MergeAssumption DEF MergeAssumption
    <2> QED
      BY <1>2, <2>3 DEF Lands, OneInv, MainIsClean, Typed, TypeOK, Heads
  <1>3. \/ UNCHANGED merged
        \/ \E r \in Runs : GitMerge(r) /\ Lands(r)
    BY DEF Next, Step, Start, TreeSetMeta, SaveTree, CallMerge, Stop, Prepare,
           Evaluate, Clean, Refuse, ReadCurrent, Checkout, GitMerge, Conflicts,
           Abort, Back, Finish, Tidy, WipeTmp, repo, vars
  <1> QED
    BY <1>1, <1>2, <1>3

\* What is left of a call when it returns.
LEMMA ReturnFields ==
  ASSUME Typed, NEW r \in Runs, NEW t \in BOOLEAN, Return(r, t)
  PROVE  /\ pc'[r] = "idle"
         /\ job'[r].home = job[r].home
         /\ ~job'[r].trouble => ~t /\ ~job[r].trouble
  <1>1. job'[r] = NoJob(job[r].home, t \/ job[r].trouble) /\ pc'[r] = "idle"
    BY DEF Return, Goto, Typed, TypeOK
  <1>2. job'[r].trouble = (t \/ job[r].trouble) /\ job'[r].home = job[r].home
    BY <1>1 DEF NoJob
  <1> QED
    BY <1>1, <1>2

LEMMA JudgeFields ==
  ASSUME Typed, NEW r \in Runs, NEW j \in Job, Judge(r, j)
  PROVE  /\ pc'[r] \in {"guarded", "idle"}
         /\ job'[r].home = j.home
         /\ ~job'[r].trouble => ~j.trouble
  <1>1. CASE job'[r] = j
    BY <1>1 DEF Judge, Goto, Typed, TypeOK
  <1>2. CASE job'[r] = NoJob(j.home, j.trouble)
    BY <1>2 DEF Judge, Goto, Typed, TypeOK, NoJob
  <1> QED
    BY <1>1, <1>2 DEF Judge, Typed, TypeOK

\* A step that keeps HEAD and the merge state, away from git's steps.
LEMMA StaysPlaced ==
  ASSUME NEW r \in Runs, Placed(r),
         pc[r] \in {"idle", "guarded", "checkout"} \cup Evaluating,
         pc'[r] \in {"idle", "guarded"} \cup Evaluating,
         UNCHANGED <<head, unmerged>>,
         job'[r].home = job[r].home,
         ~job'[r].trouble => ~job[r].trouble
  PROVE  Placed(r)'
  BY DEF Placed, Evaluating

\* A run that is alone keeps its place.
LEMMA StepPlaced ==
  ASSUME Typed, NEW r \in Runs, Placed(r),
         \/ Start(r) \/ TreeSetMeta(r) \/ SaveTree(r) \/ CallMerge(r)
         \/ Step(r) \/ Stop(r)
  PROVE  Placed(r)'
  <1> USE DEF At, Goto
  <1>0. /\ job[r] \in Job /\ pc \in [Runs -> {"down", "idle"} \cup Busy]
        /\ job \in [Runs -> Job]
    BY DEF Typed, TypeOK
  <1>1. CASE Start(r)
    <2>1. /\ pc'[r] = "idle" /\ job'[r].home = head' /\ ~unmerged'
      BY <1>0, <1>1 DEF Start, NoJob
    <2> QED
      BY <2>1 DEF Placed
  <1>2. CASE TreeSetMeta(r) \/ SaveTree(r)
    <2>1. UNCHANGED <<head, unmerged, merged, pc, job>>
      BY <1>2 DEF TreeSetMeta, SaveTree, repo
    <2> QED
      BY <2>1 DEF Placed, MergeOf
  <1>3. CASE Stop(r)
    BY <1>0, <1>3 DEF Stop, Placed, Evaluating
  <1>4. CASE CallMerge(r)
    <2>1. PICK src \in Branches, given \in Heads \cup {None}, claimed \in Score :
            LET j == [NoJob(head, unmerged) EXCEPT
                        !.src = src, !.tgt = TargetOf(given), !.score = claimed]
            IN /\ Admissible(given)
               /\ \/ Goto(r, "prepare") /\ job' = [job EXCEPT ![r] = j]
                  \/ Judge(r, j)
      BY <1>4 DEF CallMerge
    <2> DEFINE j == [NoJob(head, unmerged) EXCEPT
                       !.src = src, !.tgt = TargetOf(given), !.score = claimed]
    <2>2. NoJob(head, unmerged) \in Job /\ TargetOf(given) \in Targets
      BY <2>1, NoJobType, TargetType DEF Typed, TypeOK
    <2>3. j \in Job /\ j.home = head /\ j.trouble = unmerged
      BY <2>2 DEF Job, NoJob
    <2>4. /\ pc'[r] \in {"prepare", "guarded", "idle"}
          /\ job'[r].home = head
          /\ ~job'[r].trouble => ~unmerged
      <3>1. CASE Judge(r, j)
        BY <2>3, <3>1, JudgeFields
      <3>2. CASE Goto(r, "prepare") /\ job' = [job EXCEPT ![r] = j]
        BY <1>0, <2>3, <3>2
      <3> QED
        BY <2>1, <3>1, <3>2
    <2>5. UNCHANGED <<head, unmerged>>
      BY <1>4 DEF CallMerge, repo
    <2> QED
      BY <2>4, <2>5 DEF Placed
  <1>5. CASE Prepare(r) \/ Evaluate(r) \/ Clean(r)
    <2>1. pc[r] \in Evaluating /\ UNCHANGED <<head, unmerged>>
      BY <1>5 DEF Prepare, Evaluate, Clean, Evaluating, repo
    <2>2. CASE Return(r, FALSE)
      BY <2>1, <2>2, ReturnFields, StaysPlaced
    <2>3. CASE Judge(r, job[r])
      BY <1>0, <2>1, <2>3, JudgeFields, StaysPlaced
    <2>4. CASE \/ Goto(r, "evaluate") /\ job' = [job EXCEPT ![r].attempt = 1]
               \/ Evaluate(r)
      <3>1. /\ job'[r].home = job[r].home
            /\ job'[r].trouble = job[r].trouble
        <4>1. CASE job' = [job EXCEPT ![r].attempt = 1]
          BY <1>0, <4>1 DEF Job
        <4>2. CASE UNCHANGED job
          BY <4>2
        <4>3. CASE job' = [job EXCEPT ![r].attempt = @ + 1]
          BY <1>0, <4>3 DEF Job
        <4>4. ASSUME NEW s \in Scores, NEW g \in BOOLEAN,
                     job' = [job EXCEPT ![r] =
                       [@ EXCEPT !.score = s, !.gold = g, !.measured = TRUE]]
              PROVE  /\ job'[r].home = job[r].home
                     /\ job'[r].trouble = job[r].trouble
          BY <1>0, <4>4 DEF Job
        <4> QED
          BY <2>4, <4>1, <4>2, <4>3, <4>4 DEF Evaluate
      <3>2. pc'[r] \in Evaluating
        BY <1>0, <2>4 DEF Evaluate, Evaluating
      <3> QED
        BY <2>1, <3>1, <3>2, StaysPlaced
    <2> QED
      BY <1>5, <2>2, <2>3, <2>4 DEF Prepare, Clean
  <1>6. CASE Refuse(r)
    <2>1. Return(r, FALSE) /\ pc[r] = "guarded" /\ UNCHANGED <<head, unmerged>>
      BY <1>6 DEF Refuse, repo
    <2> QED
      BY <2>1, ReturnFields, StaysPlaced
  <1>7. CASE ReadCurrent(r)
    BY <1>0, <1>7 DEF ReadCurrent, repo, Job, Placed, Evaluating
  <1>8. CASE Checkout(r)
    <2>1. CASE Goto(r, "merge") /\ UNCHANGED job
      <3>1. /\ pc[r] = "checkout" /\ pc'[r] = "merge" /\ job' = job
            /\ head' = job[r].tgt /\ ~unmerged' /\ merged' = merged
        BY <1>0, <1>8, <2>1, ReturnFields DEF Checkout
      <3> QED
        BY <3>1 DEF Placed, Evaluating
    <2>2. CASE head' = head /\ Return(r, FALSE)
      BY <1>8, <2>2, ReturnFields, StaysPlaced DEF Checkout
    <2>3. CASE Return(r, TRUE)
      BY <2>3, ReturnFields DEF Placed, Evaluating
    <2> QED
      BY <1>8, <2>1, <2>2, <2>3 DEF Checkout
  <1>9. CASE GitMerge(r)
    <2>1. CASE Lands(r) /\ Goto(r, "finish") /\ UNCHANGED job
      <3>1. job[r].tgt \in Heads /\ head = job[r].tgt
        BY <1>9 DEF Typed, Calls, GitMerge, Busy, PastGate, Heads, Placed
      <3>2. MergeOf(job[r]) \in merged'[job[r].tgt]
        BY <2>1, <3>1 DEF Lands, Typed, TypeOK
      <3> QED
        BY <1>0, <1>9, <2>1, <3>2
        DEF GitMerge, Lands, MergeOf, Placed, Evaluating
    <2>2. CASE Goto(r, "abort")
      BY <1>0, <1>9, <2>2
      DEF GitMerge, Lands, Conflicts, repo, Job, Placed, Evaluating
    <2> QED
      BY <1>9, <2>1, <2>2 DEF GitMerge
  <1>10. CASE Abort(r)
    BY <1>0, <1>10 DEF Abort, Job, Placed, Evaluating
  <1>11. CASE Back(r)
    <2>1. CASE Return(r, TRUE)
      BY <2>1, ReturnFields DEF Placed, Evaluating
    <2>2. CASE ~unmerged /\ head' = job[r].current /\ Return(r, FALSE)
      BY <1>11, <2>2, ReturnFields DEF Back, Placed, Evaluating
    <2> QED
      BY <1>11, <2>1, <2>2 DEF Back
  <1>12. CASE Finish(r)
    <2>1. CASE Return(r, TRUE)
      BY <2>1, ReturnFields DEF Placed, Evaluating
    <2>2. CASE Return(r, FALSE)
      <3>1. CASE Return(r, TRUE)
        BY <2>1, <3>1
      <3>2. CASE \/ head' = job[r].current
                 \/ head' = head /\ job[r].current = job[r].tgt
        BY <1>12, <2>2, <3>2, ReturnFields DEF Finish, Placed, Evaluating
      <3> QED
        BY <1>12, <3>1, <3>2 DEF Finish
    <2> QED
      BY <1>12, <2>1, <2>2 DEF Finish
  <1> QED
    BY <1>1, <1>2, <1>3, <1>4, <1>5, <1>6, <1>7, <1>8, <1>9, <1>10, <1>11,
       <1>12 DEF Step

LEMMA StepOne == OneRun /\ Typed /\ OneInv /\ [Next]_vars => OneInv'
  <1> SUFFICES ASSUME OneRun, Typed, OneInv, [Next]_vars, NEW q \in Runs
               PROVE  Placed(q)'
    BY NoMergeIntoMain DEF OneInv
  <1>0. Placed(q)
    BY DEF OneInv
  <1>1. ASSUME NEW r \in Runs,
               \/ Start(r) \/ TreeSetMeta(r) \/ SaveTree(r) \/ CallMerge(r)
               \/ Step(r) \/ Stop(r)
        PROVE  Placed(q)'
    <2>1. q = r
      BY DEF OneRun
    <2> QED
      BY <1>0, <1>1, <2>1, StepPlaced
  <1>2. CASE Tidy \/ WipeTmp
    BY <1>2 DEF Tidy, WipeTmp, AllDown, At, Placed, Evaluating
  <1>3. CASE UNCHANGED vars
    BY <1>0, <1>3 DEF vars, repo, evals, Placed
  <1> QED
    BY <1>1, <1>2, <1>3 DEF Next

LEMMA AlwaysOne == ASSUME OneRun PROVE Spec => []OneInv
  <1>1. Init => OneInv
    BY DEF Init, OneInv, MainIsClean, Placed, Heads, Evaluating
  <1>2. Typed /\ OneInv /\ [Next]_vars => OneInv'
    BY StepOne
  <1> QED
    BY <1>1, <1>2, AlwaysTyped, PTL DEF Spec

\* With one run at a time nothing is merged into main, whichever git command
\* fails or is killed, and whenever the run is stopped.
THEOREM MainStaysClean == ASSUME OneRun PROVE Spec => []MainIsClean
  <1>1. OneInv => MainIsClean
    BY DEF OneInv
  <1> QED
    BY <1>1, AlwaysOne, PTL

\* With one run at a time, a call that reports a merge has merged what it says
\* into the branch it says.
THEOREM SuccessTold == ASSUME OneRun PROVE Spec => []SuccessIsTrue
  <1>1. OneInv => SuccessIsTrue
    BY DEF OneInv, Placed, SuccessIsTrue, At
  <1> QED
    BY <1>1, AlwaysOne, PTL

\* With one run at a time, HEAD is back where it was when a call returns, and
\* no merge is in progress, unless git failed half way.
THEOREM TracesGone == ASSUME OneRun PROVE Spec => []LeavesNoTrace
  <1>1. OneInv => LeavesNoTrace
    BY DEF OneInv, Placed, LeavesNoTrace, At
  <1> QED
    BY <1>1, AlwaysOne, PTL
=============================================================================
