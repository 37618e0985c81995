------------------------ MODULE DesktopRuntimeProofs ------------------------
(***************************************************************************)
(* What DesktopRuntime keeps, for every number of requests and processes:  *)
(* one process at most that nobody told to stop, and no request that waits *)
(* for a process whose end will not be noticed.                            *)
(*                                                                         *)
(* OneRuntime speaks of two processes at a time, so it is not inductive:   *)
(* it needs to know that the launch in progress, the state of its process  *)
(* and the pending initialization move together (LaunchConsistent), that   *)
(* nothing is pending on a process that was never up (ProcessConsistent)   *)
(* and that processes are numbered in the order of their launch            *)
(* (BornInOrder).                                                          *)
(***************************************************************************)
EXTENDS DesktopRuntime, TLAPS, FiniteSetTheorems, SequenceTheorems

LaunchConsistent ==
  /\ starting.gen = None <=> starting.at = "none"
  /\ starting.at = "spawn" => runtime = None
  /\ starting.at = "init" /\ runtime # starting.gen =>
       runtime = None /\ closing[starting.gen] # "no"
  /\ \A g \in Gens :
       /\ main =>
            (proc[g] = "spawning" <=> starting.at = "spawn" /\ starting.gen = g)
       /\ Initialize \in pending[g] <=> starting.at = "init" /\ starting.gen = g

ProcessConsistent ==
  /\ \A g \in Gens : proc[g] \in {"unborn", "spawning"} => pending[g] = {}
  /\ runtime # None => proc[runtime] \notin {"unborn", "spawning"}
  /\ \A g \in exitSeen : Dead(g)

BornInOrder ==
  \E n \in 0 .. MaxGen : \A g \in Gens : proc[g] # "unborn" <=> g <= n

IInv ==
  /\ TypeOK
  /\ LaunchConsistent
  /\ ProcessConsistent
  /\ BornInOrder
  /\ OneRuntime
  /\ NothingDangles

-----------------------------------------------------------------------------
(* Data *)

\* The ids of main are none of the renderer's, and no process is None.
LEMMA RT == None \notin Gens /\ Initialize \notin Reqs /\ Shutdown \notin Reqs
            /\ Initialize # Shutdown /\ MaxGen \in Nat
  BY RuntimeAssumption DEF RuntimeAssumption, Gens

\* A list of the elements of S is a sequence over S.
LEMMA RangeOfList ==
  ASSUME NEW S, NEW n \in Nat, NEW s \in [1 .. n -> S]
  PROVE  s \in Seq(S) /\ ToSet(s) \subseteq S
  BY DEF ToSet

LEMMA RangeOfOne == ASSUME NEW x PROVE ToSet(<<x>>) = {x}
  BY DEF ToSet

\* The next number is that of a process that was never launched, and launching
\* it keeps the numbers in order.
LEMMA NextIsUnborn ==
  ASSUME TypeOK, BornInOrder
  PROVE  /\ NextGen \in Gens => proc[NextGen] = "unborn"
         /\ \A g \in Gens : proc[g] # "unborn" <=> g < NextGen
  <1>1. PICK n \in 0 .. MaxGen : \A g \in Gens : proc[g] # "unborn" <=> g <= n
    BY DEF BornInOrder
  <1>2. {g \in Gens : proc[g] # "unborn"} = 1 .. n
    BY <1>1, RT DEF Gens
  <1>3. Cardinality(1 .. n) = n
    BY FS_Interval
  <1>4. NextGen = n + 1
    BY <1>2, <1>3 DEF NextGen
  <1> QED
    BY <1>1, <1>4, RT DEF Gens, TypeOK

\* A step that launches nothing keeps the order.
LEMMA BornStays ==
  ASSUME BornInOrder,
         \A g \in Gens : proc'[g] = "unborn" <=> proc[g] = "unborn"
  PROVE  BornInOrder'
  BY DEF BornInOrder

-----------------------------------------------------------------------------
(* Steps *)

LEMMA InitInv == Init => IInv
  <1> SUFFICES ASSUME Init PROVE IInv
    OBVIOUS
  <1> USE RT DEF Init
  <1>1. TypeOK
    BY DEF TypeOK, NotStarting
  <1>2. LaunchConsistent
    BY DEF LaunchConsistent, NotStarting
  <1>3. ProcessConsistent
    BY DEF ProcessConsistent
  <1>4. BornInOrder
    <2>1. 0 \in 0 .. MaxGen /\ \A g \in Gens : proc[g] # "unborn" <=> g <= 0
      BY DEF Gens
    <2> QED BY <2>1 DEF BornInOrder
  <1>5. OneRuntime
    BY DEF OneRuntime, Owned, Alive, NotStarting
  <1>6. NothingDangles
    BY DEF NothingDangles
  <1> QED BY <1>1, <1>2, <1>3, <1>4, <1>5, <1>6 DEF IInv

\* What writing the requests of R to g does, S being settled by the same step:
\* every one is refused, or it is pending on a process whose end is to come.
Written(g, R, S) ==
  /\ pending' \in [Gens -> SUBSET Ids]
  /\ \A h \in Gens : h # g => pending'[h] = pending[h]
  /\ pending'[g] \subseteq (pending[g] \ S) \cup R
  /\ pending[g] \ S \subseteq pending'[g]
  /\ g \in exitSeen => pending'[g] = pending[g] \ S
  /\ inbox' \in [Gens -> Seq(Ids)]
  /\ req' \in [Reqs -> {"new", "launching", "sent", "answered", "failed"}]
  /\ \A r \in R : req'[r] = "failed" \/ (req'[r] = "sent" /\ r \in pending'[g])
  /\ \A r \in Reqs \ R : req'[r] = req[r]

LEMMA WriteEffect ==
  ASSUME TypeOK, NEW g \in Gens, NEW s \in Seq(Reqs), ToSet(s) \subseteq Reqs,
         NEW S \in SUBSET Ids, Write(g, s, S)
  PROVE  Written(g, ToSet(s), S)
  <1> DEFINE rejected == HasExitCode(g) \/ ~Writable(g)
             kept     == pending[g] \ S
             R        == ToSet(s)
  <1>1. /\ pending' = [pending EXCEPT ![g] = IF rejected THEN kept
                                             ELSE kept \cup R]
        /\ inbox' = IF rejected THEN inbox ELSE [inbox EXCEPT ![g] = @ \o s]
        /\ req' = [r \in Reqs |-> IF r \notin R THEN req[r]
                                  ELSE IF rejected THEN "failed" ELSE "sent"]
    BY DEF Write
  <1>2. R \subseteq Reqs /\ kept \subseteq Ids /\ R \subseteq Ids
    BY DEF Ids, TypeOK
  <1>3. g \in exitSeen => rejected
    BY DEF Writable
  <1>4. inbox' \in [Gens -> Seq(Ids)]
    <2>1. inbox[g] \in Seq(Ids) /\ s \in Seq(Ids)
      BY DEF TypeOK, Ids
    <2>2. inbox[g] \o s \in Seq(Ids)
      BY <2>1
    <2> QED BY <1>1, <2>2 DEF TypeOK
  <1> HIDE DEF rejected, R
  <1>5. /\ pending' \in [Gens -> SUBSET Ids]
        /\ \A h \in Gens : h # g => pending'[h] = pending[h]
        /\ pending'[g] = IF rejected THEN kept ELSE kept \cup R
    BY <1>1, <1>2 DEF TypeOK
  <1>6. /\ req' \in [Reqs -> {"new", "launching", "sent", "answered", "failed"}]
        /\ \A r \in R : req'[r] = IF rejected THEN "failed" ELSE "sent"
        /\ \A r \in Reqs \ R : req'[r] = req[r]
    BY <1>1, <1>2 DEF TypeOK
  <1> QED BY <1>3, <1>4, <1>5, <1>6 DEF R, Written

\* A request is written to the runtime in use.
LEMMA AskRuntime ==
  ASSUME IInv, main, main' = main, NEW r \in Reqs, Ask(r), runtime # None
  PROVE  IInv'
  <1>1. runtime \in Gens /\ runtime \notin exitSeen /\ ~HasExitCode(runtime)
    BY DEF IInv, TypeOK, NothingDangles, HasExitCode
  <1>2. /\ Write(runtime, <<r>>, {})
        /\ UNCHANGED <<runtime, starting, proc, signalled, exitSeen, closing,
                       ended, outbox>>
    BY <1>1 DEF Ask
  <1>3. ToSet(<<r>>) = {r} /\ <<r>> \in Seq(Reqs)
    BY RangeOfOne
  <1>4. /\ pending' \in [Gens -> SUBSET Ids]
        /\ \A g \in Gens : g # runtime => pending'[g] = pending[g]
        /\ pending'[runtime] \subseteq pending[runtime] \cup {r}
        /\ pending[runtime] \subseteq pending'[runtime]
        /\ inbox' \in [Gens -> Seq(Ids)]
        /\ req' \in [Reqs -> {"new", "launching", "sent", "answered", "failed"}]
        /\ req'[r] = "failed" \/ (req'[r] = "sent" /\ r \in pending'[runtime])
        /\ \A x \in Reqs : x # r => req'[x] = req[x]
    <2>1. TypeOK /\ {} \in SUBSET Ids /\ ToSet(<<r>>) \subseteq Reqs
      BY <1>3 DEF IInv
    <2>2. Written(runtime, ToSet(<<r>>), {})
      BY <1>1, <1>2, <1>3, <2>1, WriteEffect
    <2>3. Written(runtime, {r}, {})
      BY <1>3, <2>2, Zenon
    <2>4. /\ pending'[runtime] \subseteq pending[runtime] \cup {r}
          /\ pending[runtime] \subseteq pending'[runtime]
      BY <2>3 DEF Written
    <2>5. /\ req'[r] = "failed" \/ (req'[r] = "sent" /\ r \in pending'[runtime])
          /\ \A x \in Reqs : x # r => req'[x] = req[x]
      BY <2>3 DEF Written
    <2> QED BY <2>3, <2>4, <2>5 DEF Written
  <1>5. TypeOK'
    <2>1. /\ pending' \in [Gens -> SUBSET Ids] /\ inbox' \in [Gens -> Seq(Ids)]
          /\ req' \in [Reqs -> {"new", "launching", "sent", "answered", "failed"}]
      BY <1>4
    <2>2. TypeOK /\ UNCHANGED <<runtime, starting, proc, signalled, exitSeen, closing,
                               ended, outbox>>
      BY <1>2 DEF IInv
    <2> QED BY <2>1, <2>2, Zenon DEF TypeOK
  <1>6. LaunchConsistent'
    BY <1>2, <1>4, RT DEF IInv, LaunchConsistent
  <1>7. ProcessConsistent'
    BY <1>2, <1>4 DEF IInv, ProcessConsistent, Dead
  <1>8. BornInOrder'
    BY <1>2, BornStays DEF IInv
  <1>9. OneRuntime'
    BY <1>2 DEF IInv, OneRuntime, Owned, Alive
  <1>10. NothingDangles'
    <2>1. \A x \in Reqs : req'[x] = "sent" => \E g \in Gens : x \in pending'[g]
      <3> TAKE x \in Reqs
      <3>1. CASE x = r
        BY <1>1, <1>4, <3>1
      <3>2. CASE x # r
        <4>1. req'[x] = req[x]
          BY <1>4, <3>2
        <4>2. \A g \in Gens : pending[g] \subseteq pending'[g]
          BY <1>4
        <4> QED BY <4>1, <4>2 DEF IInv, NothingDangles
      <3> QED BY <3>1, <3>2
    <2>2. \A x \in Reqs : req'[x] = "launching" => starting' # NotStarting
      BY <1>2, <1>4 DEF IInv, NothingDangles, NotStarting
    <2>3. \A g \in exitSeen' : pending'[g] = {} /\ runtime' # g
      BY <1>1, <1>2, <1>4 DEF IInv, NothingDangles, TypeOK
    <2> QED BY <2>1, <2>2, <2>3 DEF NothingDangles, NotStarting
  <1> QED BY <1>5, <1>6, <1>7, <1>8, <1>9, <1>10 DEF IInv

\* A request that finds no runtime joins a launch or starts one.
LEMMA AskLaunch ==
  ASSUME IInv, main, main' = main, NEW r \in Reqs, Ask(r), runtime = None
  PROVE  IInv'
  <1>1. Launch(r)
    BY DEF Ask
  <1>2. /\ UNCHANGED <<runtime, signalled, exitSeen, closing, pending, ended,
                       inbox, outbox>>
        /\ req' = [req EXCEPT ![r] = "launching"]
    BY <1>1 DEF Launch
  <1>3. CASE starting # NotStarting
    <2>1. UNCHANGED <<starting, proc>>
      BY <1>1, <1>3 DEF Launch
    <2>2. TypeOK'
      BY <1>2, <2>1 DEF IInv, TypeOK
    <2>3. LaunchConsistent' /\ ProcessConsistent' /\ OneRuntime'
      BY <1>2, <2>1 DEF IInv, LaunchConsistent, ProcessConsistent, Dead,
        OneRuntime, Owned, Alive
    <2>4. BornInOrder'
      BY <2>1, BornStays DEF IInv
    <2>5. NothingDangles'
      BY <1>2, <1>3, <2>1 DEF IInv, NothingDangles, TypeOK, NotStarting
    <2> QED BY <2>2, <2>3, <2>4, <2>5 DEF IInv
  <1>4. CASE starting = NotStarting
    <2> DEFINE g == NextGen
    <2>1. /\ g \in Gens
          /\ starting' = [gen |-> g, at |-> "spawn"]
          /\ proc' = [proc EXCEPT ![g] = "spawning"]
      BY <1>1, <1>4 DEF Launch
    <2>2. proc[g] = "unborn" /\ \A h \in Gens : proc[h] # "unborn" <=> h < g
      BY <2>1, NextIsUnborn DEF IInv
    <2> HIDE DEF g
    <2>3. TypeOK'
      BY <1>2, <2>1 DEF IInv, TypeOK
    <2>4. pending[g] = {} /\ g \notin exitSeen
      BY <2>1, <2>2 DEF IInv, ProcessConsistent, Dead
    <2>5. LaunchConsistent'
      <3>1. \A h \in Gens : proc[h] # "spawning" /\ Initialize \notin pending[h]
        BY <1>4 DEF IInv, LaunchConsistent, NotStarting
      <3>2. \A h \in Gens : proc'[h] = "spawning" <=> h = g
        BY <2>1, <3>1 DEF IInv, TypeOK
      <3> QED BY <1>2, <2>1, <3>1, <3>2, RT DEF LaunchConsistent
    <2>6. ProcessConsistent'
      BY <1>2, <2>1, <2>4 DEF IInv, ProcessConsistent, TypeOK, Dead
    <2>7. BornInOrder'
      <3>1. \A h \in Gens : proc'[h] # "unborn" <=> h <= g
        BY <2>1, <2>2, RT DEF IInv, TypeOK, Gens
      <3>2. g \in 0 .. MaxGen
        BY <2>1, RT DEF Gens
      <3> QED BY <3>1, <3>2 DEF BornInOrder
    <2>8. OneRuntime'
      <3>1. Owned = {}
        BY <1>4, RT DEF IInv, OneRuntime, Owned, NotStarting
      <3>2. Owned' \subseteq Owned \cup {g}
        BY <1>2, <2>1 DEF IInv, TypeOK, Owned, Alive
      <3> QED BY <1>2, <2>1, <3>1, <3>2 DEF OneRuntime
    <2>9. NothingDangles'
      <3>1. starting' # NotStarting
        BY <2>1, RT DEF NotStarting
      <3> QED BY <1>2, <3>1 DEF IInv, NothingDangles, TypeOK, NotStarting
    <2> QED BY <2>3, <2>5, <2>6, <2>7, <2>8, <2>9 DEF IInv
  <1> QED BY <1>3, <1>4

\* The process is up: it becomes the runtime and its initialization is written.
LEMMA SpawnedStep == ASSUME IInv, main, main' = main, Spawned PROVE IInv'
  <1> DEFINE g == starting.gen
  <1>1. /\ starting.at = "spawn" /\ runtime = None
        /\ g \in Gens /\ proc[g] = "spawning"
    BY RT DEF IInv, Spawned, TypeOK, LaunchConsistent
  <1>2. /\ proc' = [proc EXCEPT ![g] = "up"]
        /\ runtime' = g
        /\ starting' = [gen |-> g, at |-> "init"]
        /\ pending' = [pending EXCEPT ![g] = {Initialize}]
        /\ inbox' = [inbox EXCEPT ![g] = <<Initialize>>]
        /\ UNCHANGED <<signalled, exitSeen, closing, ended, outbox, req>>
    BY DEF Spawned
  <1>3. pending[g] = {} /\ g \notin exitSeen
    BY <1>1 DEF IInv, ProcessConsistent, Dead
  <1>4. \A h \in Gens : /\ Initialize \notin pending[h]
                        /\ proc[h] = "spawning" <=> h = g
    BY <1>1 DEF IInv, LaunchConsistent
  <1> HIDE DEF g
  <1>5. TypeOK'
    BY <1>1, <1>2 DEF IInv, TypeOK, Ids
  <1>6. LaunchConsistent'
    BY <1>1, <1>2, <1>4, RT DEF IInv, LaunchConsistent, TypeOK
  <1>7. ProcessConsistent'
    BY <1>1, <1>2, <1>3, <1>4 DEF IInv, ProcessConsistent, TypeOK, Dead
  <1>8. BornInOrder'
    BY <1>1, <1>2, BornStays DEF IInv, TypeOK
  <1>9. OneRuntime'
    <2>1. Owned' \subseteq Owned \cup {g}
      BY <1>1, <1>2 DEF IInv, TypeOK, Owned, Alive
    <2>2. Owned \subseteq {g}
      BY <1>1, RT DEF IInv, OneRuntime, Owned, g
    <2> QED BY <1>2, <2>1, <2>2 DEF OneRuntime
  <1>10. NothingDangles'
    <2>1. starting' # NotStarting
      BY <1>1, <1>2, RT DEF NotStarting
    <2> QED BY <1>1, <1>2, <1>3, <2>1 DEF IInv, NothingDangles, TypeOK,
          NotStarting
  <1> QED BY <1>5, <1>6, <1>7, <1>8, <1>9, <1>10 DEF IInv

\* The process could not be spawned: the launch fails for all who wait.
LEMMA SpawnFailsStep == ASSUME IInv, main, main' = main, SpawnFails PROVE IInv'
  <1> DEFINE g == starting.gen
  <1>1. /\ starting.at = "spawn" /\ runtime = None
        /\ g \in Gens /\ proc[g] = "spawning"
    BY RT DEF IInv, SpawnFails, TypeOK, LaunchConsistent
  <1>2. /\ proc' = [proc EXCEPT ![g] = "returned"]
        /\ exitSeen' = exitSeen \cup {g}
        /\ starting' = NotStarting
        /\ req' = [r \in Reqs |-> IF req[r] = "launching" THEN "failed"
                                  ELSE req[r]]
        /\ UNCHANGED <<runtime, signalled, closing, pending, ended, inbox,
                       outbox>>
    BY DEF SpawnFails
  <1>3. pending[g] = {}
    BY <1>1 DEF IInv, ProcessConsistent
  <1>4. \A h \in Gens : /\ Initialize \notin pending[h]
                        /\ proc[h] = "spawning" <=> h = g
    BY <1>1 DEF IInv, LaunchConsistent
  <1>5. Owned' = {}
    <2>1. Owned \subseteq {g}
      BY <1>1, RT DEF IInv, OneRuntime, Owned
    <2>2. Owned' \subseteq Owned \ {g}
      BY <1>1, <1>2 DEF IInv, TypeOK, Owned, Alive
    <2> QED BY <2>1, <2>2
  <1> HIDE DEF g
  <1>6. TypeOK'
    BY <1>1, <1>2 DEF IInv, TypeOK, NotStarting
  <1>7. LaunchConsistent'
    BY <1>1, <1>2, <1>4, RT DEF IInv, LaunchConsistent, TypeOK, NotStarting
  <1>8. ProcessConsistent'
    BY <1>1, <1>2, <1>3 DEF IInv, ProcessConsistent, TypeOK, Dead
  <1>9. BornInOrder'
    BY <1>1, <1>2, BornStays DEF IInv, TypeOK
  <1>10. OneRuntime'
    BY <1>2, <1>5 DEF OneRuntime, NotStarting
  <1>11. NothingDangles'
    BY <1>1, <1>2, <1>3, RT DEF IInv, NothingDangles, TypeOK
  <1> QED BY <1>6, <1>7, <1>8, <1>9, <1>10, <1>11 DEF IInv

-----------------------------------------------------------------------------
(* Steps that reject promises *)

\* A step that rejects the promises of S keeps the invariant when it forgets
\* the client only with all its promises, and when a process that is forgotten
\* or whose launch fails is dead or was sent a signal.
LEMMA RejectKeeps ==
  ASSUME IInv, main, main' = main, NEW g \in Gens, NEW S \in SUBSET pending[g],
         RejectPromises(g, S),
         proc' = proc,
         runtime' = runtime \/ (runtime = g /\ runtime' = None),
         runtime' # runtime => S = pending[g],
         Initialize \in S \/ runtime' # runtime => g \in signalled' \/ Dead(g),
         signalled \subseteq signalled', signalled' \subseteq Gens,
         exitSeen' = exitSeen \/
           /\ exitSeen' = exitSeen \cup {g}
           /\ Dead(g) /\ S = pending[g] /\ runtime' # g,
         closing' \in [Gens -> {"no", "asking", "waiting", "closed"}],
         \A h \in Gens : closing'[h] = "no" => closing[h] = "no",
         ended' \subseteq Gens,
         inbox' \in [Gens -> Seq(Ids)],
         outbox' \in [Gens -> Seq(Ids)]
  PROVE  IInv'
  <1>1. /\ pending' = [pending EXCEPT ![g] = @ \ S]
        /\ req' = [r \in Reqs |->
                     IF r \in S \/ (Initialize \in S /\ req[r] = "launching")
                       THEN "failed" ELSE req[r]]
        /\ starting' = IF Initialize \in S THEN NotStarting ELSE starting
    BY DEF RejectPromises
  <1>2. /\ pending' \in [Gens -> SUBSET Ids]
        /\ \A h \in Gens : h # g => pending'[h] = pending[h]
        /\ pending'[g] = pending[g] \ S
    BY <1>1 DEF IInv, TypeOK
  <1>3. /\ req' \in [Reqs -> {"new", "launching", "sent", "answered", "failed"}]
        /\ \A r \in Reqs :
             req'[r] = "failed" \/ (req'[r] = req[r] /\ r \notin S)
        /\ Initialize \in S => \A r \in Reqs : req'[r] # "launching"
    <2>1. req \in [Reqs -> {"new", "launching", "sent", "answered", "failed"}]
      BY DEF IInv, TypeOK
    <2> QED BY <1>1, <2>1
  <1>4. \/ Initialize \in S /\ starting.at = "init" /\ starting.gen = g
           /\ starting' = NotStarting
        \/ Initialize \notin S /\ starting' = starting
    BY <1>1 DEF IInv, LaunchConsistent
  <1>5. TypeOK'
    <2>1. runtime' \in Gens \cup {None} /\ exitSeen' \subseteq Gens
      BY DEF IInv, TypeOK
    <2>2. starting' \in [gen : Gens \cup {None}, at : {"none", "spawn", "init"}]
      BY <1>4 DEF IInv, TypeOK, NotStarting
    <2> QED BY <1>2, <1>3, <2>1, <2>2 DEF IInv, TypeOK
  <1>6. LaunchConsistent'
    <2>1. starting'.gen = None <=> starting'.at = "none"
      BY <1>4 DEF IInv, LaunchConsistent, NotStarting
    <2>2. starting'.at = "spawn" => runtime' = None
      BY <1>4 DEF IInv, LaunchConsistent, NotStarting
    <2>3. starting'.at = "init" /\ runtime' # starting'.gen =>
            runtime' = None /\ closing'[starting'.gen] # "no"
      <3> SUFFICES ASSUME starting'.at = "init", runtime' # starting'.gen
                   PROVE  runtime' = None /\ closing'[starting'.gen] # "no"
        OBVIOUS
      <3>1. Initialize \notin S /\ starting' = starting
        BY <1>4 DEF NotStarting
      <3>2. starting.gen \in Gens /\ Initialize \in pending[starting.gen]
        BY <3>1 DEF IInv, LaunchConsistent, TypeOK
      <3>3. runtime # starting.gen
        BY <3>1, <3>2
      <3> QED BY <3>1, <3>2, <3>3 DEF IInv, LaunchConsistent
    <2>4. \A h \in Gens : proc'[h] = "spawning" <=>
                           starting'.at = "spawn" /\ starting'.gen = h
      BY <1>4 DEF IInv, LaunchConsistent, NotStarting
    <2>5. \A h \in Gens : Initialize \in pending'[h] <=>
                           starting'.at = "init" /\ starting'.gen = h
      <3>1. CASE Initialize \in S
        <4>1. starting'.at # "init" /\ starting.gen = g
          BY <1>4, <3>1 DEF NotStarting
        <4>2. \A h \in Gens : h # g => Initialize \notin pending[h]
          BY <4>1 DEF IInv, LaunchConsistent
        <4> QED BY <1>2, <3>1, <4>1, <4>2
      <3>2. CASE Initialize \notin S
        BY <1>2, <1>4, <3>2 DEF IInv, LaunchConsistent
      <3> QED BY <3>1, <3>2
    <2> QED BY <2>1, <2>2, <2>3, <2>4, <2>5 DEF LaunchConsistent
  <1>7. ProcessConsistent'
    <2>1. \A h \in Gens :
            proc'[h] \in {"unborn", "spawning"} => pending'[h] = {}
      BY <1>2 DEF IInv, ProcessConsistent
    <2> QED BY <2>1 DEF IInv, ProcessConsistent, Dead
  <1>8. BornInOrder'
    BY BornStays DEF IInv
  <1>9. OneRuntime'
    <2>1. Owned' \subseteq Owned
      BY DEF IInv, TypeOK, Owned, Alive
    <2>2. Initialize \in S \/ runtime' # runtime => g \notin Owned'
      <3>1. g \in Owned' => ~Dead(g) /\ g \notin signalled'
        BY DEF Owned, Alive, Dead
      <3> QED BY <3>1
    <2>3. Owned' \subseteq {runtime', starting'.gen}
      BY <1>4, <2>1, <2>2 DEF IInv, OneRuntime
    <2>4. runtime' # None /\ starting'.gen # None => runtime' = starting'.gen
      BY <1>4 DEF IInv, OneRuntime, NotStarting
    <2> QED BY <2>3, <2>4 DEF OneRuntime
  <1>10. NothingDangles'
    <2>1. \A h \in exitSeen' : pending'[h] = {} /\ runtime' # h
      <3> SUFFICES ASSUME NEW h \in exitSeen'
                   PROVE  pending'[h] = {} /\ runtime' # h
        OBVIOUS
      <3>1. h \in Gens /\ h # None
        BY RT DEF IInv, TypeOK
      <3>2. CASE h \in exitSeen
        <4>1. pending[h] = {} /\ runtime # h
          BY <3>2 DEF IInv, NothingDangles
        <4> QED BY <1>2, <3>1, <4>1
      <3>3. CASE h \notin exitSeen
        <4>1. h = g /\ S = pending[g] /\ runtime' # g
          BY <3>3
        <4> QED BY <1>2, <4>1
      <3> QED BY <3>2, <3>3
    <2>2. \A r \in Reqs : req'[r] = "sent" => \E h \in Gens : r \in pending'[h]
      <3> SUFFICES ASSUME NEW r \in Reqs, req'[r] = "sent"
                   PROVE  \E h \in Gens : r \in pending'[h]
        OBVIOUS
      <3>1. req[r] = "sent" /\ r \notin S
        BY <1>3
      <3>2. PICK h \in Gens : r \in pending[h]
        BY <3>1 DEF IInv, NothingDangles
      <3> QED BY <1>2, <3>1, <3>2
    <2>3. \A r \in Reqs : req'[r] = "launching" => starting' # NotStarting
      BY <1>3, <1>4 DEF IInv, NothingDangles
    <2> QED BY <2>1, <2>2, <2>3 DEF NothingDangles, NotStarting
  <1> QED BY <1>5, <1>6, <1>7, <1>8, <1>9, <1>10 DEF IInv

\* A process that kill() leaves alone is dead.
LEMMA KillEffect ==
  ASSUME TypeOK, NEW g \in Gens, Kill(g)
  PROVE  /\ signalled \subseteq signalled' /\ signalled' \subseteq Gens
         /\ g \in signalled' \/ Dead(g)
  BY DEF TypeOK, Kill, HasExitCode, Dead

\* close() only goes forward.
LEMMA CloseEffect ==
  ASSUME TypeOK, NEW g \in Gens, NEW S, CloseGoesOn(g, S)
  PROVE  /\ closing' \in [Gens -> {"no", "asking", "waiting", "closed"}]
         /\ \A h \in Gens : closing'[h] = "no" => closing[h] = "no"
         /\ ended' \subseteq Gens
  BY DEF TypeOK, CloseGoesOn

\* A runtime is given up with everything pending on it.
LEMMA TerminateStep ==
  ASSUME IInv, main, main' = main, NEW g \in Gens, Terminate(g)
  PROVE  IInv'
  <1>1. /\ RejectPromises(g, pending[g])
        /\ CloseGoesOn(g, pending[g])
        /\ Kill(g)
        /\ runtime' = runtime \/ (runtime = g /\ runtime' = None)
        /\ proc' = proc /\ exitSeen' = exitSeen
        /\ inbox' = inbox /\ outbox' = outbox
    BY DEF Terminate, Reject, Forget
  <1>2. /\ closing' \in [Gens -> {"no", "asking", "waiting", "closed"}]
        /\ \A h \in Gens : closing'[h] = "no" => closing[h] = "no"
        /\ ended' \subseteq Gens
    BY <1>1, CloseEffect DEF IInv
  <1>3. /\ signalled \subseteq signalled' /\ signalled' \subseteq Gens
        /\ g \in signalled' \/ Dead(g)
    BY <1>1, KillEffect DEF IInv
  <1>4. inbox' \in [Gens -> Seq(Ids)] /\ outbox' \in [Gens -> Seq(Ids)]
    BY <1>1 DEF IInv, TypeOK
  <1>5. pending[g] \in SUBSET pending[g]
    OBVIOUS
  <1> QED BY <1>1, <1>2, <1>3, <1>4, <1>5, RejectKeeps

\* Promises other than that of the initialization are rejected.
LEMMA RejectStep ==
  ASSUME IInv, main, main' = main,
         NEW g \in Gens, NEW id \in pending[g], id # Initialize,
         Reject(g, {id}),
         UNCHANGED <<runtime, proc, signalled, exitSeen>>,
         inbox' \in [Gens -> Seq(Ids)], outbox' \in [Gens -> Seq(Ids)]
  PROVE  IInv'
  <1>1. RejectPromises(g, {id}) /\ CloseGoesOn(g, {id})
    BY DEF Reject
  <1>2. /\ closing' \in [Gens -> {"no", "asking", "waiting", "closed"}]
        /\ \A h \in Gens : closing'[h] = "no" => closing[h] = "no"
        /\ ended' \subseteq Gens
    BY <1>1, CloseEffect DEF IInv
  <1>3. Initialize \notin {id} /\ {id} \in SUBSET pending[g]
    OBVIOUS
  <1>4. signalled \subseteq signalled' /\ signalled' \subseteq Gens
    BY DEF IInv, TypeOK
  <1> QED BY <1>1, <1>2, <1>3, <1>4, RejectKeeps

\* The exit event rejects all that is pending; the client is forgotten.
LEMMA ExitEventStep ==
  ASSUME IInv, main, main' = main, NEW g \in Gens, ExitEvent(g)
  PROVE  IInv'
  <1>1. /\ Dead(g)
        /\ RejectPromises(g, pending[g])
        /\ runtime' = runtime \/ (runtime = g /\ runtime' = None)
        /\ exitSeen' = exitSeen \cup {g}
        /\ proc' = proc /\ signalled' = signalled
        /\ inbox' = inbox /\ outbox' = outbox
    BY DEF ExitEvent, Forget
  <1>2. runtime' # g
    BY RT DEF ExitEvent, Forget
  <1>3. /\ closing' \in [Gens -> {"no", "asking", "waiting", "closed"}]
        /\ \A h \in Gens : closing'[h] = "no" => closing[h] = "no"
        /\ ended' \subseteq Gens
    <2>1. CASE closing[g] = "waiting"
      BY <2>1 DEF ExitEvent, IInv, TypeOK
    <2>2. CASE closing[g] # "waiting"
      <3>1. CloseGoesOn(g, pending[g])
        BY <2>2 DEF ExitEvent
      <3> QED BY <3>1, CloseEffect DEF IInv
    <2> QED BY <2>1, <2>2
  <1>4. inbox' \in [Gens -> Seq(Ids)] /\ outbox' \in [Gens -> Seq(Ids)]
    BY <1>1 DEF IInv, TypeOK
  <1>5. signalled \subseteq signalled' /\ signalled' \subseteq Gens
    BY <1>1 DEF IInv, TypeOK
  <1>6. pending[g] \in SUBSET pending[g]
    OBVIOUS
  <1> QED BY <1>1, <1>2, <1>3, <1>4, <1>5, <1>6, RejectKeeps

-----------------------------------------------------------------------------
(* Steps of the other callbacks *)

\* The launch is over: those who waited for it are written to the process.
LEMMA InitializedStep ==
  ASSUME IInv, main, main' = main,
         NEW g \in Gens, Initialize \in pending[g], Initialized(g),
         outbox' \in [Gens -> Seq(Ids)]
  PROVE  IInv'
  <1> DEFINE waiting == {r \in Reqs : req[r] = "launching"}
  <1>1. PICK s \in [1 .. Cardinality(waiting) -> waiting] :
          ToSet(s) = waiting /\ Write(g, s, {Initialize})
    BY DEF Initialized
  <1>2. /\ starting' = NotStarting
        /\ UNCHANGED <<runtime, proc, signalled, exitSeen, closing, ended>>
    BY DEF Initialized
  <1>3. starting.at = "init" /\ starting.gen = g
    BY DEF IInv, LaunchConsistent
  <1>4. s \in Seq(Reqs)
    <2>1. Cardinality(waiting) \in Nat
      <3>1. IsFiniteSet(waiting)
        <4>1. waiting \in SUBSET Reqs /\ IsFiniteSet(Reqs)
          BY RuntimeAssumption DEF RuntimeAssumption
        <4> QED BY <4>1, FS_Subset
      <3> QED BY <3>1, FS_CardinalityType
    <2>2. s \in [1 .. Cardinality(waiting) -> Reqs]
      OBVIOUS
    <2> QED BY <2>1, <2>2, RangeOfList
  <1>5. Written(g, waiting, {Initialize})
    <2>1. TypeOK /\ {Initialize} \in SUBSET Ids /\ ToSet(s) \subseteq Reqs
      BY <1>1 DEF IInv, Ids
    <2>2. Written(g, ToSet(s), {Initialize})
      BY <1>1, <1>4, <2>1, WriteEffect
    <2> QED BY <1>1, <2>2
  <1>6. /\ pending' \in [Gens -> SUBSET Ids]
        /\ \A h \in Gens : h # g => pending'[h] = pending[h]
        /\ pending'[g] \subseteq (pending[g] \ {Initialize}) \cup waiting
        /\ pending[g] \ {Initialize} \subseteq pending'[g]
        /\ g \in exitSeen => pending'[g] = pending[g] \ {Initialize}
        /\ inbox' \in [Gens -> Seq(Ids)]
    BY <1>5 DEF Written
  <1>7. /\ req' \in [Reqs -> {"new", "launching", "sent", "answered", "failed"}]
        /\ \A r \in waiting : req'[r] = "failed" \/
                              (req'[r] = "sent" /\ r \in pending'[g])
        /\ \A r \in Reqs \ waiting : req'[r] = req[r] /\ req[r] # "launching"
    BY <1>5 DEF Written
  <1>8. TypeOK'
    BY <1>2, <1>6, <1>7 DEF IInv, TypeOK, NotStarting
  <1>9. LaunchConsistent'
    <2>1. Initialize \notin waiting
      BY RT
    <2>2. \A h \in Gens : proc[h] # "spawning" /\ Initialize \notin pending'[h]
      BY <1>3, <1>6, <2>1 DEF IInv, LaunchConsistent
    <2>3. starting'.at = "none" /\ starting'.gen = None
      BY <1>2 DEF NotStarting
    <2> QED BY <1>2, <2>2, <2>3 DEF LaunchConsistent
  <1>10. ProcessConsistent'
    <2>1. proc[g] \notin {"unborn", "spawning"}
      BY DEF IInv, ProcessConsistent
    <2> QED BY <1>2, <1>6, <2>1 DEF IInv, ProcessConsistent, Dead
  <1>11. BornInOrder'
    BY <1>2, BornStays DEF IInv
  <1>12. OneRuntime'
    <2>1. Owned' = Owned
      BY <1>2 DEF Owned, Alive
    <2>2. Owned \subseteq {runtime, g}
      BY <1>3 DEF IInv, OneRuntime
    <2>3. runtime # g => g \notin Owned
      BY <1>3 DEF IInv, LaunchConsistent, Owned
    <2>4. starting'.gen = None
      BY <1>2 DEF NotStarting
    <2> QED BY <1>2, <2>1, <2>2, <2>3, <2>4 DEF OneRuntime
  <1>13. NothingDangles'
    <2>1. g \notin exitSeen
      BY DEF IInv, NothingDangles
    <2>2. \A h \in exitSeen' : pending'[h] = {} /\ runtime' # h
      BY <1>2, <1>6, <2>1 DEF IInv, NothingDangles, TypeOK
    <2>3. \A r \in Reqs : req'[r] = "sent" => \E h \in Gens : r \in pending'[h]
      <3> SUFFICES ASSUME NEW r \in Reqs, req'[r] = "sent"
                   PROVE  \E h \in Gens : r \in pending'[h]
        OBVIOUS
      <3>1. CASE r \in waiting
        BY <1>7, <3>1
      <3>2. CASE r \notin waiting
        <4>1. PICK h \in Gens : r \in pending[h]
          BY <1>7, <3>2 DEF IInv, NothingDangles
        <4> QED BY <1>6, <4>1, RT
      <3> QED BY <3>1, <3>2
    <2>4. \A r \in Reqs : req'[r] # "launching"
      BY <1>7
    <2> QED BY <2>2, <2>3, <2>4 DEF NothingDangles
  <1> QED BY <1>8, <1>9, <1>10, <1>11, <1>12, <1>13 DEF IInv

\* An answer, or a line nobody waits for, is read.
LEMMA ReadAnswerStep ==
  ASSUME IInv, main, main' = main, NEW g \in Gens, ReadAnswer(g)
  PROVE  IInv'
  <1> DEFINE id == Head(outbox[g])
  <1>1. outbox' \in [Gens -> Seq(Ids)]
    <2>1. outbox' = [outbox EXCEPT ![g] = Tail(@)]
      BY DEF ReadAnswer
    <2>2. outbox[g] \in Seq(Ids) /\ outbox[g] # << >>
      BY DEF ReadAnswer, IInv, TypeOK
    <2>3. Tail(outbox[g]) \in Seq(Ids)
      BY <2>2
    <2> QED BY <2>1, <2>3 DEF IInv, TypeOK
  <1>2. inbox \in [Gens -> Seq(Ids)]
    BY DEF IInv, TypeOK
  <1>3. CASE ~Awaited(g, id)
    <2>1. UNCHANGED <<runtime, starting, proc, signalled, exitSeen, closing,
                      pending, ended, inbox, req>>
      BY <1>3 DEF ReadAnswer
    <2>2. TypeOK'
      BY <1>1, <2>1 DEF IInv, TypeOK
    <2>3. LaunchConsistent' /\ ProcessConsistent' /\ OneRuntime'
      BY <2>1 DEF IInv, LaunchConsistent, ProcessConsistent, Dead,
        OneRuntime, Owned, Alive
    <2>4. BornInOrder'
      BY <2>1, BornStays DEF IInv
    <2>5. NothingDangles'
      BY <2>1 DEF IInv, NothingDangles, NotStarting
    <2> QED BY <2>2, <2>3, <2>4, <2>5 DEF IInv
  <1>4. CASE Awaited(g, id) /\ id \in Reqs
    <2>1. /\ pending' = [pending EXCEPT ![g] = @ \ {id}]
          /\ req' = [req EXCEPT ![id] = "answered"]
          /\ UNCHANGED <<runtime, starting, proc, signalled, exitSeen, closing,
                         ended, inbox>>
      BY <1>4, RT DEF ReadAnswer, Awaited
    <2> HIDE DEF id
    <2>2. TypeOK'
      BY <1>1, <1>4, <2>1 DEF IInv, TypeOK
    <2>3. /\ \A h \in Gens : h # g => pending'[h] = pending[h]
          /\ pending'[g] = pending[g] \ {id}
          /\ req'[id] = "answered"
          /\ \A r \in Reqs : r # id => req'[r] = req[r]
      BY <1>4, <2>1 DEF IInv, TypeOK
    <2>4. id # Initialize
      BY <1>4, RT
    <2>5. LaunchConsistent'
      BY <2>1, <2>3, <2>4 DEF IInv, LaunchConsistent
    <2>6. ProcessConsistent'
      BY <2>1, <2>3 DEF IInv, ProcessConsistent, Dead
    <2>7. BornInOrder'
      BY <2>1, BornStays DEF IInv
    <2>8. OneRuntime'
      BY <2>1 DEF IInv, OneRuntime, Owned, Alive
    <2>9. NothingDangles'
      <3>1. \A h \in exitSeen' : pending'[h] = {} /\ runtime' # h
        BY <2>1, <2>3 DEF IInv, NothingDangles, TypeOK
      <3>2. \A r \in Reqs :
              req'[r] = "sent" => \E h \in Gens : r \in pending'[h]
        <4> SUFFICES ASSUME NEW r \in Reqs, req'[r] = "sent"
                     PROVE  \E h \in Gens : r \in pending'[h]
          OBVIOUS
        <4>1. r # id /\ req[r] = "sent"
          BY <2>3
        <4>2. PICK h \in Gens : r \in pending[h]
          BY <4>1 DEF IInv, NothingDangles
        <4> QED BY <2>3, <4>1, <4>2
      <3>3. \A r \in Reqs : req'[r] = "launching" => starting' # NotStarting
        <4> SUFFICES ASSUME NEW r \in Reqs, req'[r] = "launching"
                     PROVE  starting' # NotStarting
          OBVIOUS
        <4>1. req[r] = "launching"
          BY <2>3
        <4> QED BY <2>1, <4>1 DEF IInv, NothingDangles
      <3> QED BY <3>1, <3>2, <3>3 DEF NothingDangles, NotStarting
    <2> QED BY <2>2, <2>5, <2>6, <2>7, <2>8, <2>9 DEF IInv
  <1>5. CASE Awaited(g, id) /\ id = Initialize
    <2>1. Initialized(g) /\ Initialize \in pending[g]
      BY <1>5, RT DEF ReadAnswer, Awaited
    <2> QED BY <1>1, <2>1, InitializedStep
  <1>6. CASE Awaited(g, id) /\ id = Shutdown
    <2>1. /\ Reject(g, {Shutdown})
          /\ UNCHANGED <<runtime, proc, signalled, exitSeen, inbox>>
          /\ Shutdown \in pending[g]
      BY <1>6, RT DEF ReadAnswer, Awaited
    <2> QED BY <1>1, <1>2, <2>1, RejectStep, RT
  <1>7. ~Awaited(g, id) \/ id \in Reqs \/ id = Initialize \/ id = Shutdown
    BY DEF ReadAnswer
  <1> QED BY <1>3, <1>4, <1>5, <1>6, <1>7

\* The runtime in use is told to shut down and forgotten at once.
LEMMA StopStep == ASSUME IInv, main, main' = main, Stop PROVE IInv'
  <1>1. CASE runtime = None
    <2>1. UNCHANGED vars
      BY <1>1 DEF Stop, vars, known
    <2> QED BY <2>1 DEF vars, known, IInv, TypeOK, LaunchConsistent,
          ProcessConsistent, Dead, BornInOrder, OneRuntime, Owned, Alive,
          NothingDangles, NotStarting
  <1>2. CASE runtime # None
    <2> DEFINE g == runtime
    <2>1. g \in Gens /\ g \notin exitSeen /\ ~HasExitCode(g)
      BY <1>2 DEF IInv, TypeOK, NothingDangles, HasExitCode
    <2>2. /\ runtime' = None
          /\ closing' = [closing EXCEPT ![g] = "asking"]
          /\ pending' = [pending EXCEPT ![g] = @ \cup {Shutdown}]
          /\ inbox' = [inbox EXCEPT ![g] = Append(@, Shutdown)]
          /\ UNCHANGED <<starting, proc, signalled, exitSeen, ended, outbox,
                         req>>
      BY <1>2, <2>1 DEF Stop
    <2>3. inbox' \in [Gens -> Seq(Ids)]
      <3>1. inbox[g] \in Seq(Ids) /\ Shutdown \in Ids
        BY <2>1 DEF IInv, TypeOK, Ids
      <3>2. Append(inbox[g], Shutdown) \in Seq(Ids)
        BY <3>1
      <3> QED BY <2>1, <2>2, <3>2 DEF IInv, TypeOK
    <2>4. /\ pending' \in [Gens -> SUBSET Ids]
          /\ \A h \in Gens : h # g => pending'[h] = pending[h]
          /\ pending'[g] = pending[g] \cup {Shutdown}
          /\ closing' \in [Gens -> {"no", "asking", "waiting", "closed"}]
          /\ closing'[g] = "asking"
          /\ \A h \in Gens : h # g => closing'[h] = closing[h]
      BY <2>1, <2>2 DEF IInv, TypeOK, Ids
    <2>5. starting.gen # None => starting.gen = g /\ starting.at = "init"
      BY <1>2 DEF IInv, OneRuntime, LaunchConsistent, TypeOK
    <2>6. TypeOK'
      BY <2>2, <2>3, <2>4 DEF IInv, TypeOK
    <2>7. LaunchConsistent'
      BY <1>2, <2>2, <2>4, <2>5, RT DEF IInv, LaunchConsistent
    <2>8. ProcessConsistent'
      BY <1>2, <2>2, <2>4 DEF IInv, ProcessConsistent, Dead
    <2>9. BornInOrder'
      BY <2>2, BornStays DEF IInv
    <2>10. OneRuntime'
      <3>1. Owned' \subseteq Owned \ {g}
        BY <2>2, <2>4 DEF Owned, Alive
      <3> QED BY <2>2, <3>1 DEF IInv, OneRuntime
    <2>11. NothingDangles'
      <3>1. \A h \in exitSeen' : pending'[h] = {} /\ runtime' # h
        BY <2>1, <2>2, <2>4, RT DEF IInv, NothingDangles, TypeOK
      <3>2. \A r \in Reqs :
              req'[r] = "sent" => \E h \in Gens : r \in pending'[h]
        BY <2>2, <2>4 DEF IInv, NothingDangles
      <3> QED BY <2>2, <3>1, <3>2 DEF IInv, NothingDangles, NotStarting
    <2> QED BY <2>6, <2>7, <2>8, <2>9, <2>10, <2>11 DEF IInv
  <1> QED BY <1>1, <1>2

\* close() loses patience.
LEMMA CloseTimerStep ==
  ASSUME IInv, main, main' = main, NEW g \in Gens, CloseTimer(g)
  PROVE  IInv'
  <1>1. /\ Kill(g)
        /\ UNCHANGED <<runtime, starting, proc, exitSeen, closing, pending,
                       ended, inbox, outbox, req>>
    BY DEF CloseTimer
  <1>2. signalled \subseteq signalled' /\ signalled' \subseteq Gens
    BY <1>1, KillEffect DEF IInv
  <1>3. TypeOK'
    BY <1>1, <1>2 DEF IInv, TypeOK
  <1>4. LaunchConsistent' /\ ProcessConsistent' /\ NothingDangles'
    BY <1>1 DEF IInv, LaunchConsistent, ProcessConsistent, Dead, NothingDangles,
      NotStarting
  <1>5. BornInOrder'
    BY <1>1, BornStays DEF IInv
  <1>6. OneRuntime'
    <2>1. Owned' \subseteq Owned
      BY <1>1, <1>2 DEF Owned, Alive
    <2> QED BY <1>1, <2>1 DEF IInv, OneRuntime
  <1> QED BY <1>3, <1>4, <1>5, <1>6 DEF IInv

\* A process that was up, or whose spawn event main did not live to see, goes
\* on or ends; main sees nothing of it yet.
LEMMA ProcessMoves ==
  ASSUME IInv, main' = main,
         NEW g \in Gens, Alive(g) \/ (proc[g] = "spawning" /\ ~main),
         NEW how \in {"up", "leaving", "returned", "killed"},
         proc' = [proc EXCEPT ![g] = how],
         UNCHANGED <<runtime, starting, signalled, exitSeen, closing, pending,
                     ended, req>>,
         inbox' \in [Gens -> Seq(Ids)], outbox' \in [Gens -> Seq(Ids)]
  PROVE  IInv'
  <1>1. /\ proc' \in [Gens -> {"unborn", "spawning", "up", "leaving",
                               "returned", "killed"}]
        /\ proc[g] \in {"spawning", "up", "leaving"} /\ proc'[g] = how
        /\ main => proc[g] # "spawning"
        /\ \A h \in Gens : h # g => proc'[h] = proc[h]
    BY DEF IInv, TypeOK, Alive
  <1>2. TypeOK'
    BY <1>1 DEF IInv, TypeOK
  <1>3. LaunchConsistent'
    BY <1>1 DEF IInv, LaunchConsistent
  <1>4. ProcessConsistent'
    BY <1>1 DEF IInv, ProcessConsistent, Dead, TypeOK
  <1>5. BornInOrder'
    BY <1>1, BornStays DEF IInv
  <1>6. OneRuntime'
    <2>1. Owned' \subseteq Owned
      BY <1>1 DEF Owned, Alive
    <2> QED BY <2>1 DEF IInv, OneRuntime
  <1>7. NothingDangles'
    BY DEF IInv, NothingDangles, NotStarting
  <1> QED BY <1>2, <1>3, <1>4, <1>5, <1>6, <1>7 DEF IInv

\* The server answers a request.
LEMMA ServeStep ==
  ASSUME IInv, main' = main, NEW g \in Gens, Serve(g)
  PROVE  IInv'
  <1> DEFINE how == IF Head(inbox[g]) = Shutdown THEN "leaving" ELSE "up"
  <1>1. /\ inbox[g] \in Seq(Ids) /\ inbox[g] # << >>
        /\ outbox[g] \in Seq(Ids) /\ proc[g] = "up"
    BY DEF Serve, IInv, TypeOK
  <1>2. Head(inbox[g]) \in Ids /\ Tail(inbox[g]) \in Seq(Ids)
    BY <1>1
  <1>3. Append(outbox[g], Head(inbox[g])) \in Seq(Ids)
    BY <1>1, <1>2
  <1>4. inbox' \in [Gens -> Seq(Ids)]
    <2>1. inbox' = [inbox EXCEPT ![g] = Tail(@)]
      BY DEF Serve
    <2> QED BY <1>2, <2>1 DEF IInv, TypeOK
  <1>5. outbox' \in [Gens -> Seq(Ids)]
    <2>1. outbox' = [outbox EXCEPT ![g] = Append(@, Head(inbox[g]))]
      BY DEF Serve
    <2> QED BY <1>3, <2>1 DEF IInv, TypeOK
  <1>6. proc' = [proc EXCEPT ![g] = how]
    BY <1>1 DEF Serve, IInv, TypeOK
  <1>7. /\ UNCHANGED <<runtime, starting, signalled, exitSeen, closing,
                       pending, ended, req>>
        /\ Alive(g) /\ how \in {"up", "leaving", "returned", "killed"}
    BY <1>1 DEF Serve, Alive, known
  <1> QED BY <1>4, <1>5, <1>6, <1>7, ProcessMoves

\* A process ends, by itself or by a signal.
LEMMA DiesStep ==
  ASSUME IInv, main' = main,
         NEW g \in Gens, Alive(g) \/ (proc[g] = "spawning" /\ ~main),
         NEW how \in {"returned", "killed"}, Dies(g, how)
  PROVE  IInv'
  <1>1. inbox' \in [Gens -> Seq(Ids)] /\ outbox' \in [Gens -> Seq(Ids)]
    BY DEF Dies, IInv, TypeOK
  <1> QED BY <1>1, ProcessMoves DEF Dies, known

\* The main process ends: nothing else changes.
LEMMA MainEndsStep == ASSUME IInv, MainEnds PROVE IInv'
  BY DEF MainEnds, known, IInv, TypeOK, LaunchConsistent, ProcessConsistent,
    Dead, BornInOrder, OneRuntime, Owned, Alive, NothingDangles, NotStarting

\* The callbacks of the main process.
LEMMA MainInv == ASSUME IInv, main, main' = main, MainStep PROVE IInv'
  <1> USE RT
  <1>1. ASSUME NEW r \in Reqs, Ask(r) PROVE IInv'
    BY <1>1, AskRuntime, AskLaunch
  <1>2. CASE Spawned \/ SpawnFails \/ Stop
    BY <1>2, SpawnedStep, SpawnFailsStep, StopStep
  <1>3. ASSUME NEW g \in Gens, ReadAnswer(g) \/ ExitEvent(g) PROVE IInv'
    BY <1>3, ReadAnswerStep, ExitEventStep
  <1>4. ASSUME NEW g \in Gens, Timer(g) PROVE IInv'
    <2>1. CASE InitializeFails(g)
      BY <2>1, TerminateStep DEF InitializeFails
    <2>2. CASE ShutdownTimesOut(g)
      <3>1. inbox' \in [Gens -> Seq(Ids)] /\ outbox' \in [Gens -> Seq(Ids)]
        BY <2>2 DEF ShutdownTimesOut, IInv, TypeOK
      <3> QED BY <2>2, <3>1, RejectStep DEF ShutdownTimesOut
    <2>3. CASE CloseTimer(g)
      BY <2>3, CloseTimerStep
    <2>4. ASSUME NEW r \in Reqs, TimesOut(g, r) PROVE IInv'
      <3>1. CASE runtime = g
        BY <2>4, <3>1, TerminateStep DEF TimesOut
      <3>2. CASE runtime # g
        <4>1. inbox' \in [Gens -> Seq(Ids)] /\ outbox' \in [Gens -> Seq(Ids)]
          BY <2>4, <3>2 DEF TimesOut, IInv, TypeOK
        <4> QED BY <2>4, <3>2, <4>1, RejectStep DEF TimesOut
      <3> QED BY <3>1, <3>2
    <2> QED BY <1>4, <2>1, <2>2, <2>3, <2>4 DEF Timer
  <1>5. ASSUME NEW g \in Gens, NEW r \in Reqs, WriteFails(g, r) PROVE IInv'
    <2>1. inbox' \in [Gens -> Seq(Ids)] /\ outbox' \in [Gens -> Seq(Ids)]
      BY <1>5 DEF WriteFails, IInv, TypeOK
    <2> QED BY <1>5, <2>1, RejectStep DEF WriteFails
  <1> QED BY <1>1, <1>2, <1>3, <1>4, <1>5 DEF MainStep

LEMMA NextInv == IInv /\ [Next]_vars => IInv'
  <1> SUFFICES ASSUME IInv, [Next]_vars PROVE IInv'
    OBVIOUS
  <1>1. CASE Lives /\ MainStep
    BY <1>1, MainInv DEF Lives
  <1>2. ASSUME main' = main, NEW g \in Gens, ProcessStep(g) PROVE IInv'
    <2>1. CASE Serve(g)
      BY <1>2, <2>1, ServeStep
    <2>2. CASE Leaves(g) \/ KilledBySignal(g) \/ Crashes(g)
      BY <1>2, <2>2, DiesStep DEF Leaves, InputEnds, KilledBySignal, Crashes,
        Alive
    <2> QED BY <1>2, <2>1, <2>2 DEF ProcessStep
  <1>3. CASE MainEnds
    BY <1>3, MainEndsStep
  <1>4. CASE UNCHANGED vars
    BY <1>4 DEF vars, known, IInv, TypeOK, LaunchConsistent, ProcessConsistent,
      Dead, BornInOrder, OneRuntime, Owned, Alive, NothingDangles, NotStarting
  <1> QED BY <1>1, <1>2, <1>3, <1>4 DEF Next

-----------------------------------------------------------------------------
(* Theorems *)

LEMMA Inductive == Spec => []IInv
  BY InitInv, NextInv, PTL DEF Spec

\* Every variable keeps its type: what is pending, written or read is the id
\* of a request of the renderer or of main's own two.
THEOREM RuntimeTypes == Spec => []TypeOK
  BY Inductive, PTL DEF IInv

\* However launches, timeouts, stops and exits interleave, main keeps one
\* process at most, and every other one has been told to stop.
THEOREM OneRuntimeKept == Spec => []OneRuntime
  BY Inductive, PTL DEF IInv

\* No request is pending on a client whose exit event is past, nor waits for a
\* launch that is over.
THEOREM NothingLeftDangling == Spec => []NothingDangles
  BY Inductive, PTL DEF IInv
=============================================================================
