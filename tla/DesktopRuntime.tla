--------------------------- MODULE DesktopRuntime ---------------------------
(***************************************************************************)
(* The Electron main process and the Python processes it talks to          *)
(* (src/apps/desktop/main.cjs with DevPilotRuntimeClient of                *)
(* src/packages/devpilot-runtime/src/desktopRuntimeClient.cjs): a runtime  *)
(* is spawned when a request needs one, initialized, terminated when a     *)
(* request times out, and closed by "Stop local runtime".  Quitting starts *)
(* the same close and does not wait for it: the main process may end, or   *)
(* crash, at any moment, and its timers end with it.                       *)
(*                                                                         *)
(* The main process is single-threaded JavaScript: a step is a callback    *)
(* with the continuations it resolves.  It learns of the death of a child  *)
(* from its exit event only, which the event loop delivers later, before   *)
(* or after the output the child left.  The Python server reads one        *)
(* request at a time.  A duration is left out: a timer that is set may     *)
(* fire at any moment.  Method names, parameters, runtime events, the tray *)
(* and the windows are left out.                                           *)
(***************************************************************************)
EXTENDS Naturals, Sequences, FiniteSets, SequencesExt

CONSTANTS
  Reqs,      \* the requests the renderer makes
  Untimed,   \* those made with timeoutMs = 0
  MaxGen,    \* bound: processes launched
  None,      \* null
  Initialize, Shutdown  \* the ids of the two requests main makes itself

ASSUME RuntimeAssumption ==
  /\ IsFiniteSet(Reqs) /\ Untimed \subseteq Reqs
  /\ MaxGen \in Nat
  /\ None \notin Nat
  /\ Initialize # Shutdown /\ {Initialize, Shutdown} \cap Reqs = {}

VARIABLES
  main,       \* the main process runs
  runtime,    \* runtimeClient: a process, or None
  starting,   \* runtimeStarting: the process and where its launch awaits
  proc,       \* each process, as the operating system has it
  signalled,  \* processes that were sent SIGTERM
  exitSeen,   \* processes whose exit event was delivered
  closing,    \* where the call of close() for each process stands
  pending,    \* DevPilotRuntimeClient.pending
  ended,      \* processes whose stdin was ended
  inbox,      \* requests written to stdin and not answered yet
  outbox,     \* answers on stdout, not read yet
  req         \* the promise of each request

\* What the main process keeps in memory.
known == <<runtime, starting, signalled, exitSeen, closing, pending, ended,
           req>>

vars == <<main, proc, inbox, outbox, known>>

-----------------------------------------------------------------------------
Gens == 1 .. MaxGen
Ids == Reqs \cup {Initialize, Shutdown}

NotStarting == [gen |-> None, at |-> "none"]

Alive(g) == proc[g] \in {"up", "leaving"}
Dead(g) == proc[g] \in {"returned", "killed"}

\* child.exitCode: stays null when a signal ended the child.
HasExitCode(g) == g \in exitSeen /\ proc[g] = "returned"

\* child.stdin.writable
Writable(g) == g \notin ended /\ g \notin exitSeen

Init ==
  /\ main = TRUE
  /\ runtime = None
  /\ starting = NotStarting
  /\ proc = [g \in Gens |-> "unborn"]
  /\ signalled = {}
  /\ exitSeen = {}
  /\ closing = [g \in Gens |-> "no"]
  /\ pending = [g \in Gens |-> {}]
  /\ ended = {}
  /\ inbox = [g \in Gens |-> << >>]
  /\ outbox = [g \in Gens |-> << >>]
  /\ req = [r \in Reqs |-> "new"]

-----------------------------------------------------------------------------
(* What a callback does to the promises of a client *)

\* request(): the ids in s are written to g's stdin, or all are rejected.
Write(g, s, settled) ==
  LET rejected == HasExitCode(g) \/ ~Writable(g)
      kept     == pending[g] \ settled
  IN
  /\ pending' = [pending EXCEPT ![g] = IF rejected THEN kept
                                       ELSE kept \cup ToSet(s)]
  /\ inbox' = IF rejected THEN inbox ELSE [inbox EXCEPT ![g] = @ \o s]
  /\ req' = [r \in Reqs |-> IF r \notin ToSet(s) THEN req[r]
                            ELSE IF rejected THEN "failed" ELSE "sent"]

\* Seeded fault: who joined a launch does not hear of its failure.
FaultyRejectPromises(g, S) ==
  /\ pending' = [pending EXCEPT ![g] = @ \ S]
  /\ req' = [r \in Reqs |-> IF r \in S THEN "failed" ELSE req[r]]
  /\ starting' = IF Initialize \in S THEN NotStarting ELSE starting

\* The promises of S are rejected; a launch fails for all who wait for it.
RejectPromises(g, S) ==
  /\ pending' = [pending EXCEPT ![g] = @ \ S]
  /\ req' = [r \in Reqs |->
               IF r \in S \/ (Initialize \in S /\ req[r] = "launching")
                 THEN "failed" ELSE req[r]]
  /\ starting' = IF Initialize \in S THEN NotStarting ELSE starting

\* close() goes on after its request: it ends stdin and waits for the exit.
CloseGoesOn(g, S) ==
  /\ closing' = IF Shutdown \in S THEN [closing EXCEPT ![g] = "waiting"]
                ELSE closing
  /\ ended' = IF Shutdown \in S THEN ended \cup {g} ELSE ended

Reject(g, S) == RejectPromises(g, S) /\ CloseGoesOn(g, S)

Forget(g) == runtime' = IF runtime = g THEN None ELSE runtime

\* Seeded fault: the check of the exit code is inverted.
FaultyKill(g) == signalled' = IF HasExitCode(g) THEN signalled \cup {g}
                              ELSE signalled

Kill(g) == signalled' = IF HasExitCode(g) THEN signalled ELSE signalled \cup {g}

\* terminate(), after runtimeClient was cleared.
Terminate(g) ==
  /\ Forget(g)
  /\ Reject(g, pending[g])
  /\ Kill(g)
  /\ UNCHANGED <<proc, exitSeen, inbox, outbox>>

-----------------------------------------------------------------------------
(* The renderer's requests *)

NextGen == Cardinality({g \in Gens : proc[g] # "unborn"}) + 1

\* Seeded fault: every request that finds no client launches a process.
FaultyLaunch(r) ==
  /\ NextGen \in Gens
  /\ starting' = [gen |-> NextGen, at |-> "spawn"]
  /\ proc' = [proc EXCEPT ![NextGen] = "spawning"]
  /\ req' = [req EXCEPT ![r] = "launching"]
  /\ UNCHANGED <<runtime, signalled, exitSeen, closing, pending, ended, inbox,
                 outbox>>

\* launchDesktopRuntime without a client: join the launch in progress or spawn.
Launch(r) ==
  /\ IF starting = NotStarting
       THEN /\ NextGen \in Gens
            /\ starting' = [gen |-> NextGen, at |-> "spawn"]
            /\ proc' = [proc EXCEPT ![NextGen] = "spawning"]
       ELSE UNCHANGED <<starting, proc>>
  /\ req' = [req EXCEPT ![r] = "launching"]
  /\ UNCHANGED <<runtime, signalled, exitSeen, closing, pending, ended, inbox,
                 outbox>>

\* requestRuntime; a request does not wait for an initialization in progress.
Ask(r) ==
  /\ req[r] = "new"
  /\ IF runtime # None /\ ~HasExitCode(runtime)
       THEN /\ Write(runtime, <<r>>, {})
            /\ UNCHANGED <<runtime, starting, proc, signalled, exitSeen,
                           closing, ended, outbox>>
       ELSE Launch(r)

Spawned ==
  LET g == starting.gen IN
  /\ starting.at = "spawn"
  /\ proc' = [proc EXCEPT ![g] = "up"]
  /\ runtime' = g
  /\ starting' = [gen |-> g, at |-> "init"]
  /\ pending' = [pending EXCEPT ![g] = {Initialize}]
  /\ inbox' = [inbox EXCEPT ![g] = <<Initialize>>]
  /\ UNCHANGED <<signalled, exitSeen, closing, ended, outbox, req>>

SpawnFails ==
  /\ starting.at = "spawn"
  /\ proc' = [proc EXCEPT ![starting.gen] = "returned"]
  /\ exitSeen' = exitSeen \cup {starting.gen}
  /\ starting' = NotStarting
  /\ req' = [r \in Reqs |-> IF req[r] = "launching" THEN "failed" ELSE req[r]]
  /\ UNCHANGED <<runtime, signalled, closing, pending, ended, inbox, outbox>>

\* The runtime is initialized: the requests that waited for it are written, in
\* the order in which they came, which is not recorded.
Initialized(g) ==
  LET waiting == {r \in Reqs : req[r] = "launching"} IN
  /\ \E s \in [1 .. Cardinality(waiting) -> waiting] :
       ToSet(s) = waiting /\ Write(g, s, {Initialize})
  /\ starting' = NotStarting
  /\ UNCHANGED <<runtime, proc, signalled, exitSeen, closing, ended>>

Awaited(g, id) == id \in pending[g]

\* _readStdout: an answer nobody waits for is dropped.
ReadAnswer(g) ==
  /\ outbox[g] # << >>
  /\ outbox' = [outbox EXCEPT ![g] = Tail(@)]
  /\ LET id == Head(outbox[g]) IN
     \/ /\ ~Awaited(g, id)
        /\ UNCHANGED <<runtime, starting, proc, signalled, exitSeen, closing,
                       pending, ended, inbox, req>>
     \/ /\ Awaited(g, id) /\ id \in Reqs
        /\ pending' = [pending EXCEPT ![g] = @ \ {id}]
        /\ req' = [req EXCEPT ![id] = "answered"]
        /\ UNCHANGED <<runtime, starting, proc, signalled, exitSeen, closing,
                       ended, inbox>>
     \/ /\ Awaited(g, id) /\ id = Initialize
        /\ Initialized(g)
     \/ /\ Awaited(g, id) /\ id = Shutdown
        /\ Reject(g, {Shutdown})
        /\ UNCHANGED <<runtime, proc, signalled, exitSeen, inbox>>

-----------------------------------------------------------------------------
(* Timers *)

\* A request times out: the runtime that is in use is terminated with it.
TimesOut(g, r) ==
  /\ r \in pending[g] \ Untimed
  /\ IF runtime = g THEN Terminate(g)
     ELSE /\ Reject(g, {r})
          /\ UNCHANGED <<runtime, proc, signalled, exitSeen, inbox, outbox>>

\* The initialization times out or is answered with an error.
InitializeFails(g) ==
  /\ Initialize \in pending[g]
  /\ Terminate(g)

ShutdownTimesOut(g) ==
  /\ Shutdown \in pending[g]
  /\ Reject(g, {Shutdown})
  /\ UNCHANGED <<runtime, proc, signalled, exitSeen, inbox, outbox>>

\* close() kills a child that has no exit code one second after its stdin
\* was ended.
CloseTimer(g) ==
  /\ closing[g] = "waiting"
  /\ Kill(g)
  /\ UNCHANGED <<runtime, starting, proc, exitSeen, closing, pending, ended,
                 inbox, outbox, req>>

-----------------------------------------------------------------------------
\* stopDesktopRuntime; without a client it does nothing, also when one is
\* being spawned.
Stop ==
  /\ runtime' = None
  /\ IF runtime = None \/ HasExitCode(runtime)
       THEN UNCHANGED <<closing, pending, inbox>>
       ELSE /\ closing' = [closing EXCEPT ![runtime] = "asking"]
            /\ pending' = [pending EXCEPT ![runtime] = @ \cup {Shutdown}]
            /\ inbox' = [inbox EXCEPT ![runtime] = Append(@, Shutdown)]
  /\ UNCHANGED <<starting, proc, signalled, exitSeen, ended, outbox, req>>

\* Seeded fault: the pending requests of a dead process are not rejected.
FaultyExitEvent(g) ==
  /\ Dead(g) /\ g \notin exitSeen
  /\ exitSeen' = exitSeen \cup {g}
  /\ Forget(g)
  /\ UNCHANGED <<starting, closing, pending, ended, req, proc, signalled, inbox,
                 outbox>>

\* The exit event: every promise is rejected, onExit forgets the client; the
\* close() that waits for this event returns.
ExitEvent(g) ==
  /\ Dead(g) /\ g \notin exitSeen
  /\ exitSeen' = exitSeen \cup {g}
  /\ Forget(g)
  /\ RejectPromises(g, pending[g])
  /\ IF closing[g] = "waiting"
       THEN closing' = [closing EXCEPT ![g] = "closed"] /\ UNCHANGED ended
       ELSE CloseGoesOn(g, pending[g])
  /\ UNCHANGED <<proc, signalled, inbox, outbox>>

-----------------------------------------------------------------------------
(* The processes *)

\* The server answers a request, in order; after a shutdown it leaves.
Serve(g) ==
  /\ proc[g] = "up" /\ inbox[g] # << >>
  /\ outbox' = [outbox EXCEPT ![g] = Append(@, Head(inbox[g]))]
  /\ inbox' = [inbox EXCEPT ![g] = Tail(@)]
  /\ proc' = IF Head(inbox[g]) = Shutdown THEN [proc EXCEPT ![g] = "leaving"]
             ELSE proc
  /\ UNCHANGED known

Dies(g, how) ==
  /\ proc' = [proc EXCEPT ![g] = how]
  /\ UNCHANGED <<inbox, outbox, known>>

\* The input ends when close() ends it, and with the main process.
InputEnds(g) ==
  \/ proc[g] = "up" /\ inbox[g] = << >> /\ (g \in ended \/ ~main)
  \/ proc[g] = "spawning" /\ ~main

\* The end of the input, or the end of the loop after a shutdown.
Leaves(g) ==
  /\ proc[g] = "leaving" \/ InputEnds(g)
  /\ Dies(g, "returned")

KilledBySignal(g) == Alive(g) /\ g \in signalled /\ Dies(g, "killed")

Crashes(g) == Alive(g) /\ \E how \in {"returned", "killed"} : Dies(g, how)

\* Writing to a process that is gone fails before its exit event is seen.
WriteFails(g, r) ==
  /\ Dead(g) /\ g \notin exitSeen
  /\ r \in pending[g] \cap Reqs
  /\ Reject(g, {r})
  /\ UNCHANGED <<runtime, proc, signalled, exitSeen, inbox, outbox>>

-----------------------------------------------------------------------------
Timer(g) ==
  \/ \E r \in Reqs : TimesOut(g, r)
  \/ InitializeFails(g)
  \/ ShutdownTimesOut(g)
  \/ CloseTimer(g)

\* The callbacks of the main process.
MainStep ==
  \/ \E r \in Reqs : Ask(r)
  \/ Spawned \/ SpawnFails
  \/ Stop
  \/ \E g \in Gens :
       \/ ReadAnswer(g) \/ Timer(g) \/ ExitEvent(g)
       \/ \E r \in Reqs : WriteFails(g, r)

ProcessStep(g) == Serve(g) \/ Leaves(g) \/ KilledBySignal(g) \/ Crashes(g)

\* The application quits, waiting for nothing (before-quit takes the step of
\* Stop), or is killed.
MainEnds ==
  /\ main /\ main' = FALSE
  /\ UNCHANGED <<proc, inbox, outbox, known>>

Lives == main /\ main' = main

Next ==
  \/ Lives /\ MainStep
  \/ main' = main /\ \E g \in Gens : ProcessStep(g)
  \/ MainEnds

\* While the main process lives its timers fire, spawn reports and the event
\* loop delivers an exit event; the operating system delivers a signal.
\* Nothing is assumed of the server, nor that the main process lives on.
Fairness ==
  /\ WF_vars(Lives /\ (Spawned \/ SpawnFails))
  /\ \A g \in Gens :
       /\ WF_vars(Lives /\ InitializeFails(g))
       /\ WF_vars(Lives /\ ShutdownTimesOut(g))
       /\ WF_vars(Lives /\ CloseTimer(g))
       /\ WF_vars(main' = main /\ KilledBySignal(g))
       /\ WF_vars(Lives /\ ExitEvent(g))
       /\ \A r \in Reqs : WF_vars(Lives /\ TimesOut(g, r))

Spec == Init /\ [][Next]_vars
FairSpec == Spec /\ Fairness
-----------------------------------------------------------------------------
(* Properties *)

TypeOK ==
  /\ main \in BOOLEAN
  /\ runtime \in Gens \cup {None}
  /\ starting \in [gen : Gens \cup {None}, at : {"none", "spawn", "init"}]
  /\ proc \in [Gens -> {"unborn", "spawning", "up", "leaving", "returned",
                        "killed"}]
  /\ signalled \subseteq Gens
  /\ exitSeen \subseteq Gens
  /\ closing \in [Gens -> {"no", "asking", "waiting", "closed"}]
  /\ pending \in [Gens -> SUBSET Ids]
  /\ ended \subseteq Gens
  /\ inbox \in [Gens -> Seq(Ids)]
  /\ outbox \in [Gens -> Seq(Ids)]
  /\ req \in [Reqs -> {"new", "launching", "sent", "answered", "failed"}]

\* Processes nobody told to stop.
Owned == {g \in Gens : /\ proc[g] = "spawning" \/ Alive(g)
                       /\ closing[g] = "no" /\ g \notin signalled}

\* However requests, timeouts, stops and crashes interleave, the main process
\* keeps one process at most, the one its requests go to or wait for; every
\* other one has been told to stop.
OneRuntime ==
  /\ Owned \subseteq {runtime, starting.gen}
  /\ runtime # None /\ starting.gen # None => runtime = starting.gen

\* A request waits only for a process whose end will be noticed: none is sent
\* to, or left pending on, a client whose exit event is past, and a request
\* that waits for a launch has one in progress.
NothingDangles ==
  /\ \A g \in exitSeen : pending[g] = {} /\ runtime # g
  /\ \A r \in Reqs :
       /\ req[r] = "sent" => \E g \in Gens : r \in pending[g]
       /\ req[r] = "launching" => starting # NotStarting

\* A process that was asked to shut down exits, even when the server is stuck
\* in a request or never reads its input again, unless the main process ends
\* before it has counted to three: quitting does not wait for it.
StoppedRuntimeExits ==
  \A g \in Gens : (main /\ closing[g] # "no") ~> (Dead(g) \/ ~main)

\* A request with a timeout is settled, launch included, while there is a main
\* process to settle it.
TimedRequestsSettle ==
  \A r \in Reqs \ Untimed :
    (req[r] \in {"launching", "sent"})
      ~> (req[r] \in {"answered", "failed"} \/ ~main)

\* What one would expect of close(): it returns while the main process lives.
\* It is not so (README, "Seen in the models").
CloseReturns ==
  \A g \in Gens :
    (main /\ closing[g] # "no") ~> (closing[g] = "closed" \/ ~main)
=============================================================================
