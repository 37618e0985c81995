------------------------- MODULE ManagedConnection -------------------------
(***************************************************************************)
(* The supervisor of a connection,                                         *)
(* packages/connection-supervisor/src/createManagedConnectionSupervisor.ts,*)
(* over a transport that connects at most once, be it after an error, is   *)
(* closed at once and is silent when its listeners are gone, as that of    *)
(* apps/cli/src/api/connection/createSocketTransportAdapter.ts.            *)
(*                                                                         *)
(* Whatever awaits something (a readiness probe, a callback) is a flow.    *)
(* Its localGeneration is the current one as long as no connection attempt *)
(* or reported failure has come after it: such a flow is fresh.  Delays,   *)
(* attempt numbers, reasons and error messages are left out.               *)
(***************************************************************************)
EXTENDS Naturals

CONSTANTS
  Flows,      \* flows that can be under way at a time
  None,       \* no flow
  MaxFaults   \* bound: what goes wrong outside

ASSUME SupervisorAssumption ==
  /\ None \notin Flows
  /\ MaxFaults \in Nat

VARIABLES
  probeFirst,  \* config.probeBeforeInitialConnect
  mode,        \* isStarted and isStopped: "new", "started", "stopped"
  phase,       \* state.phase
  link,        \* currentTransport, or "none"
  timer,       \* retryTimer is set
  flow,        \* what each flow awaits, and if it is fresh
  starter,     \* the flow that startInFlight stands for
  faults       \* what has gone wrong

vars == <<probeFirst, mode, phase, link, timer, flow, starter, faults>>

-----------------------------------------------------------------------------
Phases == {"idle", "connecting", "online", "offline", "auth_failed",
           "shutting_down"}

\* "first": the probe of start; "probe": that of a retry; "before":
\* onBeforeReconnect; "lost": onDisconnected.
Flow == [at : {"none", "first", "probe", "before", "lost"}, fresh : BOOLEAN]
NoFlow == [at |-> "none", fresh |-> FALSE]

Init ==
  /\ probeFirst \in BOOLEAN
  /\ mode = "new"
  /\ phase = "idle"
  /\ link = "none"
  /\ timer = FALSE
  /\ flow = [f \in Flows |-> NoFlow]
  /\ starter = None
  /\ faults = 0

\* ++generation
Outdated == [f \in Flows |-> [flow[f] EXCEPT !.fresh = FALSE]]

Enters(f, at) == [flow EXCEPT ![f] = [at |-> at, fresh |-> TRUE]]
Free(f) == flow[f].at = "none"

\* Flow f is done with its last await.
Leaves(f, flows) == [flows EXCEPT ![f] = NoFlow]
Returned(f) == IF starter = f THEN None ELSE starter

\* Seeded fault: a flow that a later attempt has overtaken goes on.
FaultyCurrent(f) == mode # "stopped"

Current(f) == flow[f].fresh /\ mode # "stopped"

Fault == faults < MaxFaults /\ faults' = faults + 1

\* scheduleReconnect
Schedules == phase' = "offline" /\ timer' = TRUE

-----------------------------------------------------------------------------
(* establishConnection *)

\* A transport is made and told to connect.
Connects ==
  /\ phase' = "connecting"
  /\ link' = "opening"
  /\ timer' = FALSE

\* start: a flow unless the connection is attempted at once; a second call
\* joins the first, and one that finds it connected changes nothing.
Start(f) ==
  /\ mode = "stopped" \/ starter = None
  /\ mode = "started" => phase \notin {"online", "connecting"}
  /\ Free(f)
  /\ mode' = "started"
  /\ IF probeFirst
       THEN /\ flow' = [Outdated EXCEPT ![f] = [at |-> "first", fresh |-> TRUE]]
            /\ starter' = f
            /\ link' = "none"
            /\ timer' = FALSE
            /\ UNCHANGED phase
       ELSE /\ Connects
            /\ flow' = Outdated
            /\ UNCHANGED starter
  /\ UNCHANGED <<probeFirst, faults>>

\* The first probe or that of a retry says how things stand.
ProbeFails(f, result) ==
  /\ flow[f].at \in {"first", "probe"} /\ Current(f)
  /\ Fault
  /\ IF result = "auth_failed"
       THEN phase' = "auth_failed" /\ UNCHANGED timer
       ELSE Schedules
  /\ flow' = Leaves(f, flow)
  /\ starter' = Returned(f)
  /\ UNCHANGED <<probeFirst, mode, link>>

FirstProbeReady(f) ==
  /\ flow[f].at = "first" /\ Current(f)
  /\ Connects
  /\ flow' = Leaves(f, flow)
  /\ starter' = Returned(f)
  /\ UNCHANGED <<probeFirst, mode, faults>>

\* Seeded fault: a server that answers in time is asked again later.
FaultyRetryProbeReady(f) ==
  /\ flow[f].at = "probe" /\ Current(f)
  /\ Schedules
  /\ flow' = Leaves(f, flow)
  /\ UNCHANGED <<probeFirst, mode, link, starter, faults>>

RetryProbeReady(f) ==
  /\ flow[f].at = "probe" /\ Current(f)
  /\ flow' = Enters(f, "before")
  /\ UNCHANGED <<probeFirst, mode, phase, link, timer, starter, faults>>

\* The old transport is cleaned up and a new one connects.
Reconnect(f) ==
  /\ flow[f].at = "before" /\ Current(f)
  /\ Connects
  /\ flow' = Leaves(f, Outdated)
  /\ starter' = Returned(f)
  /\ UNCHANGED <<probeFirst, mode, faults>>

\* A flow that is not current returns, and so does a disconnection that finds
\* the credentials refused.
Lapse(f) ==
  /\ ~Free(f)
  /\ flow[f].at # "lost" \/ phase # "auth_failed" => ~Current(f)
  /\ flow' = Leaves(f, flow)
  /\ starter' = Returned(f)
  /\ UNCHANGED <<probeFirst, mode, phase, link, timer, faults>>

-----------------------------------------------------------------------------
(* Retries *)

TimerFires(f) ==
  /\ timer /\ Free(f)
  /\ timer' = FALSE
  /\ flow' = Enters(f, "probe")
  /\ UNCHANGED <<probeFirst, mode, phase, link, starter, faults>>

\* Seeded fault: a failure that is reported while offline is not followed up.
FaultyApply(result) ==
  /\ mode # "stopped"
  /\ phase \in {"online", "connecting", "offline"}
  /\ flow' = Outdated
  /\ link' = "none"
  /\ IF result = "auth_failed"
       THEN phase' = "auth_failed" /\ timer' = FALSE
       ELSE phase' = "offline" /\ timer' = (phase # "offline")

\* applyExternallyReportedProbeResult
Apply(result) ==
  /\ mode # "stopped"
  /\ phase \in {"online", "connecting", "offline"}
  /\ flow' = Outdated
  /\ link' = "none"
  /\ IF result = "auth_failed"
       THEN phase' = "auth_failed" /\ timer' = FALSE
       ELSE Schedules

\* Somebody reports what a request of his met with, or connect() throws, or
\* the transport reports an error that the caller can classify.
ReportProbeResult(result) ==
  /\ Fault
  /\ Apply(result)
  /\ UNCHANGED <<probeFirst, mode, starter>>

-----------------------------------------------------------------------------
(* What the transport reports *)

Connected ==
  /\ link = "opening"
  /\ link' = "up"
  /\ phase' = "online"
  /\ timer' = FALSE
  /\ UNCHANGED <<probeFirst, mode, flow, starter, faults>>

\* onError while connecting: the transport stays until the next attempt and may
\* still connect, also when the retry has begun.  A later error is only shown.
ConnectError ==
  /\ link = "opening" /\ phase = "connecting"
  /\ Fault
  /\ Schedules
  /\ UNCHANGED <<probeFirst, mode, link, flow, starter>>

\* handleDisconnect, up to its await, also of a transport that was connecting.
Disconnected(f) ==
  /\ link \in {"opening", "up"} /\ Free(f)
  /\ Fault
  /\ link' = "dead"
  /\ phase' = "offline"
  /\ flow' = Enters(f, "lost")
  /\ UNCHANGED <<probeFirst, mode, timer, starter>>

AfterDisconnect(f) ==
  /\ flow[f].at = "lost" /\ Current(f) /\ phase # "auth_failed"
  /\ Schedules
  /\ flow' = Leaves(f, flow)
  /\ UNCHANGED <<probeFirst, mode, link, starter, faults>>

-----------------------------------------------------------------------------
\* Seeded fault: the timer goes on.
FaultyStop ==
  /\ mode # "stopped"
  /\ mode' = "stopped"
  /\ phase' = "shutting_down"
  /\ link' = "none"
  /\ starter' = None
  /\ UNCHANGED <<probeFirst, timer, flow, faults>>

Stop ==
  /\ mode # "stopped"
  /\ mode' = "stopped"
  /\ phase' = "shutting_down"
  /\ link' = "none"
  /\ timer' = FALSE
  /\ starter' = None
  /\ UNCHANGED <<probeFirst, flow, faults>>

Supervisor(f) ==
  \/ \E result \in {"unreachable", "auth_failed"} : ProbeFails(f, result)
  \/ FirstProbeReady(f) \/ RetryProbeReady(f) \/ Reconnect(f) \/ Lapse(f)
  \/ AfterDisconnect(f)

Next ==
  \/ \E f \in Flows : Start(f) \/ Supervisor(f) \/ TimerFires(f) \/ Disconnected(f)
  \/ \E result \in {"unreachable", "auth_failed"} : ReportProbeResult(result)
  \/ Connected \/ ConnectError \/ Stop

\* Timers fire, probes time out, callbacks return, and a transport that meets
\* no error and is not lost connects.
Spec ==
  /\ Init /\ [][Next]_vars
  /\ \A f \in Flows : WF_vars(Supervisor(f))
  /\ WF_vars(\E f \in Flows : TimerFires(f))
  /\ WF_vars(phase = "connecting" /\ Connected)

-----------------------------------------------------------------------------
(* Properties *)

TypeOK ==
  /\ probeFirst \in BOOLEAN
  /\ mode \in {"new", "started", "stopped"}
  /\ phase \in Phases
  /\ link \in {"none", "opening", "up", "dead"}
  /\ timer \in BOOLEAN
  /\ flow \in [Flows -> Flow]
  /\ starter \in Flows \cup {None}
  /\ faults \in Nat

\* A supervisor that says "offline" is on its way back: a retry is scheduled
\* or a flow that leads to one is current.
OfflineIsRetried ==
  phase = "offline" => timer \/ \E f \in Flows : ~Free(f) /\ Current(f)

\* What the phase says is true of the transport there is, no retry is
\* scheduled for one that has connected after all, and nothing of a stopped
\* supervisor is left that could bring it back: what was under way when it was
\* stopped opens no transport and sets no timer.
PhaseIsTrue ==
  /\ phase = "connecting" => link = "opening"
  /\ phase = "online" => link = "up" /\ ~timer
  /\ mode = "stopped" => phase = "shutting_down" /\ link = "none" /\ ~timer

\* An established connection is given up when it is lost, reported or stopped,
\* never by what an attempt before it left under way.  The one retry that can
\* take it down is that of its own error: the transport has connected while the
\* retry was probing already, which the comment on onConnected does not expect.
OnlineStays ==
  [][phase = "online" /\ phase' # "online" =>
       \/ link' = "dead"
       \/ phase' = "shutting_down"
       \/ \E result \in {"unreachable", "auth_failed"} : ReportProbeResult(result)
       \/ \E f \in Flows : /\ flow[f].at \in {"probe", "before"}
                          /\ flow[f].fresh /\ flow'[f].at = "none"]_vars

\* When things stop going wrong the supervisor connects, unless credentials
\* were refused or it was stopped.
Recovers ==
  phase \in {"connecting", "offline"} ~>
    phase \in {"online", "auth_failed", "shutting_down"}
=============================================================================
