----------------------- MODULE ManagedConnectionProofs -----------------------
(***************************************************************************)
(* For any number of flows and of faults the supervisor of a connection    *)
(* never gives up without a retry, its phase is true, and of what an       *)
(* attempt leaves under way only a retry of its own error can take an      *)
(* established connection down.                                            *)
(***************************************************************************)
EXTENDS ManagedConnection, TLAPS

LEMMA InitType == Init => TypeOK
<1>1. NoFlow \in Flow
  BY DEF NoFlow, Flow
<1>2. Init => flow \in [Flows -> Flow] /\ faults \in Nat
  BY <1>1 DEF Init
<1> QED
  BY <1>2, Zenon DEF Init, TypeOK, Phases

LEMMA StepType == TypeOK /\ [Next]_vars => TypeOK'
<1> USE SupervisorAssumption DEF TypeOK, Phases
<1>a. SUFFICES ASSUME TypeOK, [Next]_vars PROVE TypeOK'
  OBVIOUS
<1>0. Outdated \in [Flows -> Flow]
  BY <1>a DEF Outdated, Flow
<1>1. ASSUME NEW f \in Flows, NEW fl \in [Flows -> Flow]
      PROVE Leaves(f, fl) \in [Flows -> Flow] /\ Returned(f) \in Flows \cup {None}
  BY <1>a DEF Leaves, Returned, NoFlow, Flow
<1>2. ASSUME NEW f \in Flows, Start(f) PROVE TypeOK'
  <2>1. CASE probeFirst
    <3>1. flow' \in [Flows -> Flow]
      <4>1. flow' = [Outdated EXCEPT ![f] = [at |-> "first", fresh |-> TRUE]]
        BY <1>2, <2>1, Zenon DEF Start
      <4>2. [at |-> "first", fresh |-> TRUE] \in Flow
        BY DEF Flow
      <4> QED
        BY <1>0, <4>1, <4>2
    <3>2. /\ UNCHANGED <<probeFirst, phase, faults>>
          /\ mode' = "started" /\ starter' = f /\ link' = "none"
          /\ timer' = FALSE
      BY <1>2, <2>1, Zenon DEF Start
    <3> QED
      BY <1>a, <3>1, <3>2
  <2>2. CASE ~probeFirst
    <3>1. /\ UNCHANGED <<probeFirst, starter, faults>>
          /\ mode' = "started" /\ Connects /\ flow' = Outdated
      BY <1>2, <2>2, Zenon DEF Start
    <3> QED
      BY <1>a, <1>0, <3>1 DEF Connects
  <2> QED
    BY <2>1, <2>2
<1>3. ASSUME NEW f \in Flows, NEW result \in {"unreachable", "auth_failed"},
             ProbeFails(f, result)
      PROVE TypeOK'
  <2>1. /\ flow' \in [Flows -> Flow] /\ starter' \in Flows \cup {None}
        /\ faults' \in Nat /\ UNCHANGED <<probeFirst, mode, link>>
    BY <1>a, <1>1, <1>3 DEF ProbeFails, Fault
  <2>2. \/ phase' = "auth_failed" /\ timer' = timer
        \/ phase' = "offline" /\ timer' = TRUE
    BY <1>3, Zenon DEF ProbeFails, Schedules
  <2> QED
    BY <1>a, <2>1, <2>2
<1>4. ASSUME NEW f \in Flows, FirstProbeReady(f) PROVE TypeOK'
  BY <1>a, <1>1, <1>4 DEF FirstProbeReady, Connects
<1>5. ASSUME NEW f \in Flows, RetryProbeReady(f) PROVE TypeOK'
  BY <1>a, <1>5 DEF RetryProbeReady, Enters, Flow
<1>6. ASSUME NEW f \in Flows, Reconnect(f) PROVE TypeOK'
  BY <1>a, <1>0, <1>1, <1>6 DEF Reconnect, Connects
<1>7. ASSUME NEW f \in Flows, Lapse(f) PROVE TypeOK'
  BY <1>a, <1>1, <1>7 DEF Lapse
<1>8. ASSUME NEW f \in Flows, AfterDisconnect(f) PROVE TypeOK'
  BY <1>a, <1>1, <1>8 DEF AfterDisconnect, Schedules
<1>9. ASSUME NEW f \in Flows, TimerFires(f) PROVE TypeOK'
  BY <1>a, <1>9 DEF TimerFires, Enters, Flow
<1>10. ASSUME NEW f \in Flows, Disconnected(f) PROVE TypeOK'
  BY <1>a, <1>10 DEF Disconnected, Enters, Fault, Flow
<1>11. ASSUME NEW result \in {"unreachable", "auth_failed"},
              ReportProbeResult(result)
       PROVE TypeOK'
  <2>1. /\ flow' = Outdated /\ link' = "none"
        /\ faults' = faults + 1 /\ UNCHANGED <<probeFirst, mode, starter>>
    BY <1>11 DEF ReportProbeResult, Apply, Fault
  <2>2. \/ phase' = "auth_failed" /\ timer' = FALSE
        \/ phase' = "offline" /\ timer' = TRUE
    BY <1>11, Zenon DEF ReportProbeResult, Apply, Schedules
  <2>3. phase' \in Phases /\ timer' \in BOOLEAN
    BY <2>2, Zenon
  <2> QED
    BY <1>a, <1>0, <2>1, <2>3
<1>12. CASE Connected
  BY <1>a, <1>12 DEF Connected
<1>13. CASE ConnectError
  BY <1>a, <1>13 DEF ConnectError, Fault, Schedules
<1>14. CASE Stop
  BY <1>a, <1>14 DEF Stop
<1>15. CASE UNCHANGED vars
  BY <1>a, <1>15 DEF vars
<1> QED
  BY <1>a, <1>2, <1>3, <1>4, <1>5, <1>6, <1>7, <1>8, <1>9, <1>10, <1>11,
     <1>12, <1>13, <1>14, <1>15 DEF Next, Supervisor

\* Every variable of the supervisor keeps its type.
THEOREM ConnectionTypes == Spec => []TypeOK
  BY InitType, StepType, PTL DEF Spec

-----------------------------------------------------------------------------
\* The probe of start is alone and has no transport, and who deals with a lost
\* connection has a dead one.  A retry may be under way beside a transport that
\* met an error while it was connecting.
Threads ==
  /\ \A f \in Flows : Free(f) => ~flow[f].fresh
  /\ \A f \in Flows : flow[f].at = "first" /\ flow[f].fresh =>
       /\ link = "none" /\ ~timer
       /\ \A g \in Flows \ {f} : ~flow[g].fresh
  /\ \A f \in Flows : flow[f].at = "lost" /\ Current(f) => link = "dead"

Unused ==
  mode = "new" =>
    /\ phase = "idle" /\ link = "none" /\ ~timer
    /\ \A f \in Flows : ~flow[f].fresh

Safe == Threads /\ Unused /\ PhaseIsTrue /\ OfflineIsRetried
CInv == TypeOK /\ Safe

LEMMA CInvInit == Init => CInv
<1> SUFFICES ASSUME Init PROVE CInv
  OBVIOUS
<1>1. \A f \in Flows : flow[f].at = "none" /\ flow[f].fresh = FALSE
  BY DEF Init, NoFlow
<1>2. TypeOK
  BY InitType
<1> QED
  BY <1>1, <1>2
  DEF CInv, Safe, Init, Threads, Free, Unused, PhaseIsTrue, OfflineIsRetried

LEMMA Left ==
  ASSUME TypeOK, NEW f \in Flows, flow' = Leaves(f, flow)
  PROVE  /\ Free(f)' /\ ~flow'[f].fresh
         /\ \A g \in Flows \ {f} : flow'[g] = flow[g]
  BY DEF TypeOK, Leaves, NoFlow, Free

LEMMA AllOutdated ==
  ASSUME TypeOK, NEW f \in Flows,
         flow' = Outdated \/ flow' = Leaves(f, Outdated)
  PROVE  \A g \in Flows : ~flow'[g].fresh
<1>1. \A g \in Flows : Outdated[g] = [flow[g] EXCEPT !.fresh = FALSE]
  BY DEF Outdated
<1>2. \A g \in Flows : flow[g] \in Flow
  BY DEF TypeOK
<1>3. \A g \in Flows : Outdated[g].fresh = FALSE
  BY <1>1, <1>2 DEF Flow
<1>4. ASSUME flow' = Leaves(f, Outdated), NEW g \in Flows
      PROVE  flow'[g] = Outdated[g] \/ flow'[g] = NoFlow
  BY <1>4 DEF Leaves, Outdated
<1> QED
  BY <1>3, <1>4 DEF NoFlow

LEMMA CInvStep == CInv /\ [Next]_vars => CInv'
<1> SUFFICES ASSUME CInv, [Next]_vars PROVE Safe'
  BY StepType DEF CInv
<1> USE SupervisorAssumption
    DEF CInv, Safe, TypeOK, Flow, Threads, Unused, PhaseIsTrue, OfflineIsRetried,
        Free, Current
<1>2. ASSUME NEW f \in Flows, Start(f) PROVE Safe'
  <2>1. CASE probeFirst
    <3>1. /\ flow' = [Outdated EXCEPT ![f] = [at |-> "first", fresh |-> TRUE]]
          /\ link' = "none" /\ timer' = FALSE /\ phase' = phase
          /\ mode' = "started"
          /\ mode = "started" => phase \notin {"online", "connecting"}
      BY <1>2, <2>1, Zenon DEF Start
    <3>2. flow'[f].at = "first" /\ flow'[f].fresh = TRUE
      BY <3>1 DEF Outdated
    <3>3. \A g \in Flows \ {f} : flow'[g] = [flow[g] EXCEPT !.fresh = FALSE]
      BY <3>1 DEF Outdated
    <3>4. \A g \in Flows \ {f} : flow'[g].fresh = FALSE
      BY <3>3
    <3>5. phase \notin {"online", "connecting"}
      BY <3>1
    <3> QED
      BY <3>1, <3>2, <3>4, <3>5
  <2>2. CASE ~probeFirst
    <3>1. flow' = Outdated /\ Connects /\ mode' = "started"
      BY <1>2, <2>2, Zenon DEF Start
    <3>2. \A g \in Flows : ~flow'[g].fresh
      BY <3>1, AllOutdated
    <3> QED
      BY <3>1, <3>2 DEF Connects
  <2> QED
    BY <2>1, <2>2
<1>3. ASSUME NEW f \in Flows, NEW result \in {"unreachable", "auth_failed"},
             ProbeFails(f, result)
      PROVE Safe'
  <2>1. /\ flow' = Leaves(f, flow) /\ UNCHANGED <<mode, link>>
        /\ flow[f].fresh /\ flow[f].at \in {"first", "probe"} /\ mode # "stopped"
    BY <1>3 DEF ProbeFails
  <2>2. /\ Free(f)' /\ ~flow'[f].fresh
        /\ \A g \in Flows \ {f} : flow'[g] = flow[g]
    BY <2>1, Left
  <2>3. \/ phase' = "auth_failed" /\ timer' = timer
        \/ phase' = "offline" /\ timer' = TRUE
    BY <1>3, Zenon DEF ProbeFails, Schedules
  <2>4. /\ mode # "new"
        /\ \A g \in Flows \ {f} : flow'[g].at = "first" => ~flow'[g].fresh
    BY <2>1, <2>2
  <2> QED
    BY <2>1, <2>2, <2>3, <2>4
<1>4. ASSUME NEW f \in Flows, FirstProbeReady(f) PROVE Safe'
  <2>1. /\ flow' = Leaves(f, flow) /\ Connects /\ mode' = mode
        /\ flow[f].at = "first" /\ flow[f].fresh
        /\ mode # "stopped" /\ mode # "new"
    BY <1>4 DEF FirstProbeReady
  <2>2. \A g \in Flows : ~flow'[g].fresh
    BY <2>1, Left
  <2> QED
    BY <2>1, <2>2 DEF Connects
<1>5. ASSUME NEW f \in Flows, RetryProbeReady(f) PROVE Safe'
  BY <1>5 DEF RetryProbeReady, Enters
<1>6. ASSUME NEW f \in Flows, Reconnect(f) PROVE Safe'
  <2>1. /\ flow' = Leaves(f, Outdated) /\ Connects /\ mode' = mode
        /\ flow[f].fresh /\ mode # "stopped" /\ mode # "new"
    BY <1>6 DEF Reconnect
  <2>2. \A g \in Flows : ~flow'[g].fresh
    BY <2>1, AllOutdated
  <2> QED
    BY <2>1, <2>2 DEF Connects
<1>7. ASSUME NEW f \in Flows, Lapse(f) PROVE Safe'
  BY <1>7 DEF Lapse, Leaves, NoFlow
<1>8. ASSUME NEW f \in Flows, AfterDisconnect(f) PROVE Safe'
  <2>1. /\ flow' = Leaves(f, flow) /\ UNCHANGED <<mode, link>>
        /\ phase' = "offline" /\ timer' = TRUE
        /\ flow[f].at = "lost" /\ flow[f].fresh /\ mode # "stopped" /\ mode # "new"
    BY <1>8 DEF AfterDisconnect, Schedules
  <2>2. /\ Free(f)' /\ ~flow'[f].fresh
        /\ \A g \in Flows \ {f} : flow'[g] = flow[g]
    BY <2>1, Left
  <2>3. link = "dead"
    BY <2>1
  <2> QED
    BY <2>1, <2>2, <2>3
<1>9. ASSUME NEW f \in Flows, TimerFires(f) PROVE Safe'
  BY <1>9 DEF TimerFires, Enters
<1>10. ASSUME NEW f \in Flows, Disconnected(f) PROVE Safe'
  BY <1>10 DEF Disconnected, Enters, Fault
<1>11. ASSUME NEW result \in {"unreachable", "auth_failed"},
              ReportProbeResult(result)
       PROVE Safe'
  BY <1>11 DEF ReportProbeResult, Apply, Schedules, Outdated
<1>12. CASE Connected
  BY <1>12 DEF Connected
<1>13. CASE ConnectError
  BY <1>13 DEF ConnectError, Schedules
<1>14. CASE Stop
  BY <1>14 DEF Stop
<1>15. CASE UNCHANGED vars
  BY <1>15 DEF vars
<1> QED
  BY <1>2, <1>3, <1>4, <1>5, <1>6, <1>7, <1>8, <1>9, <1>10, <1>11,
     <1>12, <1>13, <1>14, <1>15 DEF Next, Supervisor

LEMMA SpecCInv == Spec => []CInv
  BY CInvInit, CInvStep, PTL DEF Spec

-----------------------------------------------------------------------------
\* A supervisor that is offline is on its way back, after any sequence of
\* lost connections, failed probes, stops and starts.
THEOREM ConnectionRetried == Spec => []OfflineIsRetried
<1>1. CInv => OfflineIsRetried
  BY DEF CInv, Safe
<1> QED
  BY <1>1, SpecCInv, PTL

\* The phase is what the transport is, and a stopped supervisor has neither
\* transport nor timer, whatever was under way when it was stopped.
THEOREM PhaseTold == Spec => []PhaseIsTrue
<1>1. CInv => PhaseIsTrue
  BY DEF CInv, Safe
<1> QED
  BY <1>1, SpecCInv, PTL

\* An established connection is taken down by nothing that an earlier attempt
\* left under way, but for a retry of its own error that is probing when it
\* connects after all.
THEOREM OnlineKept == Spec => OnlineStays
<1> DEFINE Late ==
      \E f \in Flows : /\ flow[f].at \in {"probe", "before"}
                       /\ flow[f].fresh /\ flow'[f].at = "none"
    Given ==
      \/ link' = "dead"
      \/ phase' = "shutting_down"
      \/ \E result \in {"unreachable", "auth_failed"} : ReportProbeResult(result)
      \/ Late
<1>1. ASSUME CInv, [Next]_vars, phase = "online", phase' # "online" PROVE Given
  <2>0. /\ link = "up" /\ mode = "started" /\ ~timer
        /\ flow \in [Flows -> Flow]
        /\ \A f \in Flows : Current(f) => flow[f].at \in {"probe", "before"}
    BY <1>1
    DEF CInv, Safe, TypeOK, PhaseIsTrue, Threads, Unused, Current, Free, Flow
  <2>1. ASSUME NEW f \in Flows, Start(f) \/ Supervisor(f) PROVE Late
    <3>1. Current(f) /\ (flow' = Leaves(f, flow) \/ flow' = Leaves(f, Outdated))
      BY <1>1, <2>0, <2>1
      DEF Start, Supervisor, ProbeFails, FirstProbeReady, RetryProbeReady,
          Reconnect, Lapse, AfterDisconnect
    <3>2. flow'[f] = NoFlow
      BY <2>0, <3>1 DEF Leaves, Outdated
    <3> QED
      BY <2>0, <3>1, <3>2 DEF NoFlow, Current
  <2>2. ASSUME NEW f \in Flows, TimerFires(f) \/ Disconnected(f) PROVE Given
    BY <2>0, <2>2 DEF TimerFires, Disconnected
  <2>3. CASE Connected \/ ConnectError
    BY <2>0, <2>3 DEF Connected, ConnectError
  <2>4. CASE Stop
    BY <2>4 DEF Stop
  <2>5. CASE UNCHANGED vars
    BY <1>1, <2>5 DEF vars
  <2> HIDE DEF Late
  <2> QED
    BY <1>1, <2>1, <2>2, <2>3, <2>4, <2>5 DEF Next
<1>2. CInv /\ [Next]_vars =>
        [phase = "online" /\ phase' # "online" =>
           \/ link' = "dead"
           \/ phase' = "shutting_down"
           \/ \E result \in {"unreachable", "auth_failed"} : ReportProbeResult(result)
           \/ \E f \in Flows : /\ flow[f].at \in {"probe", "before"}
                              /\ flow[f].fresh /\ flow'[f].at = "none"]_vars
  BY <1>1
<1> QED
  BY <1>2, SpecCInv, PTL DEF Spec, OnlineStays
=============================================================================
