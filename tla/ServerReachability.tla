------------------------- MODULE ServerReachability -------------------------
(***************************************************************************)
(* The supervisor of one server in the pool that every request of the user *)
(* interface goes through, apps/ui/sources/sync/runtime/connectivity/      *)
(* serverReachabilitySupervisorPool.ts, with its callers: requests         *)
(* (serverReachabilityRuntimeFetch.ts), the socket (api/session/           *)
(* apiSocket.ts) and the application going to the background and back      *)
(* (sync.ts).                                                              *)
(*                                                                         *)
(* The transport is none: it connects at once, and its supervisor is the   *)
(* one of ManagedConnection with a probe before the initial connection.    *)
(* The probe sends the token that the entry had when the probe began.      *)
(***************************************************************************)
EXTENDS ManagedConnection

CONSTANTS
  Tokens,     \* credentials, None for requests without
  Callers     \* bound: calls of the pool, each once

VARIABLES
  token,      \* entry.token
  probed,     \* the token each probe sends
  network,    \* networkAllowed
  caller,     \* where each call stands
  valid,      \* the token the server accepts
  refused     \* the tokens the server has refused

pool == <<token, probed, network, caller, valid, refused>>
allVars == <<vars, pool>>

-----------------------------------------------------------------------------
\* "network": waitForNetworkAllowed; "stopped": between stop and start;
\* "starting": start, of the flow `on`; "waiting": waitForState; "asked": the
\* request itself.
Caller == [op : {"none", "fetch", "start", "invalidate"},
           at : {"none", "network", "stopped", "starting", "waiting", "asked",
                 "done"},
           token : Tokens \cup {None},
           on : Flows \cup {None}]
NoCall == [op |-> "none", at |-> "none", token |-> None, on |-> None]

PoolInit ==
  /\ Init /\ probeFirst
  /\ token = None
  /\ probed = [f \in Flows |-> None]
  /\ network = TRUE
  /\ caller = [c \in Callers |-> NoCall]
  /\ valid \in Tokens
  /\ refused = {}

\* probeReadiness reads entry.token when it is called.
ProbesBegin ==
  probed' = [f \in Flows |->
    IF flow'[f].at \notin {"first", "probe"} THEN None
    ELSE IF flow'[f].at = flow[f].at THEN probed[f] ELSE token']

Passes(f) == probed[f] \in {None, valid}

\* What the supervisor does by itself; a transport connects before anything
\* else happens.
Supervises(f) ==
  \/ (ProbeFails(f, "unreachable") /\ UNCHANGED refused)
  \/ /\ ~Passes(f)
     /\ ProbeFails(f, "auth_failed")
     /\ refused' = refused \cup {probed[f]}
  \/ /\ Passes(f)
     /\ FirstProbeReady(f) \/ RetryProbeReady(f)
     /\ UNCHANGED refused
  \/ /\ Reconnect(f) \/ Lapse(f) \/ AfterDisconnect(f) \/ TimerFires(f)
     /\ UNCHANGED refused

Supervision ==
  /\ \/ link = "opening" /\ Connected /\ UNCHANGED refused
     \/ (link # "opening" /\ \E f \in Flows : Supervises(f))
  /\ UNCHANGED <<token, network, caller, valid>>
  /\ ProbesBegin

-----------------------------------------------------------------------------
(* Calls *)

\* The call t goes on behind start and behind its last await of the pool.
Behind(t) == [t EXCEPT !.at = IF t.op = "fetch" THEN "waiting" ELSE "done"]

\* start(): a new attempt, one to join, or nothing to do.
Starts(c, t) ==
  \/ \E f \in Flows :
       /\ Start(f)
       /\ caller' = [caller EXCEPT ![c] = [t EXCEPT !.at = "starting", !.on = f]]
  \/ /\ mode = "started" /\ starter # None
     /\ caller' = [caller EXCEPT ![c] = [t EXCEPT !.at = "starting", !.on = starter]]
     /\ UNCHANGED vars
  \/ /\ mode = "started" /\ starter = None /\ phase \in {"online", "connecting"}
     /\ caller' = [caller EXCEPT ![c] = Behind(t)]
     /\ UNCHANGED vars

Stops == Stop \/ (mode = "stopped" /\ UNCHANGED vars)

Restarts(c, t) ==
  /\ Stops
  /\ caller' = [caller EXCEPT ![c] = [t EXCEPT !.at = "stopped"]]

\* What waitForServerReachable and startServerReachabilitySupervisor do with
\* the phase and the token they find.
Ensures(c, t) ==
  /\ token' = t.token
  /\ CASE phase \in {"idle", "shutting_down"}            -> Starts(c, t)
       [] phase = "auth_failed" /\ token # t.token       -> Restarts(c, t)
       [] OTHER -> /\ caller' = [caller EXCEPT ![c] = Behind(t)]
                   /\ UNCHANGED vars
  /\ ProbesBegin

\* A request waits for the network, a start gives up without it.
Call(c, op, t) ==
  /\ caller[c].at = "none"
  /\ LET call == [NoCall EXCEPT !.op = op, !.token = t] IN
       IF network THEN Ensures(c, call)
       ELSE /\ caller' = [caller EXCEPT ![c] =
                 [call EXCEPT !.at = IF op = "fetch" THEN "network" ELSE "done"]]
            /\ token' = IF op = "fetch" THEN token ELSE t
            /\ UNCHANGED <<vars, probed>>
  /\ UNCHANGED <<network, valid, refused>>

NetworkAllowed(c) ==
  /\ caller[c].at = "network" /\ network
  /\ Ensures(c, caller[c])
  /\ UNCHANGED <<network, valid, refused>>

\* invalidateServerReachabilitySupervisor, as invalidateAll calls it: with the
\* token of the entry, unless it was done within 250 ms or is still going on.
Invalidate(c) ==
  /\ caller[c].at = "none"
  /\ network
  /\ ~\E d \in Callers : caller[d].op = "invalidate" /\ caller[d].at # "done"
  /\ LET call == [NoCall EXCEPT !.op = "invalidate", !.token = token] IN
       CASE phase \in {"idle", "shutting_down"} -> Starts(c, call)
         [] phase = "offline"                   -> Restarts(c, call)
         [] OTHER -> /\ caller' = [caller EXCEPT ![c] = Behind(call)]
                     /\ UNCHANGED vars
  /\ UNCHANGED <<token, network, valid, refused>>
  /\ ProbesBegin

AfterStop(c) ==
  /\ caller[c].at = "stopped"
  /\ Starts(c, caller[c])
  /\ UNCHANGED <<token, network, valid, refused>>
  /\ ProbesBegin

AfterStart(c) ==
  /\ caller[c].at = "starting"
  /\ flow[caller[c].on].at # "first"
  /\ caller' = [caller EXCEPT ![c] = Behind(@)]
  /\ UNCHANGED <<vars, token, probed, network, valid, refused>>

\* Requests go out when the server is reachable or credentials were refused.
Reachable(c) ==
  /\ caller[c].at = "waiting" /\ phase \in {"online", "auth_failed"}
  /\ caller' = [caller EXCEPT ![c].at = "asked"]
  /\ UNCHANGED <<vars, token, probed, network, valid, refused>>

GivesUp(c) ==
  /\ caller[c].at \in {"network", "waiting"}
  /\ caller' = [caller EXCEPT ![c].at = "done"]
  /\ UNCHANGED <<vars, token, probed, network, valid, refused>>

\* The request is answered; reportServerAuthFailed if it was refused, which
\* says nothing of the token it was refused for.
AskAnswered(c) ==
  /\ caller[c].at = "asked"
  /\ caller' = [caller EXCEPT ![c].at = "done"]
  /\ IF caller[c].token \in {None, valid}
       THEN UNCHANGED <<vars, refused>>
     ELSE /\ refused' = refused \cup {caller[c].token}
          /\ IF phase \in {"online", "connecting", "offline"}
               THEN ReportProbeResult("auth_failed")
             ELSE UNCHANGED vars
  /\ UNCHANGED <<token, network, valid>>
  /\ ProbesBegin

\* reportServerUnreachable
AskFails(c) ==
  /\ caller[c].at = "asked"
  /\ caller' = [caller EXCEPT ![c].at = "done"]
  /\ IF phase \in {"online", "connecting"}
       THEN \E f \in Flows : Disconnected(f)
     ELSE UNCHANGED vars
  /\ UNCHANGED <<token, network, valid, refused>>
  /\ ProbesBegin

-----------------------------------------------------------------------------
(* The application *)

\* The socket is disconnected: stopServerReachabilitySupervisor.
Disconnect ==
  /\ Stop
  /\ UNCHANGED <<token, network, caller, valid, refused>>
  /\ ProbesBegin

Background ==
  /\ network
  /\ network' = FALSE
  /\ Stops
  /\ UNCHANGED <<token, caller, valid, refused>>
  /\ ProbesBegin

Foreground ==
  /\ ~network
  /\ network' = TRUE
  /\ UNCHANGED <<vars, token, probed, caller, valid, refused>>

\* The user signs in anew.
Rotate ==
  /\ valid' \in Tokens \ ({valid} \cup refused)
  /\ UNCHANGED <<vars, token, probed, network, caller, refused>>

Calling(c) ==
  \/ \E op \in {"fetch", "start"}, t \in Tokens \cup {None} : Call(c, op, t)
  \/ NetworkAllowed(c) \/ Invalidate(c) \/ AfterStop(c) \/ AfterStart(c)
  \/ Reachable(c) \/ GivesUp(c) \/ AskAnswered(c) \/ AskFails(c)

PoolNext ==
  \/ Supervision
  \/ /\ link # "opening"
     /\ \/ \E c \in Callers : Calling(c)
        \/ Disconnect \/ Background \/ Foreground \/ Rotate

PoolSpec == PoolInit /\ [][PoolNext]_allVars

-----------------------------------------------------------------------------
\* A server whose credentials are said to be refused was asked with those the
\* pool has now, if it has any: "If we are stuck in auth_failed and the auth token changed,
\* restart from a fresh initial probe" (waitForServerReachable).
TokenIsTried == phase = "auth_failed" /\ token # None => token \in refused
=============================================================================
