----------------------------- MODULE HumanGate -----------------------------
(***************************************************************************)
(* A question of the coordinator to the human: await_user_decision         *)
(* (src/src/coordinator/hitl.py), the copy of it that a checkpoint saves   *)
(* (orchestrator.py), the gate panel (src/src/cli/run_state.py) and the    *)
(* channels a reply comes from: the terminal, the gate companion, the      *)
(* browser.  Each channel is a thread of its own.  It looks at the panel,  *)
(* composes a reply at leisure and emits it on the bus, whose subscribers  *)
(* it runs one after the other; the coordinator is one more thread.        *)
(***************************************************************************)
EXTENDS Naturals, Sequences

CONSTANTS
  Channels,   \* threads that reply
  Nodes,      \* ids of ideas
  Blank,      \* the node_id of a question that has none
  About,      \* the node_id of each question, in the order they are asked
  MaxStarts   \* bound: processes

Questions == DOMAIN About

ASSUME GateAssumption ==
  /\ About \in Seq(Nodes \cup {Blank})
  /\ MaxStarts \in Nat

VARIABLES
  at,        \* where the coordinator stands
  asked,     \* number of the last question
  outcome,   \* history: what became of each question
  meant,     \* history: the question its accepted reply was written for
  future,    \* the reply the future holds, 0 while it is open
  queued,    \* replies handed to the event loop (call_soon_threadsafe)
  pending,   \* orchestrator._pending_user
  panel,     \* RunState.pending_gate
  channel,   \* what each channel does
  saved,     \* pending_user of checkpoint.json
  starts     \* processes so far

vars == <<at, asked, outcome, meant, future, queued, pending, panel, channel,
          saved, starts>>

\* A question stands for its payload; 0 is none.
Payload == Questions \cup {0}

\* A reply is written for the gate that was shown; its handler is the
\* subscriber of the question that was open when the bus listed them.
Reply == [step : {"writing", "listed", "cleared"}, for : Questions,
          handler : Payload]

Quiet == [step |-> "quiet"]

\* The future and the callbacks that would set it are no more.
Discard == future' = 0 /\ queued' = << >>

Init ==
  /\ at = "down"
  /\ asked = 0
  /\ outcome = [q \in Questions |-> "unasked"]
  /\ meant = [q \in Questions |-> 0]
  /\ future = 0
  /\ queued = << >>
  /\ pending = 0
  /\ panel = 0
  /\ channel = [c \in Channels |-> Quiet]
  /\ saved = 0
  /\ starts = 0

-----------------------------------------------------------------------------
(* The coordinator *)

\* A process starts; a resumed one tells the model of the saved question and
\* drops it.  (A saved question implies saved messages: a tool runs after the
\* checkpoint of its turn.)
Begin ==
  /\ at = "down" /\ starts < MaxStarts
  /\ at' = "working"
  /\ starts' = starts + 1
  /\ pending' = 0
  /\ UNCHANGED <<asked, outcome, meant, future, queued, panel, channel, saved>>

\* The checkpoint of a turn.
TurnCheckpoint ==
  /\ at = "working"
  /\ saved' = pending
  /\ UNCHANGED <<at, asked, outcome, meant, future, queued, pending, panel,
                 channel, starts>>

\* await_user_decision subscribes, and then announces.
Subscribe ==
  /\ at = "working" /\ asked < Len(About)
  /\ at' = "subscribed"
  /\ asked' = asked + 1
  /\ outcome' = [outcome EXCEPT ![asked + 1] = "open"]
  /\ Discard
  /\ UNCHANGED <<meant, pending, panel, channel, saved, starts>>

Announce ==
  /\ at = "subscribed"
  /\ at' = "waiting"
  /\ pending' = asked
  /\ panel' = asked
  /\ UNCHANGED <<asked, outcome, meant, future, queued, channel, saved, starts>>

\* The loop runs a callback: the first reply sets the future.
Resolve ==
  /\ at = "waiting" /\ queued # << >>
  /\ future' = IF future = 0 THEN Head(queued) ELSE future
  /\ queued' = Tail(queued)
  /\ UNCHANGED <<at, asked, outcome, meant, pending, panel, channel, saved,
                 starts>>

\* The waiting tool goes on with the reply.
Answered ==
  /\ at = "waiting" /\ future # 0
  /\ at' = "working"
  /\ outcome' = [outcome EXCEPT ![asked] = "answered"]
  /\ meant' = [meant EXCEPT ![asked] = future]
  /\ Discard
  /\ UNCHANGED <<asked, pending, panel, channel, saved, starts>>

\* Seeded fault: nobody is told that the wait is over.
FaultyTimedOut ==
  /\ at = "waiting"
  /\ at' = "working"
  /\ outcome' = [outcome EXCEPT ![asked] = "timedOut"]
  /\ Discard
  /\ UNCHANGED <<asked, meant, pending, panel, channel, saved, starts>>

\* Seeded fault: the timer stands still while the gate is shown.
FaultyTimedOutPaused ==
  /\ at = "waiting" /\ panel # asked
  /\ at' = "working"
  /\ outcome' = [outcome EXCEPT ![asked] = "timedOut"]
  /\ pending' = 0
  /\ Discard
  /\ UNCHANGED <<asked, meant, panel, channel, saved, starts>>

\* No reply in time; the fallback reply clears what a reply would.  The timer
\* may win against a future that has just been set.
TimedOut ==
  /\ at = "waiting"
  /\ at' = "working"
  /\ outcome' = [outcome EXCEPT ![asked] = "timedOut"]
  /\ pending' = 0
  /\ panel' = 0
  /\ Discard
  /\ UNCHANGED <<asked, meant, channel, saved, starts>>

\* The emergency timeout cancels the wait without a word to anybody; the
\* shutdown checkpoint saves the question.
Stop ==
  /\ at \in {"working", "waiting"}
  /\ at' = "stopped"
  /\ outcome' = IF at = "waiting" THEN [outcome EXCEPT ![asked] = "cut"]
                                  ELSE outcome
  /\ Discard
  /\ UNCHANGED <<asked, meant, pending, panel, channel, saved, starts>>

Shutdown ==
  /\ at = "stopped"
  /\ saved' = pending
  /\ at' = "down"
  /\ pending' = 0 /\ panel' = 0
  /\ channel' = [c \in Channels |-> Quiet]
  /\ UNCHANGED <<asked, outcome, meant, future, queued, starts>>

Killed ==
  /\ at # "down"
  /\ at' = "down"
  /\ outcome' = IF at \in {"subscribed", "waiting"}
                  THEN [outcome EXCEPT ![asked] = "cut"] ELSE outcome
  /\ pending' = 0 /\ panel' = 0
  /\ channel' = [c \in Channels |-> Quiet]
  /\ Discard
  /\ UNCHANGED <<asked, meant, saved, starts>>

-----------------------------------------------------------------------------
(* The channels *)

\* The human answers the gate that is shown, or the companion is asked to.
Write(c) ==
  /\ channel[c] = Quiet /\ panel # 0
  /\ channel' = [channel EXCEPT ![c] =
       [step |-> "writing", for |-> panel, handler |-> 0]]
  /\ UNCHANGED <<at, asked, outcome, meant, future, queued, pending, panel,
                 saved, starts>>

\* The companion may find that nothing is to be submitted.
Drop(c) ==
  /\ channel[c].step = "writing"
  /\ channel' = [channel EXCEPT ![c] = Quiet]
  /\ UNCHANGED <<at, asked, outcome, meant, future, queued, pending, panel,
                 saved, starts>>

\* The bus lists the subscribers of the reply.
Emit(c) ==
  /\ channel[c].step = "writing"
  /\ channel' = [channel EXCEPT ![c] =
       [step |-> "listed", for |-> channel[c].for,
        handler |-> IF at \in {"subscribed", "waiting"} THEN asked ELSE 0]]
  /\ UNCHANGED <<at, asked, outcome, meant, future, queued, pending, panel,
                 saved, starts>>

\* Seeded fault: only the panel listens to replies.
FaultyClear(c) ==
  /\ channel[c].step = "listed"
  /\ channel' = [channel EXCEPT ![c] = [@ EXCEPT !.step = "cleared"]]
  /\ panel' = 0
  /\ UNCHANGED <<at, asked, outcome, meant, future, queued, pending, saved,
                 starts>>

\* The first two subscribers, orchestrator and panel, in one step: neither looks
\* at the node of the reply.
Clear(c) ==
  /\ channel[c].step = "listed"
  /\ channel' = [channel EXCEPT ![c] = [@ EXCEPT !.step = "cleared"]]
  /\ pending' = 0
  /\ panel' = 0
  /\ UNCHANGED <<at, asked, outcome, meant, future, queued, saved, starts>>

\* Seeded fault: a question that has a node takes replies that have another.
FaultyCorrelates(q, r) == TRUE

\* Correlate by node_id when both sides carry one.
Correlates(q, r) == About[q] = About[r] \/ Blank \in {About[q], About[r]}

\* The handler of the question; it is of no effect once its future is done.
Handle(c) ==
  /\ channel[c].step = "cleared"
  /\ LET r == channel[c]
     IN queued' =
          IF /\ r.handler # 0 /\ r.handler = asked
             /\ at \in {"subscribed", "waiting"} /\ future = 0
             /\ Correlates(r.handler, r.for)
            THEN Append(queued, r.for) ELSE queued
  /\ channel' = [channel EXCEPT ![c] = Quiet]
  /\ UNCHANGED <<at, asked, outcome, meant, future, pending, panel, saved,
                 starts>>

-----------------------------------------------------------------------------
Coordinator ==
  \/ Begin \/ TurnCheckpoint \/ Subscribe \/ Announce \/ Resolve \/ Answered
  \/ TimedOut \/ Stop \/ Shutdown

Channel(c) == Write(c) \/ Drop(c) \/ Emit(c) \/ Clear(c) \/ Handle(c)

Next == Coordinator \/ Killed \/ \E c \in Channels : Channel(c)

\* The tool goes on, and every wait has a timer.
Fairness ==
  /\ WF_vars(Announce)
  /\ WF_vars(Answered \/ TimedOut)

Spec == Init /\ [][Next]_vars /\ Fairness

-----------------------------------------------------------------------------
(* Properties *)

TypeOK ==
  /\ at \in {"down", "working", "subscribed", "waiting", "stopped"}
  /\ asked \in 0..Len(About)
  /\ outcome \in [Questions -> {"unasked", "open", "answered", "timedOut", "cut"}]
  /\ meant \in [Questions -> Payload]
  /\ future \in Payload
  /\ queued \in Seq(Questions)
  /\ {pending, panel, saved} \subseteq Payload
  /\ channel \in [Channels -> Reply \cup {Quiet}]
  /\ starts \in 0..MaxStarts

\* A question is settled by a reply that was written for it, or for one about
\* the same node, or where one of the two has no node: never by a late reply
\* about another idea, whichever thread is how far behind.
OwnReply ==
  \A q \in Questions :
    meant[q] # 0 =>
      meant[q] = q \/ About[meant[q]] = About[q]
                   \/ Blank \in {About[q], About[meant[q]]}

\* A question that is still shown or pending while the agent works on, in this
\* process or a resumed one, is one that a reply written for another question
\* has settled: after a reply of its own, a timeout or a restart there is none.
NoGhost ==
  at = "working" => \A q \in {pending, panel} \ {0} : meant[q] \notin {0, q}

\* A question a checkpoint restores was interrupted, unless a reply written for
\* another question had settled it: it did not time out and had no answer of
\* its own.
RestoredIsOpen ==
  at = "down" /\ saved # 0 =>
    outcome[saved] = "cut" \/ meant[saved] \notin {0, saved}

\* Every question is settled, unless the process ends.
AskReturns == (at = "subscribed") ~> (at # "subscribed" /\ at # "waiting")
=============================================================================
