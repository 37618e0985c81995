---------------------------- MODULE Conversation ----------------------------
(***************************************************************************)
(* The conversations of one project: the SDK's ConversationStore and       *)
(* DevPilotConversation (src/src/sdk/conversations.py) over                *)
(* ResearchSession (src/src/sdk/runtime.py), driven by the desktop         *)
(* protocol server (src/src/desktop_runtime/server.py, handlers.py).       *)
(*                                                                         *)
(* All of it runs on one event loop, so a step ends where a coroutine      *)
(* awaits, and what interleaves is: the client's call in progress, the     *)
(* task of each conversation's run, and the coordinator task it awaits.    *)
(* The process can be killed at any time, between two writes of a step     *)
(* too; conversation.json and transcript.jsonl stay.                       *)
(*                                                                         *)
(* A turn is numbered; texts, titles, timestamps, errors and the runtime   *)
(* events of a run are left out, and the state "resuming" is the           *)
(* "starting" of a run whose conversation has a checkpoint.                *)
(***************************************************************************)
EXTENDS Naturals, Sequences, FiniteSets

CONSTANTS
  Convs,      \* conversation ids
  Absent,     \* no record on disk, no live handle
  Embedded,   \* the SDK is called directly, not by the desktop server
  MaxTurns    \* bound: messages per conversation

ASSUME ConversationAssumption ==
  /\ Embedded \in BOOLEAN
  /\ MaxTurns \in Nat

VARIABLES
  phase,       \* the process: "up", "stopping" (tasks are torn down), "down"
  registered,  \* the project is in desktop-projects.json
  disk,        \* each conversation.json
  transcript,  \* each transcript.jsonl
  mem,         \* the record of each live handle (ConversationStore._live)
  job,         \* the run of each live handle: its task and the coordinator's
  call,        \* the client's call that is awaiting something
  events       \* history: the run events emitted for each conversation

vars == <<phase, registered, disk, transcript, mem, job, call, events>>

-----------------------------------------------------------------------------
\* _ACTIVE_STATES
Active == {"starting", "working", "cancelling"}
States == Active \cup {"idle", "completed", "cancelled", "failed", "interrupted"}

\* run: active_run_id, 0 for None.
Record == [state : States, run : Nat, archived : BOOLEAN]

ASSUME AbsentAssumption == Absent \notin Record

\* "created": the task of _run is scheduled and _runtime is still None;
\* "running": the coordinator works; "cancelling": its task was told to
\* cancel; "returned", "raised", "stopped": it is done with a report, an
\* exception, a cancellation, and _run has not been resumed yet.
Done == {"returned", "raised", "stopped"}
Job == [pc : {"none", "created", "running", "cancelling"} \cup Done,
        turn : Nat]
NoJob == [pc |-> "none", turn |-> 0]

Call == [kind : {"none", "cancel", "shutdown"},
         conv : Convs \cup {Absent},   \* whose run it waits for
         todo : SUBSET Convs,          \* left to cancel, in a shutdown
         raised : BOOLEAN]             \* the awaited run raised
NoCall == [kind |-> "none", conv |-> Absent, todo |-> {}, raised |-> FALSE]

Running(c) == job[c].pc # "none"
Turns(c) ==
  Cardinality({i \in DOMAIN transcript[c] : transcript[c][i].role = "user"})

Said(c, role, turn) ==
  [transcript EXCEPT ![c] = Append(@, [role |-> role, turn |-> turn])]
Emitted(c, name, turn) ==
  [events EXCEPT ![c] = Append(@, [name |-> name, turn |-> turn])]

\* _update_record: the handle's record, then conversation.json.
Update(c, rec) ==
  /\ mem' = [mem EXCEPT ![c] = rec]
  /\ disk' = [disk EXCEPT ![c] = rec]

\* Seeded fault: every conversation that was used counts as interrupted.
FaultyInterrupted(rec) ==
  IF rec.state # "idle" THEN [rec EXCEPT !.state = "interrupted", !.run = 0]
                        ELSE rec

\* _interrupted_record, of a record in an active state.
Interrupted(rec) ==
  IF rec.state \in Active THEN [rec EXCEPT !.state = "interrupted", !.run = 0]
                          ELSE rec

Init ==
  /\ phase = "up"
  /\ registered = FALSE
  /\ disk = [c \in Convs |-> Absent]
  /\ transcript = [c \in Convs |-> << >>]
  /\ mem = [c \in Convs |-> Absent]
  /\ job = [c \in Convs |-> NoJob]
  /\ call = NoCall
  /\ events = [c \in Convs |-> << >>]

-----------------------------------------------------------------------------
(* The client's calls *)

\* The server reads the next line when the last one is answered, in a thread,
\* so the loop has run the first step of a task the last call created.
Accepting ==
  /\ phase = "up"
  /\ call.kind = "none"
  /\ Embedded \/ \A c \in Convs : job[c].pc # "created"

\* A live handle; the desktop handlers look the project up first.
Reachable(c) == mem[c] # Absent /\ (Embedded \/ registered)

OpenProject ==
  /\ Accepting
  /\ registered' = TRUE
  /\ UNCHANGED <<phase, disk, transcript, mem, job, call, events>>

RemoveProject ==
  /\ Accepting
  /\ registered' = FALSE
  /\ UNCHANGED <<phase, disk, transcript, mem, job, call, events>>

\* ConversationStore.create registers the project again.
Create(c) ==
  /\ Accepting
  /\ disk[c] = Absent
  /\ Update(c, [state |-> "idle", run |-> 0, archived |-> FALSE])
  /\ registered' = TRUE
  /\ UNCHANGED <<phase, transcript, job, call, events>>

\* Seeded fault: the state on disk is taken as it is.
FaultyOpen(c) ==
  /\ Accepting /\ registered
  /\ mem[c] = Absent /\ disk[c] # Absent
  /\ Update(c, disk[c])
  /\ UNCHANGED <<phase, registered, transcript, job, call, events>>

\* ConversationStore.open of a conversation that is not live.
Open(c) ==
  /\ Accepting /\ registered
  /\ mem[c] = Absent /\ disk[c] # Absent
  /\ Update(c, Interrupted(disk[c]))
  /\ UNCHANGED <<phase, registered, transcript, job, call, events>>

\* Seeded fault: the live runs are not looked at.
FaultyListed(c) ==
  IF disk[c] = Absent THEN Absent ELSE Interrupted(disk[c])

\* What ConversationStore.list leaves in conversation.json.
Listed(c) ==
  IF disk[c] = Absent \/ Running(c) THEN disk[c] ELSE Interrupted(disk[c])

List ==
  /\ Accepting /\ registered
  /\ disk' = [c \in Convs |-> Listed(c)]
  /\ UNCHANGED <<phase, registered, transcript, mem, job, call, events>>

Archive(c, archived) ==
  /\ Accepting /\ Reachable(c)
  /\ Update(c, [mem[c] EXCEPT !.archived = archived])
  /\ UNCHANGED <<phase, registered, transcript, job, call, events>>

\* ConversationStore.delete keeps the files and refuses a running one.
Delete(c) ==
  /\ ~Running(c)
  /\ Archive(c, TRUE)

Begun(c, turn) == [mem[c] EXCEPT !.state = "starting", !.run = turn]

\* DevPilotConversation.send: the message, the record, the event, the task.
Send(c) ==
  /\ Accepting /\ Reachable(c) /\ Turns(c) < MaxTurns
  /\ ~Running(c)
  /\ LET turn == Turns(c) + 1 IN
       /\ transcript' = Said(c, "user", turn)
       /\ Update(c, Begun(c, turn))
       /\ events' = Emitted(c, "started", turn)
       /\ job' = [job EXCEPT ![c] = [pc |-> "created", turn |-> turn]]
  /\ UNCHANGED <<phase, registered, call>>

-----------------------------------------------------------------------------
(* Cancellation *)

\* DevPilotConversation.cancel of a run that has its runtime, up to its await:
\* ResearchSession.cancel finds the coordinator's task done or tells it to
\* cancel.
Cancelling(c) ==
  /\ job[c].pc \notin {"none", "created"}
  /\ Update(c, [mem[c] EXCEPT !.state = "cancelling"])
  /\ job' = IF job[c].pc \in Done THEN job
            ELSE [job EXCEPT ![c].pc = "cancelling"]

Cancel(c) ==
  /\ Accepting /\ Reachable(c)
  /\ Cancelling(c)
  /\ call' = IF job[c].pc \in Done THEN NoCall
             ELSE [NoCall EXCEPT !.kind = "cancel", !.conv = c]
  /\ UNCHANGED <<phase, registered, transcript, events>>

\* No run, or no runtime yet: cancel returns without a trace.
CancelIgnored(c) ==
  /\ Accepting /\ Reachable(c)
  /\ job[c].pc \in {"none", "created"}
  /\ UNCHANGED vars

\* Seeded fault: the call waits for the state it asked for.
FaultyCancelReturns ==
  /\ phase = "up" /\ call.kind = "cancel"
  /\ mem[call.conv].state = "cancelled"
  /\ call' = NoCall
  /\ UNCHANGED <<phase, registered, disk, transcript, mem, job, events>>

\* The run's task was waiting for the coordinator's task before cancel was, so
\* it is resumed first and has ended.
CancelReturns ==
  /\ phase = "up" /\ call.kind = "cancel"
  /\ ~Running(call.conv)
  /\ call' = NoCall
  /\ UNCHANGED <<phase, registered, disk, transcript, mem, job, events>>

\* ConversationStore.shutdown: cancel the live conversations one by one.
Shutdown ==
  /\ Accepting
  /\ call' = [NoCall EXCEPT !.kind = "shutdown",
                            !.todo = {c \in Convs : mem[c] # Absent}]
  /\ UNCHANGED <<phase, registered, disk, transcript, mem, job, events>>

NextInShutdown ==
  /\ phase = "up" /\ call.kind = "shutdown" /\ ~call.raised
  /\ call.conv # Absent => ~Running(call.conv)

ShutdownCancels(c) ==
  /\ NextInShutdown
  /\ c \in call.todo
  /\ Cancelling(c)
  /\ call' = [call EXCEPT !.todo = @ \ {c},
                          !.conv = IF job[c].pc \in Done THEN Absent ELSE c]
  /\ UNCHANGED <<phase, registered, transcript, events>>

ShutdownSkips(c) ==
  /\ NextInShutdown
  /\ c \in call.todo
  /\ job[c].pc \in {"none", "created"}
  /\ call' = [call EXCEPT !.todo = @ \ {c}, !.conv = Absent]
  /\ UNCHANGED <<phase, registered, disk, transcript, mem, job, events>>

\* asyncio.run cancels every task that is left when the server is done: a run
\* that has not been resumed since its coordinator was done is cancelled too.
\* The loop has run the first step of a task that was just created by then.
TearDown ==
  /\ \A c \in Convs : job[c].pc # "created"
  /\ phase' = "stopping"
  /\ call' = NoCall
  /\ job' = [c \in Convs |->
               CASE job[c].pc = "running" -> [job[c] EXCEPT !.pc = "cancelling"]
                 [] job[c].pc \in Done -> [job[c] EXCEPT !.pc = "stopped"]
                 [] OTHER -> job[c]]
  /\ UNCHANGED <<registered, disk, transcript, mem, events>>

\* The shutdown is answered, with an error if a cancelled run raised.
ShutdownReturns ==
  /\ phase = "up" /\ call.kind = "shutdown"
  /\ call.raised \/ (NextInShutdown /\ call.todo = {})
  /\ TearDown

StdinCloses == Accepting /\ TearDown

-----------------------------------------------------------------------------
(* A run *)

\* A coordinator can be made: the session is the handle's runtime, and
\* runtime.run awaits the coordinator's task.
RunBegins(c) ==
  /\ phase = "up" /\ job[c].pc = "created"
  /\ Update(c, [mem[c] EXCEPT !.state = "working"])
  /\ job' = [job EXCEPT ![c].pc = "running"]
  /\ UNCHANGED <<phase, registered, transcript, call, events>>

Settled(c, state) == [mem[c] EXCEPT !.state = state, !.run = 0]

\* The configuration, the provider or the directory is unusable.
RunCannotBegin(c) ==
  /\ phase = "up" /\ job[c].pc = "created"
  /\ Update(c, Settled(c, "failed"))
  /\ events' = Emitted(c, "failed", job[c].turn)
  /\ job' = [job EXCEPT ![c] = NoJob]
  /\ UNCHANGED <<phase, registered, transcript, call>>

OrchestratorEnds(c) ==
  /\ phase # "down" /\ job[c].pc \in {"running", "cancelling"}
  /\ \E pc \in {"returned", "raised"} : job' = [job EXCEPT ![c].pc = pc]
  /\ UNCHANGED <<phase, registered, disk, transcript, mem, call, events>>

CancelTakesEffect(c) ==
  /\ phase # "down" /\ job[c].pc = "cancelling"
  /\ job' = [job EXCEPT ![c].pc = "stopped"]
  /\ UNCHANGED <<phase, registered, disk, transcript, mem, call, events>>

\* Agent._heartbeat awaits its pulse task inside "except CancelledError": a
\* cancellation that arrives there is lost and the agent goes on.
SwallowCancel(c) ==
  /\ phase # "down" /\ job[c].pc = "cancelling"
  /\ job' = [job EXCEPT ![c].pc = "running"]
  /\ UNCHANGED <<phase, registered, disk, transcript, mem, call, events>>

OutcomeOf(pc) ==
  CASE pc = "returned" -> "completed"
    [] pc = "raised"   -> "failed"
    [] pc = "stopped"  -> "cancelled"

\* Seeded fault: a reply that arrives while the run is being cancelled is
\* dropped.
FaultyRunResumes(c) ==
  /\ phase # "down" /\ job[c].pc \in Done
  /\ transcript' = IF job[c].pc = "returned" /\ mem[c].state = "working"
                     THEN Said(c, "assistant", job[c].turn) ELSE transcript
  /\ Update(c, Settled(c, OutcomeOf(job[c].pc)))
  /\ events' = Emitted(c, OutcomeOf(job[c].pc), job[c].turn)
  /\ job' = [job EXCEPT ![c] = NoJob]
  /\ call' = IF call.conv = c THEN [call EXCEPT !.raised = job[c].pc = "raised"]
             ELSE call
  /\ UNCHANGED <<phase, registered>>

\* _run after its await: the reply, the record, the event, _runtime = None.
\* The call that waits for the coordinator's task gets its exception too.
RunResumes(c) ==
  /\ phase # "down" /\ job[c].pc \in Done
  /\ transcript' = IF job[c].pc = "returned"
                     THEN Said(c, "assistant", job[c].turn) ELSE transcript
  /\ Update(c, Settled(c, OutcomeOf(job[c].pc)))
  /\ events' = Emitted(c, OutcomeOf(job[c].pc), job[c].turn)
  /\ job' = [job EXCEPT ![c] = NoJob]
  /\ call' = IF call.conv = c THEN [call EXCEPT !.raised = job[c].pc = "raised"]
             ELSE call
  /\ UNCHANGED <<phase, registered>>

-----------------------------------------------------------------------------
(* The end of the process *)

Gone ==
  /\ phase' = "down"
  /\ mem' = [c \in Convs |-> Absent]
  /\ job' = [c \in Convs |-> NoJob]
  /\ call' = NoCall
  /\ UNCHANGED registered

Kill ==
  /\ phase # "down"
  /\ Gone
  /\ UNCHANGED <<disk, transcript, events>>

Exit ==
  /\ phase = "stopping" /\ \A c \in Convs : ~Running(c)
  /\ Gone
  /\ UNCHANGED <<disk, transcript, events>>

\* Killed between the writes of Send(c): the message is stored; the record is
\* too or is not.
KillInSend(c) ==
  /\ Accepting /\ Reachable(c) /\ Turns(c) < MaxTurns
  /\ ~Running(c)
  /\ transcript' = Said(c, "user", Turns(c) + 1)
  /\ \/ disk' = [disk EXCEPT ![c] = Begun(c, Turns(c) + 1)]
     \/ UNCHANGED disk
  /\ Gone
  /\ UNCHANGED events

\* Killed between the writes of RunResumes(c).
KillInFinish(c) ==
  /\ phase # "down" /\ job[c].pc \in Done
  /\ transcript' = IF job[c].pc = "returned"
                     THEN Said(c, "assistant", job[c].turn) ELSE transcript
  /\ \/ disk' = [disk EXCEPT ![c] = Settled(c, OutcomeOf(job[c].pc))]
     \/ UNCHANGED disk
  /\ Gone
  /\ UNCHANGED events

Restart ==
  /\ phase = "down"
  /\ phase' = "up"
  /\ UNCHANGED <<registered, disk, transcript, mem, job, call, events>>

-----------------------------------------------------------------------------
ClientCall ==
  \/ OpenProject \/ RemoveProject \/ List \/ Shutdown \/ StdinCloses
  \/ \E c \in Convs :
       \/ Create(c) \/ Open(c) \/ Send(c) \/ Cancel(c) \/ CancelIgnored(c)
       \/ \E archived \in BOOLEAN : Archive(c, archived)
       \/ Delete(c)

CallStep ==
  \/ CancelReturns
  \/ \E c \in Convs : ShutdownCancels(c) \/ ShutdownSkips(c)
  \/ ShutdownReturns

RunStep(c) == RunBegins(c) \/ RunCannotBegin(c) \/ RunResumes(c)

Death ==
  \/ Kill \/ Exit
  \/ \E c \in Convs : KillInSend(c) \/ KillInFinish(c)

Next ==
  \/ ClientCall
  \/ CallStep
  \/ \E c \in Convs :
       \/ RunStep(c)
       \/ OrchestratorEnds(c) \/ CancelTakesEffect(c) \/ SwallowCancel(c)
  \/ Death
  \/ Restart

\* The loop runs what is ready: the steps of calls and runs.  A cancellation
\* reaches the task it was sent to.
LoopFairness ==
  /\ WF_vars(CallStep)
  /\ WF_vars(Exit)
  /\ \A c \in Convs :
       /\ WF_vars(RunStep(c))
       /\ WF_vars(CancelTakesEffect(c) \/ SwallowCancel(c)
                  \/ (OrchestratorEnds(c) /\ job[c].pc = "cancelling"))

\* With a time budget (config.time_budget) the coordinator ends by itself.
BudgetFairness == \A c \in Convs : WF_vars(OrchestratorEnds(c))

Spec == Init /\ [][Next]_vars
FairSpec == Spec /\ LoopFairness
BudgetSpec == FairSpec /\ BudgetFairness
-----------------------------------------------------------------------------
(* Properties *)

TypeOK ==
  /\ phase \in {"up", "stopping", "down"}
  /\ registered \in BOOLEAN
  /\ disk \in [Convs -> Record \cup {Absent}]
  /\ transcript \in
       [Convs -> Seq([role : {"user", "assistant"}, turn : Nat \ {0}])]
  /\ mem \in [Convs -> Record \cup {Absent}]
  /\ job \in [Convs -> Job]
  /\ call \in Call
  /\ events \in
       [Convs -> Seq([name : {"started", "completed", "cancelled", "failed"},
                      turn : Nat \ {0}])]

\* A record is active exactly while its run is in progress, under that run's
\* id, and the file of a live conversation says what the handle says: nothing
\* a call, a cancellation or a listing writes leaves a run without a record or
\* a record without a run.
RecordsAreTrue ==
  phase # "down" =>
    \A c \in Convs :
      /\ Running(c) => mem[c] # Absent
      /\ mem[c] # Absent =>
           /\ disk[c] = mem[c]
           /\ (mem[c].state \in Active) <=> Running(c)
           /\ mem[c].run = job[c].turn

\* A run is started once and ends once at most: its terminal event follows its
\* run.started and precedes the next run's.
OneOutcome(c) ==
  \A i, j \in DOMAIN events[c] : i < j =>
    LET a == events[c][i]
        b == events[c][j]
    IN \/ a.turn < b.turn
       \/ a.turn = b.turn /\ a.name = "started" /\ b.name # "started"

\* However cancellation, completion and the end of the process race, a run has
\* one outcome; its reply stands right after the message it answers, and one
\* announced as completed has its reply stored.
RepliesInTurn ==
  \A c \in Convs :
    /\ OneOutcome(c)
    /\ \A i \in DOMAIN transcript[c] :
         transcript[c][i].role = "assistant" =>
           /\ i > 1
           /\ transcript[c][i - 1] = [transcript[c][i] EXCEPT !.role = "user"]
    /\ \A i \in DOMAIN events[c] :
         events[c][i].name = "completed" =>
           \E j \in DOMAIN transcript[c] :
             transcript[c][j] = [role |-> "assistant", turn |-> events[c][i].turn]

\* An outcome that was announced is what conversation.json says until the next
\* message, through listings, reopening, crashes and restarts.
OutcomeIsDurable ==
  \A c \in Convs : events[c] # << >> =>
    LET last == events[c][Len(events[c])]
    IN last.name # "started" /\ last.turn = Turns(c) =>
         disk[c].state = last.name

\* What conversation.list and conversation.open report of c.
Reported(c) ==
  IF disk[c] = Absent THEN "absent"
  ELSE IF disk[c].state \notin Active THEN disk[c].state
  ELSE IF Running(c) THEN "active" ELSE "interrupted"

Contract == INSTANCE ConversationContract
              WITH alive <- phase = "up",
                   status <- [c \in Convs |-> Reported(c)]

\* The store keeps the contract its clients rely on.
KeepsContract == Contract!Spec

\* A call that waits for runs to be cancelled is answered.
CallAnswered == (call.kind # "none") ~> (call.kind = "none")

\* What one would expect of a shutdown: it is answered when no coordinator works
\* any more.  It is not so (README, "Seen in the models").
ShutdownSettles ==
  [][ShutdownReturns =>
       \A c \in Convs : job[c].pc \notin {"running", "cancelling"}]_vars
=============================================================================
