------------------------- MODULE ConversationProofs -------------------------
(***************************************************************************)
(* What the conversation store keeps, for any conversations and however    *)
(* many turns: records that say what runs, replies that stand behind their *)
(* message, outcomes that last, and the contract of ConversationContract.  *)
(*                                                                         *)
(* The proofs come in three layers.  SInv relates the process, the files,  *)
(* the live handles and the runs, and is inductive by itself; the contract *)
(* follows from it.  TInv adds the transcript and the events, and          *)
(* OutcomeIsDurable needs both.                                            *)
(***************************************************************************)
EXTENDS Conversation, TLAPS, FiniteSetTheorems, SequenceTheorems

\* A process that is down has no handle and no task.
DownIsEmpty ==
  phase = "down" => \A c \in Convs : mem[c] = Absent /\ job[c] = NoJob

\* A run has a turn of its own, and a settled record has no run.
RunsFit ==
  \A c \in Convs :
    /\ Running(c) <=> job[c].turn # 0
    /\ disk[c] # Absent /\ disk[c].state \notin Active => disk[c].run = 0

SInv == TypeOK /\ DownIsEmpty /\ RunsFit /\ RecordsAreTrue

\* Events are about messages that were stored, of a conversation that is
\* recorded.  While a run is in progress its message is the last of the
\* transcript and its start the last event.
NumberedAt(c) ==
  /\ \A i \in DOMAIN events[c] : events[c][i].turn <= Turns(c)
  /\ disk[c] = Absent => events[c] = << >>
  /\ Running(c) =>
       /\ job[c].turn = Turns(c)
       /\ transcript[c] # << >>
       /\ transcript[c][Len(transcript[c])] =
            [role |-> "user", turn |-> job[c].turn]
       /\ events[c] # << >>
       /\ events[c][Len(events[c])] = [name |-> "started", turn |-> job[c].turn]

\* The three parts of RepliesInTurn, of a transcript and the events.
Replied(t) ==
  \A i \in DOMAIN t : t[i].role = "assistant" =>
    i > 1 /\ t[i - 1] = [t[i] EXCEPT !.role = "user"]

Ordered(e) ==
  \A i, j \in DOMAIN e : i < j =>
    \/ e[i].turn < e[j].turn
    \/ e[i].turn = e[j].turn /\ e[i].name = "started" /\ e[j].name # "started"

Stored(e, t) ==
  \A i \in DOMAIN e : e[i].name = "completed" =>
    \E j \in DOMAIN t : t[j] = [role |-> "assistant", turn |-> e[i].turn]

ToldAt(c) ==
  /\ NumberedAt(c)
  /\ Replied(transcript[c])
  /\ Ordered(events[c])
  /\ Stored(events[c], transcript[c])

\* OutcomeIsDurable of one conversation.
DurableAt(c) ==
  events[c] # << >> =>
    LET last == events[c][Len(events[c])]
    IN last.name # "started" /\ last.turn = Turns(c) =>
         disk[c].state = last.name

TInv == \A c \in Convs : ToldAt(c)

DInv == \A c \in Convs : DurableAt(c)

IInv == SInv /\ TInv /\ DInv

-----------------------------------------------------------------------------
(* Turns *)

\* The turns of a conversation are a number.
LEMMA TurnsNat ==
  ASSUME TypeOK, NEW c \in Convs
  PROVE  Turns(c) \in Nat
  <1> DEFINE U == {i \in DOMAIN transcript[c] : transcript[c][i].role = "user"}
  <1>1. IsFiniteSet(U)
    <2>1. DOMAIN transcript[c] = 1 .. Len(transcript[c]) /\ Len(transcript[c]) \in Nat
      BY DEF TypeOK
    <2>2. IsFiniteSet(1 .. Len(transcript[c]))
      BY <2>1, FS_Interval
    <2> QED BY <2>1, <2>2, FS_Subset
  <1> QED BY <1>1, FS_CardinalityType DEF Turns

\* A stored message adds a turn when it is the user's, and none otherwise.
LEMMA TurnsOfSaid ==
  ASSUME TypeOK, NEW c \in Convs, NEW role \in {"user", "assistant"},
         NEW turn \in Nat \ {0}, transcript' = Said(c, role, turn)
  PROVE  /\ Turns(c)' = IF role = "user" THEN Turns(c) + 1 ELSE Turns(c)
         /\ \A d \in Convs : d # c => Turns(d)' = Turns(d)
  <1> DEFINE t == transcript[c]
             m == [role |-> role, turn |-> turn]
             U == {i \in DOMAIN t : t[i].role = "user"}
  <1>1. transcript'[c] = Append(t, m) /\ \A d \in Convs : d # c =>
          transcript'[d] = transcript[d]
    BY DEF TypeOK, Said
  <1>2. /\ t \in Seq([role : {"user", "assistant"}, turn : Nat \ {0}])
        /\ Len(t) \in Nat /\ DOMAIN t = 1 .. Len(t)
    BY DEF TypeOK
  <1>3. /\ DOMAIN transcript'[c] = 1 .. Len(t) + 1
        /\ \A i \in DOMAIN t : transcript'[c][i] = t[i]
        /\ transcript'[c][Len(t) + 1].role = role
    BY <1>1, <1>2
  <1>4. IsFiniteSet(U)
    <2>1. IsFiniteSet(1 .. Len(t))
      BY <1>2, FS_Interval
    <2> QED BY <1>2, <2>1, FS_Subset
  <1>5. Len(t) + 1 \notin U
    BY <1>2
  <1>6. {i \in DOMAIN transcript'[c] : transcript'[c][i].role = "user"} =
          IF role = "user" THEN U \cup {Len(t) + 1} ELSE U
    BY <1>2, <1>3
  <1>7. Cardinality(U \cup {Len(t) + 1}) = Cardinality(U) + 1
    BY <1>4, <1>5, FS_AddElement
  <1> QED BY <1>1, <1>6, <1>7 DEF Turns

-----------------------------------------------------------------------------
(* Records, runs and the process *)

\* No conversation exists in the initial state.
LEMMA InitS == Init => SInv
  <1> SUFFICES ASSUME Init PROVE SInv
    OBVIOUS
  <1>1. TypeOK
    <2>1. NoJob \in Job
      BY DEF NoJob, Job
    <2>2. NoCall \in Call
      BY DEF NoCall, Call
    <2>3. \A S : << >> \in Seq(S)
      OBVIOUS
    <2> QED BY <2>1, <2>2, <2>3 DEF Init, TypeOK
  <1>2. DownIsEmpty /\ RunsFit /\ RecordsAreTrue
    BY DEF Init, DownIsEmpty, RunsFit, RecordsAreTrue, Running, NoJob
  <1> QED BY <1>1, <1>2 DEF SInv

\* Steps that touch neither a record nor a run.
LEMMA QuietS ==
  ASSUME SInv, UNCHANGED <<phase, disk, transcript, mem, job, events>>,
         registered' \in BOOLEAN, call' \in Call
  PROVE  SInv'
  BY DEF SInv, TypeOK, DownIsEmpty, RunsFit, RecordsAreTrue, Running

\* A record is written for one conversation whose run, if any, goes on.
LEMMA UpdateS ==
  ASSUME SInv, phase # "down", NEW c \in Convs, NEW rec \in Record,
         Update(c, rec), UNCHANGED <<phase, transcript, events>>,
         registered' \in BOOLEAN, call' \in Call,
         job' \in [Convs -> Job],
         \A d \in Convs : d # c => job'[d] = job[d],
         job'[c].turn = job[c].turn,
         (job'[c].pc = "none") <=> (job[c].pc = "none"),
         (rec.state \in Active) <=> Running(c),
         rec.run = job[c].turn
  PROVE  SInv'
  <1>1. /\ mem' \in [Convs -> Record \cup {Absent}]
        /\ disk' \in [Convs -> Record \cup {Absent}]
        /\ mem'[c] = rec /\ disk'[c] = rec
        /\ \A d \in Convs : d # c => mem'[d] = mem[d] /\ disk'[d] = disk[d]
    BY DEF SInv, TypeOK, Update
  <1>2. TypeOK'
    BY <1>1 DEF SInv, TypeOK
  <1>3. DownIsEmpty'
    BY DEF DownIsEmpty
  <1>4. RunsFit'
    BY <1>1 DEF SInv, RunsFit, Running
  <1>5. RecordsAreTrue'
    BY <1>1, AbsentAssumption DEF SInv, RecordsAreTrue, Running
  <1> QED BY <1>2, <1>3, <1>4, <1>5 DEF SInv

\* What a live conversation's record says, and what a conversation without a
\* handle cannot have.
LEMMA Live ==
  ASSUME SInv, phase # "down", NEW c \in Convs
  PROVE  /\ mem[c] # Absent =>
              /\ mem[c] \in Record /\ disk[c] = mem[c]
              /\ (mem[c].state \in Active) <=> Running(c)
              /\ mem[c].run = job[c].turn
         /\ mem[c] = Absent => ~Running(c) /\ job[c].turn = 0
         /\ job[c] \in Job
         /\ Running(c) => job[c].turn \in Nat \ {0}
  BY DEF SInv, TypeOK, RecordsAreTrue, RunsFit, Running, Job

\* A new conversation has a record and no run.
LEMMA CreateS ==
  ASSUME SInv, NEW c \in Convs, Create(c)
  PROVE  SInv'
  <1> DEFINE rec == [state |-> "idle", run |-> 0, archived |-> FALSE]
  <1>1. phase = "up" /\ disk[c] = Absent
    BY DEF Create, Accepting
  <1>2. ~Running(c) /\ job[c].turn = 0
    BY <1>1, Live
  <1>3. rec \in Record /\ rec.state \notin Active /\ rec.run = 0
    BY DEF Record, States, Active
  <1>4. /\ Update(c, rec)
        /\ registered' \in BOOLEAN /\ call' \in Call
        /\ job' = job /\ job' \in [Convs -> Job]
        /\ UNCHANGED <<phase, transcript, events>>
    BY DEF Create, SInv, TypeOK
  <1> HIDE DEF rec
  <1> QED BY <1>1, <1>2, <1>3, <1>4, UpdateS

\* What an open makes of a record that says a run goes on.
LEMMA InterruptedRecord ==
  ASSUME NEW rec \in Record
  PROVE  /\ Interrupted(rec) \in Record
         /\ Interrupted(rec).state \notin Active
         /\ rec.state \notin Active => Interrupted(rec) = rec
         /\ rec.state \in Active => Interrupted(rec).state = "interrupted"
         /\ rec.state \in Active => Interrupted(rec).run = 0
         /\ Interrupted(rec) # Absent
  <1>1. CASE rec.state \notin Active
    BY <1>1, AbsentAssumption DEF Interrupted
  <1>2. CASE rec.state \in Active
    <2> DEFINE r == [rec EXCEPT !.state = "interrupted", !.run = 0]
    <2>1. r \in Record /\ r.state = "interrupted" /\ r.run = 0
      BY DEF Record, States
    <2>2. Interrupted(rec) = r
      BY <1>2 DEF Interrupted
    <2> HIDE DEF r
    <2> QED BY <1>2, <2>1, <2>2, AbsentAssumption DEF Active
  <1> QED BY <1>1, <1>2

\* An open reads the record and corrects it when the run it tells of is gone.
LEMMA OpenS ==
  ASSUME SInv, NEW c \in Convs, Open(c)
  PROVE  SInv'
  <1>1. phase = "up" /\ mem[c] = Absent /\ disk[c] \in Record
    BY DEF Open, Accepting, SInv, TypeOK
  <1>2. ~Running(c) /\ job[c].turn = 0
    BY <1>1, Live
  <1>3. disk[c].state \notin Active => disk[c].run = 0
    BY DEF SInv, RunsFit, Open
  <1>4. /\ Interrupted(disk[c]) \in Record
        /\ Interrupted(disk[c]).state \notin Active
        /\ Interrupted(disk[c]).run = 0
    BY <1>1, <1>3, InterruptedRecord
  <1>5. /\ Update(c, Interrupted(disk[c]))
        /\ registered' \in BOOLEAN /\ call' \in Call
        /\ job' = job /\ job' \in [Convs -> Job]
        /\ UNCHANGED <<phase, transcript, events>>
    BY DEF Open, SInv, TypeOK
  <1> QED BY <1>1, <1>2, <1>4, <1>5, UpdateS

\* A listing corrects the records of runs that are gone, of conversations
\* without a handle.
LEMMA ListS == ASSUME SInv, List PROVE SInv'
  <1>1. /\ phase = "up"
        /\ disk' = [c \in Convs |-> Listed(c)]
        /\ UNCHANGED <<phase, registered, transcript, mem, job, call, events>>
    BY DEF List, Accepting
  <1>2. \A c \in Convs :
          /\ disk'[c] \in Record \cup {Absent}
          /\ mem[c] # Absent => disk'[c] = disk[c]
          /\ disk'[c] # Absent /\ disk'[c].state \notin Active => disk'[c].run = 0
    <2> SUFFICES ASSUME NEW c \in Convs
                 PROVE  /\ Listed(c) \in Record \cup {Absent}
                        /\ mem[c] # Absent => Listed(c) = disk[c]
                        /\ Listed(c) # Absent /\ Listed(c).state \notin Active =>
                             Listed(c).run = 0
      BY <1>1
    <2>1. disk[c] \in Record \cup {Absent}
      BY DEF SInv, TypeOK
    <2>2. disk[c] # Absent /\ disk[c].state \notin Active => disk[c].run = 0
      BY DEF SInv, RunsFit
    <2>3. CASE disk[c] = Absent \/ Running(c)
      BY <2>1, <2>2, <2>3 DEF Listed
    <2>4. CASE disk[c] # Absent /\ ~Running(c)
      <3>1. Listed(c) = Interrupted(disk[c]) /\ disk[c] \in Record
        BY <2>1, <2>4 DEF Listed
      <3>2. mem[c] # Absent => disk[c].state \notin Active
        BY <1>1, <2>4, Live
      <3> QED BY <2>2, <3>1, <3>2, InterruptedRecord
    <2> QED BY <2>3, <2>4
  <1>3. TypeOK'
    BY <1>1, <1>2 DEF SInv, TypeOK
  <1>4. DownIsEmpty' /\ RunsFit'
    BY <1>1, <1>2 DEF SInv, DownIsEmpty, RunsFit, Running
  <1>5. RecordsAreTrue'
    BY <1>1, <1>2 DEF SInv, RecordsAreTrue, Running
  <1> QED BY <1>3, <1>4, <1>5 DEF SInv

\* Archiving writes the record and leaves its state alone.
LEMMA ArchiveS ==
  ASSUME SInv, NEW c \in Convs, NEW archived \in BOOLEAN, Archive(c, archived)
  PROVE  SInv'
  <1> DEFINE rec == [mem[c] EXCEPT !.archived = archived]
  <1>1. phase = "up" /\ mem[c] # Absent
    BY DEF Archive, Accepting, Reachable
  <1>2. /\ mem[c] \in Record /\ mem[c].run = job[c].turn
        /\ (mem[c].state \in Active) <=> Running(c)
    BY <1>1, Live
  <1>3. /\ rec \in Record /\ rec.state = mem[c].state /\ rec.run = mem[c].run
    BY <1>2 DEF Record
  <1>4. /\ Update(c, rec)
        /\ registered' \in BOOLEAN /\ call' \in Call
        /\ job' = job /\ job' \in [Convs -> Job]
        /\ UNCHANGED <<phase, transcript, events>>
    BY DEF Archive, SInv, TypeOK
  <1> HIDE DEF rec
  <1> QED BY <1>1, <1>2, <1>3, <1>4, UpdateS

\* The shared part of cancel and shutdown, and the start of a run.
LEMMA MarkS ==
  ASSUME SInv, phase # "down", NEW c \in Convs, NEW state \in Active,
         Running(c), Update(c, [mem[c] EXCEPT !.state = state]),
         NEW pc \in {"created", "running", "cancelling"} \cup Done,
         job' = [job EXCEPT ![c].pc = pc],
         UNCHANGED <<phase, registered, transcript, events>>, call' \in Call
  PROVE  SInv'
  <1> DEFINE rec == [mem[c] EXCEPT !.state = state]
  <1>1. mem[c] \in Record /\ mem[c].run = job[c].turn
    BY Live
  <1>2. rec \in Record /\ rec.state \in Active /\ rec.run = mem[c].run
    BY <1>1 DEF Record, States
  <1>3. /\ job' \in [Convs -> Job]
        /\ \A d \in Convs : d # c => job'[d] = job[d]
        /\ job'[c].turn = job[c].turn /\ job'[c].pc # "none"
    BY DEF SInv, TypeOK, Job, Done
  <1>4. job[c].pc # "none"
    BY DEF Running
  <1>5. registered' \in BOOLEAN
    BY DEF SInv, TypeOK
  <1>6. rec.run = job[c].turn
    BY <1>1, <1>2
  <1>7. Update(c, rec)
    OBVIOUS
  <1> HIDE DEF rec
  <1> QED BY <1>2, <1>3, <1>4, <1>5, <1>6, <1>7, UpdateS

\* A cancel marks the record and a run that is past its first step.
LEMMA CancellingS ==
  ASSUME SInv, phase # "down", NEW c \in Convs, Cancelling(c),
         UNCHANGED <<phase, registered, transcript, events>>, call' \in Call
  PROVE  SInv'
  <1>1. /\ Update(c, [mem[c] EXCEPT !.state = "cancelling"])
        /\ Running(c) /\ "cancelling" \in Active
    BY DEF Cancelling, Running, Active
  <1>2. CASE job[c].pc \in Done
    <2>1. job' = [job EXCEPT ![c].pc = job[c].pc]
      BY <1>2 DEF Cancelling, SInv, TypeOK, Job
    <2> QED BY <1>1, <1>2, <2>1, MarkS
  <1>3. CASE job[c].pc \notin Done
    <2>1. job' = [job EXCEPT ![c].pc = "cancelling"]
      BY <1>3 DEF Cancelling
    <2> QED BY <1>1, <2>1, MarkS
  <1> QED BY <1>2, <1>3

\* The task of a run takes its first step.
LEMMA RunBeginsS ==
  ASSUME SInv, NEW c \in Convs, RunBegins(c)
  PROVE  SInv'
  <1>1. /\ phase # "down" /\ Running(c) /\ "working" \in Active
        /\ Update(c, [mem[c] EXCEPT !.state = "working"])
        /\ job' = [job EXCEPT ![c].pc = "running"]
        /\ UNCHANGED <<phase, registered, transcript, events>>
    BY DEF RunBegins, Running, Active
  <1>2. call' \in Call
    BY DEF RunBegins, SInv, TypeOK
  <1> QED BY <1>1, <1>2, MarkS

\* Runs go on, whoever moves them.
LEMMA JobsS ==
  ASSUME SInv, phase # "down", phase' \in {"up", "stopping"},
         UNCHANGED <<registered, disk, transcript, mem, events>>, call' \in Call,
         job' \in [Convs -> Job],
         \A c \in Convs : /\ job'[c].turn = job[c].turn
                          /\ (job'[c].pc = "none") <=> (job[c].pc = "none")
  PROVE  SInv'
  <1>1. TypeOK'
    BY DEF SInv, TypeOK
  <1>2. DownIsEmpty' /\ RunsFit'
    BY DEF SInv, DownIsEmpty, RunsFit, Running
  <1>3. RecordsAreTrue'
    BY DEF SInv, RecordsAreTrue, Running
  <1> QED BY <1>1, <1>2, <1>3 DEF SInv

\* The coordinator ends, is cancelled or swallows the cancellation.
LEMMA CoordinatorS ==
  ASSUME SInv, NEW c \in Convs,
         OrchestratorEnds(c) \/ CancelTakesEffect(c) \/ SwallowCancel(c)
  PROVE  SInv'
  <1>1. PICK pc \in {"running"} \cup Done : job' = [job EXCEPT ![c].pc = pc]
    BY DEF OrchestratorEnds, CancelTakesEffect, SwallowCancel, Done
  <1>2. /\ phase # "down" /\ job[c].pc # "none"
        /\ UNCHANGED <<phase, registered, disk, transcript, mem, call, events>>
    BY DEF OrchestratorEnds, CancelTakesEffect, SwallowCancel
  <1>3. phase' \in {"up", "stopping"} /\ call' \in Call
    BY <1>2 DEF SInv, TypeOK
  <1>4. /\ job' \in [Convs -> Job]
        /\ \A d \in Convs : /\ job'[d].turn = job[d].turn
                            /\ (job'[d].pc = "none") <=> (job[d].pc = "none")
    BY <1>1, <1>2 DEF SInv, TypeOK, Job, Done
  <1> QED BY <1>2, <1>3, <1>4, JobsS

\* The tear-down begins and ends no run.
LEMMA TornDown ==
  ASSUME SInv, TearDown
  PROVE  /\ job' \in [Convs -> Job]
         /\ \A d \in Convs : /\ job'[d].turn = job[d].turn
                             /\ (job'[d].pc = "none") <=> (job[d].pc = "none")
  <1> DEFINE New(d) ==
        CASE job[d].pc = "running" -> [job[d] EXCEPT !.pc = "cancelling"]
          [] job[d].pc \in Done -> [job[d] EXCEPT !.pc = "stopped"]
          [] OTHER -> job[d]
  <1>1. job' = [d \in Convs |-> New(d)]
    BY DEF TearDown
  <1>2. ASSUME NEW d \in Convs
        PROVE  /\ New(d) \in Job /\ New(d).turn = job[d].turn
               /\ (New(d).pc = "none") <=> (job[d].pc = "none")
    <2>1. job[d] \in Job
      BY DEF SInv, TypeOK
    <2>2. CASE job[d].pc = "running"
      <3>1. New(d) = [job[d] EXCEPT !.pc = "cancelling"]
        BY <2>2, Zenon DEF Done
      <3> HIDE DEF New
      <3> QED BY <2>1, <2>2, <3>1 DEF Job
    <2>3. CASE job[d].pc \in Done
      <3>1. New(d) = [job[d] EXCEPT !.pc = "stopped"]
        BY <2>3 DEF Done
      <3> HIDE DEF New
      <3> QED BY <2>1, <2>3, <3>1 DEF Job, Done
    <2>4. CASE job[d].pc # "running" /\ job[d].pc \notin Done
      <3>1. New(d) = job[d]
        BY <2>4
      <3> HIDE DEF New
      <3> QED BY <2>1, <3>1
    <2> QED BY <2>2, <2>3, <2>4
  <1> HIDE DEF New
  <1> QED BY <1>1, <1>2

\* The process tears down: every run that goes on is being cancelled.
LEMMA TearDownS == ASSUME SInv, phase = "up", TearDown PROVE SInv'
  <1>1. /\ phase' = "stopping" /\ call' = NoCall
        /\ UNCHANGED <<registered, disk, transcript, mem, events>>
    BY DEF TearDown
  <1>2. /\ job' \in [Convs -> Job]
        /\ \A d \in Convs : /\ job'[d].turn = job[d].turn
                            /\ (job'[d].pc = "none") <=> (job[d].pc = "none")
    BY TornDown
  <1>3. call' \in Call
    BY <1>1 DEF NoCall, Call
  <1> QED BY <1>1, <1>2, <1>3, JobsS

\* The record of a run that ends, whose job goes with it.
LEMMA SettleS ==
  ASSUME SInv, phase # "down", NEW c \in Convs, Running(c),
         NEW state \in States \ Active,
         Update(c, Settled(c, state)),
         job' = [job EXCEPT ![c] = NoJob],
         UNCHANGED <<phase, registered>>, call' \in Call,
         transcript' \in
           [Convs -> Seq([role : {"user", "assistant"}, turn : Nat \ {0}])],
         events' \in
           [Convs -> Seq([name : {"started", "completed", "cancelled", "failed"},
                          turn : Nat \ {0}])]
  PROVE  SInv'
  <1> DEFINE rec == Settled(c, state)
  <1>1. mem[c] # Absent /\ mem[c] \in Record
    BY Live
  <1>2. rec \in Record /\ rec.state \notin Active /\ rec.run = 0
    BY <1>1 DEF Settled, Record
  <1>3. /\ job' \in [Convs -> Job]
        /\ job'[c].pc = "none" /\ job'[c].turn = 0
        /\ \A d \in Convs : d # c => job'[d] = job[d]
    BY DEF SInv, TypeOK, Job, NoJob
  <1>4. Update(c, rec)
    OBVIOUS
  <1> HIDE DEF rec
  <1>5. /\ mem' \in [Convs -> Record \cup {Absent}]
        /\ disk' \in [Convs -> Record \cup {Absent}]
        /\ mem'[c] = rec /\ disk'[c] = rec
        /\ \A d \in Convs : d # c => mem'[d] = mem[d] /\ disk'[d] = disk[d]
    BY <1>2, <1>4 DEF SInv, TypeOK, Update
  <1>6. TypeOK'
    BY <1>3, <1>5 DEF SInv, TypeOK
  <1>7. DownIsEmpty'
    BY DEF DownIsEmpty
  <1>8. RunsFit'
    BY <1>2, <1>3, <1>5 DEF SInv, RunsFit, Running
  <1>9. RecordsAreTrue'
    BY <1>2, <1>3, <1>5, AbsentAssumption DEF SInv, RecordsAreTrue, Running
  <1> QED BY <1>6, <1>7, <1>8, <1>9 DEF SInv

\* What is stored and emitted keeps its type.
LEMMA SaidType ==
  ASSUME TypeOK, NEW c \in Convs, NEW role \in {"user", "assistant"},
         NEW turn \in Nat \ {0}
  PROVE  Said(c, role, turn) \in
           [Convs -> Seq([role : {"user", "assistant"}, turn : Nat \ {0}])]
  BY DEF TypeOK, Said

\* So does what is announced.
LEMMA EmittedType ==
  ASSUME TypeOK, NEW c \in Convs, NEW turn \in Nat \ {0},
         NEW name \in {"started", "completed", "cancelled", "failed"}
  PROVE  Emitted(c, name, turn) \in
           [Convs -> Seq([name : {"started", "completed", "cancelled", "failed"},
                          turn : Nat \ {0}])]
  BY DEF TypeOK, Emitted

\* The outcome of a run is a state at rest.
LEMMA OutcomeState ==
  ASSUME NEW pc \in Done
  PROVE  /\ OutcomeOf(pc) \in {"completed", "failed", "cancelled"}
         /\ OutcomeOf(pc) \in States \ Active
         /\ OutcomeOf(pc) = "completed" => pc = "returned"
  BY DEF OutcomeOf, Done, States, Active

\* A run that cannot begin has failed.
LEMMA RunCannotBeginS ==
  ASSUME SInv, NEW c \in Convs, RunCannotBegin(c)
  PROVE  SInv'
  <1>1. /\ phase # "down" /\ Running(c)
        /\ Update(c, Settled(c, "failed"))
        /\ job' = [job EXCEPT ![c] = NoJob]
        /\ events' = Emitted(c, "failed", job[c].turn)
        /\ UNCHANGED <<phase, registered, transcript, call>>
    BY DEF RunCannotBegin, Running
  <1>2. "failed" \in States \ Active
    BY DEF States, Active
  <1>3. job[c].turn \in Nat \ {0}
    BY <1>1, Live
  <1>4. events' \in
          [Convs -> Seq([name : {"started", "completed", "cancelled", "failed"},
                         turn : Nat \ {0}])]
    BY <1>1, <1>3, EmittedType DEF SInv
  <1>5. /\ call' \in Call
        /\ transcript' \in
             [Convs -> Seq([role : {"user", "assistant"}, turn : Nat \ {0}])]
    BY <1>1 DEF SInv, TypeOK
  <1> QED BY <1>1, <1>2, <1>4, <1>5, SettleS

\* A run stores its reply, settles its record and announces the outcome.
LEMMA RunResumesS ==
  ASSUME SInv, NEW c \in Convs, RunResumes(c)
  PROVE  SInv'
  <1> DEFINE outcome == OutcomeOf(job[c].pc)
  <1>1. /\ phase # "down" /\ Running(c) /\ job[c].pc \in Done
        /\ Update(c, Settled(c, outcome))
        /\ job' = [job EXCEPT ![c] = NoJob]
        /\ events' = Emitted(c, outcome, job[c].turn)
        /\ UNCHANGED <<phase, registered>>
    BY DEF RunResumes, Running, Done
  <1>2. outcome \in States \ Active
        /\ outcome \in {"started", "completed", "cancelled", "failed"}
    BY <1>1, OutcomeState
  <1>3. job[c].turn \in Nat \ {0}
    BY <1>1, Live
  <1> HIDE DEF outcome
  <1>4. events' \in
          [Convs -> Seq([name : {"started", "completed", "cancelled", "failed"},
                         turn : Nat \ {0}])]
    BY <1>1, <1>2, <1>3, EmittedType DEF SInv
  <1>5. transcript' \in
          [Convs -> Seq([role : {"user", "assistant"}, turn : Nat \ {0}])]
    <2>1. transcript' = transcript \/ transcript' = Said(c, "assistant", job[c].turn)
      BY DEF RunResumes
    <2>2. "assistant" \in {"user", "assistant"}
      OBVIOUS
    <2>3. transcript \in
            [Convs -> Seq([role : {"user", "assistant"}, turn : Nat \ {0}])]
      BY DEF SInv, TypeOK
    <2> QED BY <1>3, <2>1, <2>2, <2>3, SaidType DEF SInv
  <1>6. call' \in Call
    BY DEF RunResumes, SInv, TypeOK, Call
  <1> QED BY <1>1, <1>2, <1>4, <1>5, <1>6, SettleS

\* A message is stored, recorded and announced, then the run is created.
LEMMA SendS ==
  ASSUME SInv, NEW c \in Convs, Send(c)
  PROVE  SInv'
  <1> DEFINE turn == Turns(c) + 1
             rec  == Begun(c, turn)
  <1>1. /\ phase = "up" /\ mem[c] # Absent
        /\ transcript' = Said(c, "user", turn)
        /\ Update(c, rec)
        /\ events' = Emitted(c, "started", turn)
        /\ job' = [job EXCEPT ![c] = [pc |-> "created", turn |-> turn]]
        /\ UNCHANGED <<phase, registered, call>>
    BY DEF Send, Accepting, Reachable
  <1>2. turn \in Nat \ {0}
    BY TurnsNat DEF SInv
  <1>3. mem[c] \in Record
    BY <1>1, Live
  <1> HIDE DEF turn
  <1>4. rec \in Record /\ rec.state \in Active /\ rec.run = turn
    BY <1>2, <1>3 DEF Begun, Record, States, Active
  <1>5. /\ job' \in [Convs -> Job]
        /\ job'[c].pc = "created" /\ job'[c].turn = turn
        /\ \A d \in Convs : d # c => job'[d] = job[d]
    BY <1>1, <1>2 DEF SInv, TypeOK, Job
  <1> HIDE DEF rec
  <1>6. /\ mem' \in [Convs -> Record \cup {Absent}]
        /\ disk' \in [Convs -> Record \cup {Absent}]
        /\ mem'[c] = rec /\ disk'[c] = rec
        /\ \A d \in Convs : d # c => mem'[d] = mem[d] /\ disk'[d] = disk[d]
    BY <1>1, <1>4 DEF SInv, TypeOK, Update
  <1>7. TypeOK'
    <2>1. transcript' \in
            [Convs -> Seq([role : {"user", "assistant"}, turn : Nat \ {0}])]
      BY <1>1, <1>2, SaidType DEF SInv
    <2>2. events' \in
            [Convs -> Seq([name : {"started", "completed", "cancelled", "failed"},
                           turn : Nat \ {0}])]
      BY <1>1, <1>2, EmittedType DEF SInv
    <2> QED BY <1>1, <1>5, <1>6, <2>1, <2>2 DEF SInv, TypeOK
  <1>8. DownIsEmpty'
    BY <1>1 DEF DownIsEmpty
  <1>9. RunsFit'
    BY <1>2, <1>4, <1>5, <1>6 DEF SInv, RunsFit, Running
  <1>10. RecordsAreTrue'
    BY <1>1, <1>4, <1>5, <1>6, AbsentAssumption
    DEF SInv, RecordsAreTrue, Running
  <1> QED BY <1>7, <1>8, <1>9, <1>10 DEF SInv

\* The process is gone; at most one file was written on the way.
LEMMA GoneS ==
  ASSUME SInv, Gone, UNCHANGED events,
         transcript' \in
           [Convs -> Seq([role : {"user", "assistant"}, turn : Nat \ {0}])],
         disk' \in [Convs -> Record \cup {Absent}],
         \A c \in Convs : \/ disk'[c] = disk[c]
                          \/ disk'[c].state \notin Active => disk'[c].run = 0
  PROVE  SInv'
  <1>1. /\ phase' = "down" /\ call' = NoCall /\ registered' = registered
        /\ mem' = [c \in Convs |-> Absent]
        /\ job' = [c \in Convs |-> NoJob]
    BY DEF Gone
  <1>2. NoJob \in Job /\ NoCall \in Call
    BY DEF NoJob, Job, NoCall, Call
  <1>3. TypeOK'
    BY <1>1, <1>2 DEF SInv, TypeOK
  <1>4. DownIsEmpty' /\ RunsFit' /\ RecordsAreTrue'
    BY <1>1 DEF SInv, DownIsEmpty, RunsFit, RecordsAreTrue, Running, NoJob
  <1> QED BY <1>3, <1>4 DEF SInv

\* The process dies between the writes of a send.
LEMMA KillInSendS ==
  ASSUME SInv, NEW c \in Convs, KillInSend(c)
  PROVE  SInv'
  <1> DEFINE turn == Turns(c) + 1
             rec  == Begun(c, turn)
  <1>1. /\ phase # "down" /\ mem[c] # Absent /\ Gone /\ UNCHANGED events
        /\ transcript' = Said(c, "user", turn)
        /\ disk' = [disk EXCEPT ![c] = rec] \/ disk' = disk
    BY DEF KillInSend, Accepting, Reachable
  <1>2. turn \in Nat \ {0}
    BY TurnsNat DEF SInv
  <1>3. mem[c] \in Record
    BY <1>1, Live
  <1> HIDE DEF turn
  <1>4. rec \in Record /\ rec.state \in Active
    BY <1>2, <1>3 DEF Begun, Record, States, Active
  <1>5. transcript' \in
          [Convs -> Seq([role : {"user", "assistant"}, turn : Nat \ {0}])]
    BY <1>1, <1>2, SaidType DEF SInv
  <1> HIDE DEF rec
  <1>6. /\ disk' \in [Convs -> Record \cup {Absent}]
        /\ \A d \in Convs : \/ disk'[d] = disk[d]
                            \/ disk'[d].state \notin Active => disk'[d].run = 0
    BY <1>1, <1>4 DEF SInv, TypeOK
  <1> QED BY <1>1, <1>5, <1>6, GoneS

\* The process dies between the writes of the end of a run.
LEMMA KillInFinishS ==
  ASSUME SInv, NEW c \in Convs, KillInFinish(c)
  PROVE  SInv'
  <1> DEFINE rec == Settled(c, OutcomeOf(job[c].pc))
  <1>1. /\ phase # "down" /\ Running(c) /\ job[c].pc \in Done
        /\ Gone /\ UNCHANGED events
        /\ disk' = [disk EXCEPT ![c] = rec] \/ disk' = disk
    BY DEF KillInFinish, Running, Done
  <1>2. mem[c] \in Record /\ job[c].turn \in Nat \ {0}
    BY <1>1, Live
  <1>3. rec \in Record /\ rec.run = 0
    <2>1. OutcomeOf(job[c].pc) \in States
      BY <1>1, OutcomeState
    <2> QED BY <1>2, <2>1 DEF Settled, Record
  <1> HIDE DEF rec
  <1>4. /\ disk' \in [Convs -> Record \cup {Absent}]
        /\ \A d \in Convs : \/ disk'[d] = disk[d]
                            \/ disk'[d].state \notin Active => disk'[d].run = 0
    BY <1>1, <1>3 DEF SInv, TypeOK
  <1>5. transcript' \in
          [Convs -> Seq([role : {"user", "assistant"}, turn : Nat \ {0}])]
    <2>1. transcript' = transcript \/ transcript' = Said(c, "assistant", job[c].turn)
      BY DEF KillInFinish
    <2>2. "assistant" \in {"user", "assistant"}
      OBVIOUS
    <2>3. transcript \in
            [Convs -> Seq([role : {"user", "assistant"}, turn : Nat \ {0}])]
      BY DEF SInv, TypeOK
    <2> QED BY <1>2, <2>1, <2>2, <2>3, SaidType DEF SInv
  <1> QED BY <1>1, <1>4, <1>5, GoneS

\* A process starts without handles.
LEMMA RestartS == ASSUME SInv, Restart PROVE SInv'
  <1>1. /\ phase = "down" /\ phase' = "up"
        /\ UNCHANGED <<registered, disk, transcript, mem, job, call, events>>
    BY DEF Restart
  <1>2. \A c \in Convs : mem[c] = Absent /\ job[c] = NoJob
    BY <1>1 DEF SInv, DownIsEmpty
  <1>3. TypeOK'
    BY <1>1 DEF SInv, TypeOK
  <1>4. DownIsEmpty' /\ RunsFit'
    BY <1>1 DEF SInv, DownIsEmpty, RunsFit, Running
  <1>5. RecordsAreTrue'
    BY <1>1, <1>2 DEF RecordsAreTrue, Running, NoJob
  <1> QED BY <1>3, <1>4, <1>5 DEF SInv

\* Every step keeps the first layer.
LEMMA NextS == SInv /\ [Next]_vars => SInv'
  <1> SUFFICES ASSUME SInv, [Next]_vars PROVE SInv'
    OBVIOUS
  <1>1. CASE OpenProject \/ RemoveProject \/ Shutdown \/ CancelReturns
    <2>1. UNCHANGED <<phase, disk, transcript, mem, job, events>>
      BY <1>1 DEF OpenProject, RemoveProject, Shutdown, CancelReturns
    <2>2. registered' \in BOOLEAN /\ call' \in Call
      <3>1. CASE Shutdown
        <4>1. call' = [kind |-> "shutdown", conv |-> Absent, raised |-> FALSE,
                       todo |-> {c \in Convs : mem[c] # Absent}]
          BY <3>1 DEF Shutdown, NoCall
        <4>2. {c \in Convs : mem[c] # Absent} \in SUBSET Convs
          OBVIOUS
        <4>3. call' \in Call
          BY <4>1, <4>2 DEF Call
        <4> QED BY <3>1, <4>3 DEF Shutdown, SInv, TypeOK
      <3>2. CASE CancelReturns
        BY <3>2 DEF CancelReturns, SInv, TypeOK, Call, NoCall
      <3>3. CASE OpenProject \/ RemoveProject
        BY <3>3 DEF OpenProject, RemoveProject, SInv, TypeOK
      <3> QED BY <1>1, <3>1, <3>2, <3>3
    <2> QED BY <2>1, <2>2, QuietS
  <1>2. ASSUME NEW c \in Convs, ShutdownSkips(c) PROVE SInv'
    <2>1. UNCHANGED <<phase, disk, transcript, mem, job, events>>
      BY <1>2 DEF ShutdownSkips
    <2>2. registered' \in BOOLEAN /\ call' \in Call
      BY <1>2 DEF ShutdownSkips, SInv, TypeOK, Call
    <2> QED BY <2>1, <2>2, QuietS
  <1>3. CASE List
    BY <1>3, ListS
  <1>4. CASE StdinCloses \/ ShutdownReturns
    BY <1>4, TearDownS DEF StdinCloses, ShutdownReturns, Accepting
  <1>5. ASSUME NEW c \in Convs, Create(c) \/ Open(c) \/ Send(c) PROVE SInv'
    BY <1>5, CreateS, OpenS, SendS
  <1>6. ASSUME NEW c \in Convs, Cancel(c) PROVE SInv'
    <2>1. /\ phase # "down" /\ Cancelling(c)
          /\ UNCHANGED <<phase, registered, transcript, events>>
      BY <1>6 DEF Cancel, Accepting
    <2>2. call' \in Call
      BY <1>6 DEF Cancel, Call, NoCall
    <2> QED BY <2>1, <2>2, CancellingS
  <1>7. ASSUME NEW c \in Convs, ShutdownCancels(c) PROVE SInv'
    <2>1. /\ phase # "down" /\ Cancelling(c)
          /\ UNCHANGED <<phase, registered, transcript, events>>
      BY <1>7 DEF ShutdownCancels, NextInShutdown
    <2>2. call' \in Call
      BY <1>7 DEF ShutdownCancels, SInv, TypeOK, Call
    <2> QED BY <2>1, <2>2, CancellingS
  <1>8. ASSUME NEW c \in Convs,
               Delete(c) \/ \E archived \in BOOLEAN : Archive(c, archived)
        PROVE  SInv'
    BY <1>8, ArchiveS DEF Delete
  <1>9. ASSUME NEW c \in Convs, RunStep(c) PROVE SInv'
    BY <1>9, RunBeginsS, RunCannotBeginS, RunResumesS DEF RunStep
  <1>10. ASSUME NEW c \in Convs,
                OrchestratorEnds(c) \/ CancelTakesEffect(c) \/ SwallowCancel(c)
         PROVE  SInv'
    BY <1>10, CoordinatorS
  <1>11. CASE Kill \/ Exit
    <2>1. Gone /\ UNCHANGED <<disk, transcript, events>>
      BY <1>11 DEF Kill, Exit
    <2>2. /\ disk' \in [Convs -> Record \cup {Absent}]
          /\ transcript' \in
               [Convs -> Seq([role : {"user", "assistant"}, turn : Nat \ {0}])]
      BY <2>1 DEF SInv, TypeOK
    <2> QED BY <2>1, <2>2, GoneS
  <1>12. ASSUME NEW c \in Convs, KillInSend(c) \/ KillInFinish(c) PROVE SInv'
    BY <1>12, KillInSendS, KillInFinishS
  <1>13. CASE Restart
    BY <1>13, RestartS
  <1>14. CASE UNCHANGED vars
    BY <1>14, QuietS DEF vars, SInv, TypeOK
  <1>15. ASSUME NEW c \in Convs, CancelIgnored(c) PROVE SInv'
    BY <1>14, <1>15 DEF CancelIgnored
  <1> QED BY <1>1, <1>2, <1>3, <1>4, <1>5, <1>6, <1>7, <1>8, <1>9, <1>10, <1>11,
        <1>12, <1>13, <1>14, <1>15
      DEF Next, ClientCall, CallStep, Death

\* SInv is an inductive invariant: records, runs and the process fit each
\* other in every reachable state.
LEMMA SInductive == Spec => []SInv
  BY InitS, NextS, PTL DEF Spec

-----------------------------------------------------------------------------
(* The contract *)

Reports == [c \in Convs |-> Reported(c)]

\* What a record is reported as, by its state and by whether its run goes on.
LEMMA ReportOf ==
  ASSUME SInv, NEW c \in Convs
  PROVE  /\ disk[c] = Absent => Reported(c) = "absent"
         /\ disk[c] # Absent => Reported(c) # "absent"
         /\ disk[c] # Absent /\ disk[c].state \notin Active =>
              Reported(c) = disk[c].state /\ Reported(c) # "active"
         /\ disk[c] # Absent /\ disk[c].state \in Active =>
              Reported(c) = IF Running(c) THEN "active" ELSE "interrupted"
         /\ Reported(c) \in Contract!Status
  <1>1. disk[c] # Absent => disk[c].state \in States
    BY DEF SInv, TypeOK, Record
  <1> QED BY <1>1 DEF Reported, States, Active, Contract!Status, Contract!Settled

\* A running conversation is reported as active, one with a handle and no run
\* as neither active nor absent.
LEMMA LiveReport ==
  ASSUME SInv, phase # "down", NEW c \in Convs
  PROVE  /\ Running(c) => Reported(c) = "active"
         /\ ~Running(c) => Reported(c) # "active"
         /\ mem[c] # Absent => Reported(c) # "absent"
         /\ ~Running(c) /\ mem[c] # Absent => Reported(c) = mem[c].state
  <1>1. Running(c) => mem[c] # Absent
    BY DEF SInv, RecordsAreTrue
  <1>2. mem[c] # Absent => disk[c] = mem[c] /\ ((mem[c].state \in Active) <=> Running(c))
    BY Live
  <1> QED BY <1>1, <1>2, ReportOf

\* A step that changes no report and leaves the process as it is.
LEMMA Stutters ==
  ASSUME (phase = "up")' <=> (phase = "up"),
         \A c \in Convs : Reported(c)' = Reported(c)
  PROVE  UNCHANGED <<phase = "up", Reports>>
  <1>1. (phase = "up")' = (phase = "up")
    OBVIOUS
  <1>2. Reports' = Reports
    BY DEF Reports
  <1> QED BY <1>1, <1>2

\* The report depends on the file and on whether the run goes on.
LEMMA SameReport ==
  ASSUME NEW c \in Convs, disk'[c] = disk[c], Running(c)' <=> Running(c)
  PROVE  Reported(c)' = Reported(c)
  BY DEF Reported

\* A step that changes the report of one conversation.
LEMMA Becomes ==
  ASSUME NEW c \in Convs, NEW x,
         Reported(c)' = x,
         \A d \in Convs : d # c => Reported(d)' = Reported(d)
  PROVE  Reports' = [Reports EXCEPT ![c] = x]
  BY DEF Reports

\* Update of one record, whose activity and state as reported stay.
LEMMA UpdateReport ==
  ASSUME SInv, SInv', NEW c \in Convs, NEW rec, Update(c, rec),
         \A d \in Convs : d # c => (Running(d)' <=> Running(d)),
         NEW d \in Convs, d # c
  PROVE  Reported(d)' = Reported(d)
  <1>1. disk'[d] = disk[d]
    BY DEF Update, SInv, TypeOK
  <1> QED BY <1>1, SameReport

\* A creation is one of the contract.
LEMMA CreateR ==
  ASSUME SInv, SInv', NEW c \in Convs, Create(c)
  PROVE  Contract!Create(c)
  <1> DEFINE rec == [state |-> "idle", run |-> 0, archived |-> FALSE]
  <1>1. /\ phase = "up" /\ phase' = "up" /\ disk[c] = Absent
        /\ Update(c, rec) /\ job' = job
    BY DEF Create, Accepting
  <1>2. disk'[c] = rec /\ rec # Absent /\ rec.state = "idle"
    <2>1. rec \in Record /\ rec.state = "idle"
      BY DEF Record, States
    <2> HIDE DEF rec
    <2> QED BY <1>1, <2>1, AbsentAssumption DEF Update, SInv, TypeOK
  <1> HIDE DEF rec
  <1>3. Reported(c)' = "idle"
    BY <1>2 DEF Reported, Active
  <1>4. \A d \in Convs : d # c => Reported(d)' = Reported(d)
    BY <1>1, UpdateReport DEF Running
  <1>5. Reports' = [Reports EXCEPT ![c] = "idle"]
    BY <1>3, <1>4, Becomes
  <1>6. Reports[c] = "absent"
    BY <1>1, ReportOf DEF Reports
  <1> QED BY <1>1, <1>5, <1>6 DEF Contract!Create, Reports

\* An open changes no report: what it corrects was reported so.
LEMMA OpenR ==
  ASSUME SInv, SInv', NEW c \in Convs, Open(c)
  PROVE  UNCHANGED <<phase = "up", Reports>>
  <1>1. /\ phase = "up" /\ phase' = phase /\ mem[c] = Absent
        /\ disk[c] \in Record /\ disk[c] # Absent
        /\ Update(c, Interrupted(disk[c])) /\ job' = job
    BY DEF Open, Accepting, SInv, TypeOK
  <1>2. ~Running(c)
    BY <1>1, Live
  <1>3. disk'[c] = Interrupted(disk[c])
    BY <1>1 DEF Update, SInv, TypeOK
  <1>4. Reported(c)' = Reported(c)
    BY <1>1, <1>2, <1>3, InterruptedRecord DEF Reported, Running
  <1>5. \A d \in Convs : d # c => Reported(d)' = Reported(d)
    BY <1>1, UpdateReport DEF Running
  <1> QED BY <1>1, <1>4, <1>5, Stutters

\* Nor does a listing.
LEMMA ListR ==
  ASSUME SInv, SInv', List
  PROVE  UNCHANGED <<phase = "up", Reports>>
  <1>1. /\ phase' = phase /\ job' = job
        /\ disk' = [c \in Convs |-> Listed(c)]
    BY DEF List
  <1>2. ASSUME NEW c \in Convs PROVE Reported(c)' = Reported(c)
    <2>1. disk'[c] = Listed(c) /\ (Running(c)' <=> Running(c))
      BY <1>1 DEF Running
    <2>2. CASE disk[c] = Absent \/ Running(c)
      BY <2>1, <2>2, SameReport DEF Listed
    <2>3. CASE disk[c] # Absent /\ ~Running(c)
      <3>1. Listed(c) = Interrupted(disk[c]) /\ disk[c] \in Record
        BY <2>3 DEF Listed, SInv, TypeOK
      <3> QED BY <2>1, <2>3, <3>1, InterruptedRecord DEF Reported, Running
    <2> QED BY <2>2, <2>3
  <1> QED BY <1>1, <1>2, Stutters

\* Nor does archiving.
LEMMA ArchiveR ==
  ASSUME SInv, SInv', NEW c \in Convs, NEW archived \in BOOLEAN,
         Archive(c, archived)
  PROVE  UNCHANGED <<phase = "up", Reports>>
  <1> DEFINE rec == [mem[c] EXCEPT !.archived = archived]
  <1>1. /\ phase = "up" /\ phase' = phase /\ mem[c] # Absent
        /\ Update(c, rec) /\ job' = job
    BY DEF Archive, Accepting, Reachable
  <1>2. /\ mem[c] \in Record /\ disk[c] = mem[c]
    BY <1>1, Live
  <1>3. rec \in Record /\ rec.state = mem[c].state
    BY <1>2 DEF Record
  <1> HIDE DEF rec
  <1>4. disk'[c] = rec /\ disk'[c] # Absent
    BY <1>1, <1>3, AbsentAssumption DEF Update, SInv, TypeOK
  <1>5. Reported(c)' = Reported(c)
    BY <1>1, <1>2, <1>3, <1>4 DEF Reported, Running
  <1>6. \A d \in Convs : d # c => Reported(d)' = Reported(d)
    BY <1>1, UpdateReport DEF Running
  <1> QED BY <1>1, <1>5, <1>6, Stutters

\* A run in progress stays one: cancel, shutdown and the start of a run.
LEMMA MarkR ==
  ASSUME SInv, SInv', phase # "down", phase' = phase, NEW c \in Convs, NEW rec,
         Running(c), Running(c)', Update(c, rec),
         \A d \in Convs : d # c => job'[d] = job[d]
  PROVE  UNCHANGED <<phase = "up", Reports>>
  <1>1. Reported(c) = "active"
    BY LiveReport
  <1>2. Reported(c)' = "active"
    <2>1. mem'[c] # Absent /\ disk'[c] = mem'[c] /\ mem'[c].state \in Active
      BY DEF SInv, RecordsAreTrue
    <2> QED BY <2>1 DEF Reported
  <1>3. \A d \in Convs : d # c => Reported(d)' = Reported(d)
    BY UpdateReport DEF Running
  <1> QED BY <1>1, <1>2, <1>3, Stutters

\* Nor does a cancel: the run goes on until it ends.
LEMMA CancellingR ==
  ASSUME SInv, SInv', phase # "down", phase' = phase, NEW c \in Convs,
         Cancelling(c)
  PROVE  UNCHANGED <<phase = "up", Reports>>
  <1>1. /\ Running(c) /\ Running(c)'
        /\ \A d \in Convs : d # c => job'[d] = job[d]
    BY DEF Cancelling, Running, SInv, TypeOK, Job, Done
  <1> QED BY <1>1, MarkR DEF Cancelling

\* The steps of runs and their coordinators that leave disk and files alone.
LEMMA JobsR ==
  ASSUME phase' = phase, disk' = disk,
         \A c \in Convs : Running(c)' <=> Running(c)
  PROVE  UNCHANGED <<phase = "up", Reports>>
  BY SameReport, Stutters

\* A send starts a run of the contract.
LEMMA SendR ==
  ASSUME SInv, SInv', NEW c \in Convs, Send(c)
  PROVE  Contract!Start(c)
  <1> DEFINE rec == Begun(c, Turns(c) + 1)
  <1>1. /\ phase = "up" /\ phase' = "up" /\ mem[c] # Absent /\ ~Running(c)
        /\ Update(c, rec)
        /\ job' = [job EXCEPT ![c] = [pc |-> "created", turn |-> Turns(c) + 1]]
    BY DEF Send, Accepting, Reachable
  <1>2. Running(c)' /\ \A d \in Convs : d # c => (Running(d)' <=> Running(d))
    BY <1>1 DEF Running, SInv, TypeOK
  <1>3. Reported(c)' = "active"
    <2>1. mem'[c] # Absent /\ disk'[c] = mem'[c] /\ mem'[c].state \in Active
      BY <1>1, <1>2 DEF SInv, RecordsAreTrue
    <2> QED BY <1>2, <2>1 DEF Reported
  <1> HIDE DEF rec
  <1>4. \A d \in Convs : d # c => Reported(d)' = Reported(d)
    BY <1>1, <1>2, UpdateReport
  <1>5. Reports' = [Reports EXCEPT ![c] = "active"]
    BY <1>3, <1>4, Becomes
  <1>6. Reports[c] \notin {"absent", "active"}
    BY <1>1, LiveReport DEF Reports
  <1> QED BY <1>1, <1>5, <1>6 DEF Contract!Start, Reports

\* The end of a run settles what was active.
LEMMA SettleR ==
  ASSUME SInv, SInv', NEW c \in Convs, phase # "down", phase' = phase,
         Running(c), NEW state \in Contract!Settled,
         Update(c, Settled(c, state)), job' = [job EXCEPT ![c] = NoJob]
  PROVE  Contract!Settle(c)
  <1>1. Reports[c] = "active"
    BY LiveReport DEF Reports
  <1>2. ~Running(c)' /\ \A d \in Convs : d # c => (Running(d)' <=> Running(d))
    BY DEF Running, NoJob, SInv, TypeOK
  <1>3. Reported(c)' = state
    <2>1. mem[c] \in Record
      BY Live DEF SInv, RecordsAreTrue
    <2>2. Settled(c, state).state = state /\ Settled(c, state) \in Record
      BY <2>1 DEF Settled, Record, States, Contract!Settled
    <2>3. disk'[c] = Settled(c, state) /\ disk'[c] # Absent
      BY <2>2, AbsentAssumption DEF Update, SInv, TypeOK
    <2> QED BY <2>2, <2>3 DEF Reported, Active, Contract!Settled
  <1>4. \A d \in Convs : d # c => Reported(d)' = Reported(d)
    BY <1>2, UpdateReport
  <1>5. Reports' = [Reports EXCEPT ![c] = state]
    BY <1>3, <1>4, Becomes
  <1>6. UNCHANGED (phase = "up")
    OBVIOUS
  <1> QED BY <1>1, <1>5, <1>6 DEF Contract!Settle, Reports

\* The end of the process is a stop: nothing runs any more, and at most one
\* file was written on the way.
LEMMA StopR ==
  ASSUME SInv, SInv', phase' # "up",
         \A c \in Convs :
           \/ Reported(c)' = Reported(c)
           \/ Reported(c) = "active" /\ Reported(c)' \in Contract!Settled
           \/ Reported(c) # "absent" /\ Reported(c)' = "interrupted"
  PROVE  Contract!Stop
  <1>1. Reports' \in [Convs -> Contract!Status]
    <2>1. \A c \in Convs : Reported(c) \in Contract!Status
      BY ReportOf
    <2>2. Contract!Settled \subseteq Contract!Status /\ "interrupted" \in Contract!Status
      BY DEF Contract!Status
    <2>3. \A c \in Convs : Reported(c)' \in Contract!Status
      BY <2>1, <2>2
    <2> QED BY <2>3 DEF Reports
  <1>2. (phase = "up")' = FALSE
    OBVIOUS
  <1>3. \A c \in Convs :
          /\ Reports[c] = Reported(c) /\ Reports'[c] = Reported(c)'
    BY DEF Reports
  <1> QED BY <1>1, <1>2, <1>3 DEF Contract!Stop, Reports

\* What a process that is gone reports of c, one file perhaps being written.
LEMMA GoneR ==
  ASSUME SInv, SInv', Gone, phase # "down",
         \A c \in Convs :
           \/ disk'[c] = disk[c]
           \/ disk[c] # Absent /\ disk'[c] \in Record
              /\ disk'[c].state = "starting"
           \/ Running(c) /\ disk'[c] \in Record
              /\ disk'[c].state \in Contract!Settled
  PROVE  Contract!Stop
  <1>1. phase' # "up" /\ \A c \in Convs : ~Running(c)'
    BY DEF Gone, Running, NoJob
  <1> SUFFICES ASSUME NEW c \in Convs
               PROVE  \/ Reported(c)' = Reported(c)
                      \/ /\ Reported(c) = "active"
                         /\ Reported(c)' \in Contract!Settled
                      \/ /\ Reported(c) # "absent"
                         /\ Reported(c)' = "interrupted"
    BY <1>1, StopR
  <1>2. CASE disk'[c] = disk[c]
    BY <1>1, <1>2, ReportOf DEF Reported
  <1>3. CASE disk[c] # Absent /\ disk'[c] \in Record /\ disk'[c].state = "starting"
    <2>1. Reported(c) # "absent"
      BY <1>3, ReportOf
    <2>2. Reported(c)' = "interrupted"
      BY <1>1, <1>3, AbsentAssumption DEF Reported, Active
    <2> QED BY <2>1, <2>2
  <1>4. CASE Running(c) /\ disk'[c] \in Record
             /\ disk'[c].state \in Contract!Settled
    <2>1. Reported(c) = "active"
      BY <1>4, LiveReport
    <2>2. Reported(c)' = disk'[c].state
      BY <1>4, AbsentAssumption DEF Reported, Active, Contract!Settled
    <2> QED BY <1>4, <2>1, <2>2
  <1>5. \/ disk'[c] = disk[c]
        \/ disk[c] # Absent /\ disk'[c] \in Record /\ disk'[c].state = "starting"
        \/ Running(c) /\ disk'[c] \in Record
           /\ disk'[c].state \in Contract!Settled
    OBVIOUS
  <1> QED BY <1>2, <1>3, <1>4, <1>5

\* A death in a send stops the process, whatever it had written.
LEMMA KillInSendR ==
  ASSUME SInv, SInv', NEW c \in Convs, KillInSend(c)
  PROVE  Contract!Stop
  <1> DEFINE rec == Begun(c, Turns(c) + 1)
  <1>1. /\ phase # "down" /\ mem[c] # Absent /\ Gone
        /\ disk' = [disk EXCEPT ![c] = rec] \/ disk' = disk
    BY DEF KillInSend, Accepting, Reachable
  <1>2. mem[c] \in Record /\ disk[c] = mem[c]
    BY <1>1, Live
  <1>3. rec \in Record /\ rec.state = "starting"
    <2>1. Turns(c) + 1 \in Nat
      BY TurnsNat DEF SInv
    <2> QED BY <1>2, <2>1 DEF Begun, Record, States, Active
  <1> HIDE DEF rec
  <1>4. \A d \in Convs :
          \/ disk'[d] = disk[d]
          \/ disk[d] # Absent /\ disk'[d] \in Record /\ disk'[d].state = "starting"
    BY <1>1, <1>2, <1>3 DEF SInv, TypeOK
  <1> QED BY <1>1, <1>4, GoneR

\* So does a death at the end of a run.
LEMMA KillInFinishR ==
  ASSUME SInv, SInv', NEW c \in Convs, KillInFinish(c)
  PROVE  Contract!Stop
  <1> DEFINE rec == Settled(c, OutcomeOf(job[c].pc))
  <1>1. /\ phase # "down" /\ Running(c) /\ job[c].pc \in Done /\ Gone
        /\ disk' = [disk EXCEPT ![c] = rec] \/ disk' = disk
    BY DEF KillInFinish, Running, Done
  <1>2. mem[c] \in Record
    BY <1>1, Live DEF SInv, RecordsAreTrue
  <1>3. rec \in Record /\ rec.state \in Contract!Settled
    <2>1. OutcomeOf(job[c].pc) \in States \cap Contract!Settled
      BY <1>1, OutcomeState DEF Contract!Settled
    <2> QED BY <1>2, <2>1 DEF Settled, Record
  <1> HIDE DEF rec
  <1>4. \A d \in Convs :
          \/ disk'[d] = disk[d]
          \/ Running(d) /\ disk'[d] \in Record
             /\ disk'[d].state \in Contract!Settled
    BY <1>1, <1>3 DEF SInv, TypeOK
  <1> QED BY <1>1, <1>4, GoneR

\* So does the tear-down, which writes no file.
LEMMA TearDownR ==
  ASSUME SInv, SInv', TearDown
  PROVE  Contract!Stop
  <1>1. phase' # "up" /\ disk' = disk /\ \A c \in Convs : Running(c)' <=> Running(c)
    BY TornDown DEF TearDown, Running
  <1>2. \A c \in Convs : Reported(c)' = Reported(c)
    BY <1>1, SameReport
  <1> QED BY <1>1, <1>2, StopR

\* A start is one of the contract.
LEMMA RestartR ==
  ASSUME SInv, SInv', Restart
  PROVE  Contract!Restart
  <1>1. /\ phase = "down" /\ phase' = "up" /\ disk' = disk /\ job' = job
        /\ \A c \in Convs : ~Running(c)
    BY DEF Restart, SInv, DownIsEmpty, Running, NoJob
  <1>2. \A c \in Convs : Reports[c] # "active"
    BY <1>1, ReportOf DEF Reports
  <1>3. Reports' = Reports
    BY <1>1, SameReport DEF Reports, Running
  <1> QED BY <1>1, <1>2, <1>3 DEF Contract!Restart, Reports

\* The initial states agree.
LEMMA InitR == Init => Contract!Init
  BY DEF Init, Contract!Init, Reported

\* Every step is one of the contract or changes nothing it speaks of.
LEMMA NextR ==
  ASSUME SInv, SInv', [Next]_vars
  PROVE  Contract!Next \/ UNCHANGED <<phase = "up", Reports>>
  <1>1. CASE OpenProject \/ RemoveProject \/ Shutdown \/ CancelReturns
    BY <1>1, JobsR DEF OpenProject, RemoveProject, Shutdown, CancelReturns, Running
  <1>2. ASSUME NEW c \in Convs, ShutdownSkips(c) \/ CancelIgnored(c)
        PROVE  UNCHANGED <<phase = "up", Reports>>
    BY <1>2, JobsR DEF ShutdownSkips, CancelIgnored, vars, Running
  <1>3. CASE List
    BY <1>3, ListR
  <1>4. CASE StdinCloses \/ ShutdownReturns
    BY <1>4, TearDownR DEF StdinCloses, ShutdownReturns, Contract!Next
  <1>5. ASSUME NEW c \in Convs, Create(c) \/ Send(c) PROVE Contract!Next
    BY <1>5, CreateR, SendR DEF Contract!Next
  <1>6. ASSUME NEW c \in Convs,
               Open(c) \/ Delete(c) \/ \E archived \in BOOLEAN : Archive(c, archived)
        PROVE  UNCHANGED <<phase = "up", Reports>>
    BY <1>6, OpenR, ArchiveR DEF Delete
  <1>7. ASSUME NEW c \in Convs, Cancel(c) \/ ShutdownCancels(c)
        PROVE  UNCHANGED <<phase = "up", Reports>>
    <2>1. phase # "down" /\ phase' = phase /\ Cancelling(c)
      BY <1>7 DEF Cancel, ShutdownCancels, Accepting, NextInShutdown
    <2> QED BY <2>1, CancellingR
  <1>8. ASSUME NEW c \in Convs, RunBegins(c)
        PROVE  UNCHANGED <<phase = "up", Reports>>
    <2>1. /\ phase # "down" /\ phase' = phase
          /\ Running(c) /\ Running(c)'
          /\ \A d \in Convs : d # c => job'[d] = job[d]
          /\ Update(c, [mem[c] EXCEPT !.state = "working"])
      BY <1>8 DEF RunBegins, Running, SInv, TypeOK, Job
    <2> QED BY <2>1, MarkR
  <1>9. ASSUME NEW c \in Convs, RunCannotBegin(c) \/ RunResumes(c)
        PROVE  Contract!Next
    <2>1. CASE RunCannotBegin(c)
      <3>1. "failed" \in Contract!Settled
        BY DEF Contract!Settled
      <3>2. /\ phase # "down" /\ phase' = phase /\ Running(c)
            /\ Update(c, Settled(c, "failed"))
            /\ job' = [job EXCEPT ![c] = NoJob]
        BY <2>1 DEF RunCannotBegin, Running
      <3> QED BY <3>1, <3>2, SettleR DEF Contract!Next
    <2>2. CASE RunResumes(c)
      <3>1. /\ phase # "down" /\ phase' = phase /\ Running(c) /\ job[c].pc \in Done
            /\ Update(c, Settled(c, OutcomeOf(job[c].pc)))
            /\ job' = [job EXCEPT ![c] = NoJob]
        BY <2>2 DEF RunResumes, Running, Done
      <3>2. OutcomeOf(job[c].pc) \in Contract!Settled
        BY <3>1, OutcomeState DEF Contract!Settled
      <3> QED BY <3>1, <3>2, SettleR DEF Contract!Next
    <2> QED BY <1>9, <2>1, <2>2
  <1>10. ASSUME NEW c \in Convs,
                OrchestratorEnds(c) \/ CancelTakesEffect(c) \/ SwallowCancel(c)
         PROVE  UNCHANGED <<phase = "up", Reports>>
    <2>1. /\ phase' = phase /\ disk' = disk
          /\ \A d \in Convs : Running(d)' <=> Running(d)
      BY <1>10 DEF OrchestratorEnds, CancelTakesEffect, SwallowCancel, Running,
        SInv, TypeOK, Job
    <2> QED BY <2>1, JobsR
  <1>11. CASE Kill \/ Exit
    <2>1. phase # "down" /\ Gone /\ disk' = disk
      BY <1>11 DEF Kill, Exit
    <2> QED BY <2>1, GoneR DEF Contract!Next
  <1>12. ASSUME NEW c \in Convs, KillInSend(c) \/ KillInFinish(c)
         PROVE  Contract!Next
    BY <1>12, KillInSendR, KillInFinishR DEF Contract!Next
  <1>13. CASE Restart
    BY <1>13, RestartR DEF Contract!Next
  <1>14. CASE UNCHANGED vars
    BY <1>14, JobsR DEF vars, Running
  <1> QED BY <1>1, <1>2, <1>3, <1>4, <1>5, <1>6, <1>7, <1>8, <1>9, <1>10, <1>11,
        <1>12, <1>13, <1>14
      DEF Next, ClientCall, CallStep, RunStep, Death

\* The store implements its contract: a run is reported as active from the
\* message that starts it to its outcome, only the end of the process
\* interrupts one, and nothing is active when a process starts.
THEOREM ContractKept == Spec => KeepsContract
  <1>1. SInv /\ SInv' /\ [Next]_vars =>
          [Contract!Next]_<<phase = "up", [c \in Convs |-> Reported(c)]>>
    BY NextR DEF Reports
  <1> QED BY <1>1, InitR, SInductive, PTL DEF KeepsContract, Spec, Contract!Spec

-----------------------------------------------------------------------------
(* Transcripts and events *)

Message == [role : {"user", "assistant"}, turn : Nat \ {0}]
Event == [name : {"started", "completed", "cancelled", "failed"},
          turn : Nat \ {0}]

\* What is appended is the last element.
LEMMA LastAppended ==
  ASSUME NEW S, NEW s \in Seq(S), NEW x \in S
  PROVE  /\ Append(s, x) # << >>
         /\ Append(s, x)[Len(Append(s, x))] = x
  OBVIOUS

\* Every event has a turn.
LEMMA EventTurn ==
  ASSUME NEW e \in Seq(Event), NEW i \in DOMAIN e
  PROVE  e[i].turn \in Nat
  <1>1. e[i] \in Event
    OBVIOUS
  <1> QED BY <1>1 DEF Event

\* A message of the user may come at any time, a reply right after its
\* message.
LEMMA RepliedSaid ==
  ASSUME NEW t \in Seq(Message), Replied(t), NEW m \in Message,
         \/ m.role = "user"
         \/ t # << >> /\ t[Len(t)] = [role |-> "user", turn |-> m.turn]
  PROVE  Replied(Append(t, m))
  <1> DEFINE s == Append(t, m)
  <1>1. /\ Len(t) \in Nat /\ DOMAIN t = 1 .. Len(t)
        /\ DOMAIN s = 1 .. Len(t) + 1
        /\ s[Len(t) + 1] = m /\ \A i \in 1 .. Len(t) : s[i] = t[i]
    OBVIOUS
  <1> HIDE DEF s
  <1> SUFFICES ASSUME NEW i \in DOMAIN s, s[i].role = "assistant"
               PROVE  i > 1 /\ s[i - 1] = [s[i] EXCEPT !.role = "user"]
    BY DEF Replied, s
  <1>2. CASE i <= Len(t)
    <2>1. i \in DOMAIN t /\ s[i] = t[i]
      BY <1>1, <1>2
    <2>2. i > 1 /\ t[i - 1] = [t[i] EXCEPT !.role = "user"]
      BY <2>1 DEF Replied
    <2>3. s[i - 1] = t[i - 1]
      BY <1>1, <1>2, <2>2
    <2> QED BY <2>1, <2>2, <2>3
  <1>3. CASE i = Len(t) + 1
    <2>1. /\ s[i] = m /\ t # << >>
          /\ t[Len(t)] = [role |-> "user", turn |-> m.turn]
      BY <1>1, <1>3
    <2>2. Len(t) > 0
      BY <2>1, <1>1
    <2>3. i > 1 /\ s[i - 1] = t[Len(t)]
      BY <1>1, <1>3, <2>2
    <2>4. [m EXCEPT !.role = "user"] = [role |-> "user", turn |-> m.turn]
      BY DEF Message
    <2> QED BY <2>1, <2>3, <2>4
  <1> QED BY <1>1, <1>2, <1>3

\* A run is started under a new turn.
LEMMA OrderedStarted ==
  ASSUME NEW e \in Seq(Event), Ordered(e), NEW n \in Nat,
         \A i \in DOMAIN e : e[i].turn < n
  PROVE  Ordered(Append(e, [name |-> "started", turn |-> n]))
  <1> DEFINE s == Append(e, [name |-> "started", turn |-> n])
  <1>1. /\ Len(e) \in Nat /\ DOMAIN e = 1 .. Len(e)
        /\ DOMAIN s = 1 .. Len(e) + 1
        /\ s[Len(e) + 1].turn = n /\ \A i \in 1 .. Len(e) : s[i] = e[i]
    OBVIOUS
  <1> HIDE DEF s
  <1> SUFFICES Ordered(s)
    BY DEF s
  <1> QED BY <1>1 DEF Ordered

\* The run that was started last ends.
LEMMA OrderedEnded ==
  ASSUME NEW e \in Seq(Event), Ordered(e), NEW n \in Nat, NEW name,
         e # << >>, e[Len(e)] = [name |-> "started", turn |-> n],
         name # "started"
  PROVE  Ordered(Append(e, [name |-> name, turn |-> n]))
  <1> DEFINE s == Append(e, [name |-> name, turn |-> n])
  <1>1. /\ Len(e) \in Nat /\ Len(e) > 0 /\ DOMAIN e = 1 .. Len(e)
        /\ DOMAIN s = 1 .. Len(e) + 1
        /\ s[Len(e) + 1].turn = n /\ s[Len(e) + 1].name = name
        /\ \A i \in 1 .. Len(e) : s[i] = e[i]
    OBVIOUS
  <1>2. e[Len(e)].turn = n /\ e[Len(e)].name = "started"
    OBVIOUS
  <1> HIDE DEF s
  <1>3. \A i \in 1 .. Len(e) : i = Len(e) \/ e[i].turn < n
    <2> SUFFICES ASSUME NEW i \in 1 .. Len(e), i # Len(e)
                 PROVE  e[i].turn < n
      OBVIOUS
    <2>1. \A l \in Nat : l > 0 /\ i \in 1 .. l /\ i # l => l \in 1 .. l /\ i < l
      OBVIOUS
    <2>2. i \in DOMAIN e /\ Len(e) \in DOMAIN e /\ i < Len(e)
      BY <1>1, <2>1
    <2> QED BY <1>2, <2>2 DEF Ordered
  <1> SUFFICES ASSUME NEW i \in DOMAIN s, NEW j \in DOMAIN s, i < j
               PROVE  \/ s[i].turn < s[j].turn
                      \/ /\ s[i].turn = s[j].turn /\ s[i].name = "started"
                         /\ s[j].name # "started"
    BY DEF Ordered, s
  <1>4. CASE j <= Len(e)
    <2>1. /\ i \in DOMAIN e /\ j \in DOMAIN e
          /\ s[i] = e[i] /\ s[j] = e[j]
      BY <1>1, <1>4
    <2> QED BY <2>1 DEF Ordered
  <1>5. CASE j = Len(e) + 1
    <2>1. i \in 1 .. Len(e) /\ s[i] = e[i]
      BY <1>1, <1>5
    <2>2. s[j].turn = n /\ s[j].name # "started"
      BY <1>1, <1>5
    <2> QED BY <1>2, <1>3, <2>1, <2>2
  <1> QED BY <1>1, <1>4, <1>5

\* What is stored stays so, and a reply stored now is one of them.
LEMMA StoredSaid ==
  ASSUME NEW e, NEW t \in Seq(Message), NEW m \in Message, Stored(e, t)
  PROVE  Stored(e, Append(t, m))
  <1> DEFINE s == Append(t, m)
  <1>1. /\ \A i \in DOMAIN t : i \in DOMAIN s /\ s[i] = t[i]
    OBVIOUS
  <1> HIDE DEF s
  <1> SUFFICES Stored(e, s)
    BY DEF s
  <1> QED BY <1>1 DEF Stored

\* What is announced as completed has its reply stored.
LEMMA StoredEmitted ==
  ASSUME NEW e \in Seq(Event), NEW t, NEW x \in Event, Stored(e, t),
         x.name = "completed" =>
           \E j \in DOMAIN t : t[j] = [role |-> "assistant", turn |-> x.turn]
  PROVE  Stored(Append(e, x), t)
  <1> DEFINE s == Append(e, x)
  <1>1. /\ Len(e) \in Nat /\ DOMAIN e = 1 .. Len(e)
        /\ DOMAIN s = 1 .. Len(e) + 1
        /\ s[Len(e) + 1] = x /\ \A i \in 1 .. Len(e) : s[i] = e[i]
    OBVIOUS
  <1> HIDE DEF s
  <1> SUFFICES Stored(s, t)
    BY DEF s
  <1> SUFFICES ASSUME NEW i \in DOMAIN s, s[i].name = "completed"
               PROVE  \E j \in DOMAIN t :
                        t[j] = [role |-> "assistant", turn |-> s[i].turn]
    BY DEF Stored
  <1>2. CASE i <= Len(e)
    BY <1>1, <1>2 DEF Stored
  <1>3. CASE i = Len(e) + 1
    BY <1>1, <1>3
  <1> QED BY <1>1, <1>2, <1>3

\* The second layer holds what RepliesInTurn says.
LEMMA TellsReplies == TInv => RepliesInTurn
  BY DEF TInv, ToldAt, Replied, Ordered, Stored, RepliesInTurn, OneOutcome

\* Nothing is said or announced in the initial state.
LEMMA InitT == Init => TInv
  <1> SUFFICES ASSUME Init PROVE TInv
    OBVIOUS
  <1>1. \A c \in Convs : /\ transcript[c] = << >> /\ events[c] = << >>
                         /\ ~Running(c)
    BY DEF Init, Running, NoJob
  <1> QED BY <1>1 DEF TInv, ToldAt, NumberedAt, Replied, Ordered, Stored

\* The types of what the second and third layer speak of.
LEMMA LayerTypes ==
  ASSUME SInv, NEW c \in Convs
  PROVE  /\ transcript[c] \in Seq(Message) /\ events[c] \in Seq(Event)
         /\ Turns(c) \in Nat
         /\ disk[c] \in Record \cup {Absent}
  BY TurnsNat DEF SInv, TypeOK, Message, Event

\* The turns of a conversation are counted in its transcript.
LEMMA SameTurns ==
  ASSUME NEW c \in Convs, transcript'[c] = transcript[c]
  PROVE  Turns(c)' = Turns(c)
  BY DEF Turns

\* A conversation of which nothing is said or announced in a step.
LEMMA KeptT ==
  ASSUME NEW c \in Convs, ToldAt(c),
         transcript'[c] = transcript[c], events'[c] = events[c],
         Running(c)' => Running(c) /\ job'[c].turn = job[c].turn,
         disk'[c] = Absent => disk[c] = Absent
  PROVE  ToldAt(c)'
  <1>1. Turns(c)' = Turns(c)
    BY SameTurns
  <1>2. NumberedAt(c)'
    BY <1>1 DEF ToldAt, NumberedAt
  <1>3. Replied(transcript'[c]) /\ Ordered(events'[c])
        /\ Stored(events'[c], transcript'[c])
    BY DEF ToldAt
  <1> QED BY <1>2, <1>3 DEF ToldAt

\* A conversation whose outcome is left alone.
LEMMA KeptD ==
  ASSUME SInv, NEW c \in Convs, DurableAt(c),
         transcript'[c] = transcript[c], events'[c] = events[c],
         events[c] # << >> /\ disk[c].state \notin Active =>
           disk'[c].state = disk[c].state
  PROVE  DurableAt(c)'
  <1>1. Turns(c)' = Turns(c)
    BY SameTurns
  <1>2. events[c] # << >> =>
          events[c][Len(events[c])].name \in
            {"started", "completed", "cancelled", "failed"}
    <2> SUFFICES ASSUME events[c] # << >>
                 PROVE  events[c][Len(events[c])] \in Event
      BY DEF Event
    <2>1. events[c] \in Seq(Event)
      BY LayerTypes
    <2> QED BY <2>1
  <1>3. events[c] # << >> /\ events[c][Len(events[c])].name # "started" =>
          events[c][Len(events[c])].name \notin Active
    BY <1>2 DEF Active
  <1> QED BY <1>1, <1>3 DEF DurableAt

\* A message is stored; whether a run is started under it or the process dies.
LEMMA SentT ==
  ASSUME SInv, NEW c \in Convs, ToldAt(c), disk'[c] # Absent,
         transcript' = Said(c, "user", Turns(c) + 1),
         \/ events'[c] = events[c] /\ ~Running(c)'
         \/ /\ events' = Emitted(c, "started", Turns(c) + 1)
            /\ job'[c].turn = Turns(c) + 1
  PROVE  ToldAt(c)'
  <1> DEFINE n == Turns(c) + 1
             m == [role |-> "user", turn |-> n]
             x == [name |-> "started", turn |-> n]
  <1>1. /\ transcript[c] \in Seq(Message) /\ events[c] \in Seq(Event)
        /\ n \in Nat \ {0} /\ m \in Message /\ x \in Event
    BY LayerTypes DEF Message, Event
  <1>2. transcript'[c] = Append(transcript[c], m)
    BY DEF SInv, TypeOK, Said
  <1>3. Turns(c)' = n
    BY <1>1, TurnsOfSaid DEF SInv
  <1>4. Replied(transcript'[c])
    BY <1>1, <1>2, RepliedSaid DEF ToldAt
  <1>5. Stored(events[c], transcript'[c])
    BY <1>1, <1>2, StoredSaid DEF ToldAt
  <1>6. \A i \in DOMAIN events[c] : events[c][i].turn < n
    <2> SUFFICES ASSUME NEW i \in DOMAIN events[c] PROVE events[c][i].turn < n
      OBVIOUS
    <2>1. events[c][i].turn \in Nat /\ Turns(c) \in Nat
      BY <1>1, LayerTypes, EventTurn
    <2>2. events[c][i].turn <= Turns(c)
      BY DEF ToldAt, NumberedAt
    <2> QED BY <2>1, <2>2
  <1>7. CASE events'[c] = events[c] /\ ~Running(c)'
    <2>1. Ordered(events'[c])
      BY <1>7 DEF ToldAt
    <2>2. \A i \in DOMAIN events'[c] : events'[c][i].turn <= n
      <3> SUFFICES ASSUME NEW i \in DOMAIN events[c] PROVE events[c][i].turn <= n
        BY <1>7
      <3>1. events[c][i].turn \in Nat
        BY <1>1, EventTurn
      <3> QED BY <1>1, <1>6, <3>1
    <2>3. NumberedAt(c)'
      BY <1>3, <1>7, <2>2 DEF NumberedAt
    <2> QED BY <1>4, <1>5, <1>7, <2>1, <2>3 DEF ToldAt
  <1>8. CASE /\ events' = Emitted(c, "started", n)
             /\ job'[c].turn = n
    <2>1. events'[c] = Append(events[c], x)
      BY <1>8 DEF SInv, TypeOK, Emitted
    <2>2. Ordered(events'[c])
      BY <1>1, <1>6, <2>1, OrderedStarted DEF ToldAt
    <2>3. Stored(events'[c], transcript'[c])
      BY <1>1, <1>5, <2>1, StoredEmitted
    <2>4. NumberedAt(c)'
      <3>1. /\ events'[c] # << >> /\ events'[c][Len(events'[c])] = x
            /\ transcript'[c] # << >> /\ transcript'[c][Len(transcript'[c])] = m
        <4>1. /\ Append(events[c], x) # << >>
              /\ Append(events[c], x)[Len(Append(events[c], x))] = x
          <5> HIDE DEF x
          <5> QED BY <1>1, LastAppended
        <4>2. /\ Append(transcript[c], m) # << >>
              /\ Append(transcript[c], m)[Len(Append(transcript[c], m))] = m
          <5> HIDE DEF m
          <5> QED BY <1>1, LastAppended
        <4> HIDE DEF m, x, n
        <4> QED BY <1>2, <2>1, <4>1, <4>2
      <3>2. \A i \in DOMAIN events'[c] : events'[c][i].turn <= n
        <4> SUFFICES ASSUME NEW i \in DOMAIN events'[c]
                     PROVE  events'[c][i].turn <= n
          OBVIOUS
        <4>1. \/ i \in DOMAIN events[c] /\ events'[c][i] = events[c][i]
              \/ events'[c][i] = x
          BY <1>1, <2>1
        <4>2. i \in DOMAIN events[c] => events[c][i].turn \in Nat
          BY <1>1, EventTurn
        <4> QED BY <1>1, <1>6, <4>1, <4>2
      <3> QED BY <1>3, <1>8, <3>1, <3>2 DEF NumberedAt
    <2> QED BY <1>4, <2>2, <2>3, <2>4 DEF ToldAt
  <1> QED BY <1>7, <1>8

\* A run is over; its reply, if it has one, is stored first.
LEMMA SaidLast ==
  ASSUME SInv, NEW c \in Convs, ToldAt(c), Running(c), phase # "down",
         \/ transcript'[c] = transcript[c]
         \/ transcript' = Said(c, "assistant", job[c].turn)
  PROVE  /\ Turns(c)' = Turns(c)
         /\ Replied(transcript'[c])
         /\ Stored(events[c], transcript'[c])
         /\ transcript' = Said(c, "assistant", job[c].turn) =>
              \E j \in DOMAIN transcript'[c] :
                transcript'[c][j] = [role |-> "assistant", turn |-> job[c].turn]
  <1> DEFINE m == [role |-> "assistant", turn |-> job[c].turn]
  <1>1. /\ transcript[c] \in Seq(Message)
        /\ job[c].turn \in Nat \ {0} /\ m \in Message
    BY LayerTypes, Live DEF Message
  <1>2. CASE transcript' = Said(c, "assistant", job[c].turn)
    <2>1. transcript'[c] = Append(transcript[c], m)
      BY <1>2 DEF SInv, TypeOK, Said
    <2>2. Turns(c)' = Turns(c)
      BY <1>1, <1>2, TurnsOfSaid DEF SInv
    <2>3. /\ transcript[c] # << >>
          /\ transcript[c][Len(transcript[c])] = [role |-> "user", turn |-> m.turn]
      BY DEF ToldAt, NumberedAt
    <2>4. Replied(transcript'[c])
      BY <1>1, <2>1, <2>3, RepliedSaid DEF ToldAt
    <2>5. Stored(events[c], transcript'[c])
      BY <1>1, <2>1, StoredSaid DEF ToldAt
    <2>6. \E j \in DOMAIN transcript'[c] : transcript'[c][j] = m
      <3>1. /\ Len(transcript[c]) + 1 \in DOMAIN transcript'[c]
            /\ transcript'[c][Len(transcript[c]) + 1] = m
        BY <1>1, <2>1
      <3> QED BY <3>1
    <2> QED BY <2>2, <2>4, <2>5, <2>6
  <1>3. CASE /\ transcript'[c] = transcript[c]
             /\ transcript' # Said(c, "assistant", job[c].turn)
    BY <1>3, SameTurns DEF ToldAt
  <1> QED BY <1>2, <1>3

\* A run that is over with its reply, if any, and its outcome announced or
\* not.
LEMMA OverT ==
  ASSUME SInv, NEW c \in Convs, ToldAt(c), Running(c), phase # "down",
         ~Running(c)', disk'[c] # Absent,
         \/ transcript'[c] = transcript[c]
         \/ transcript' = Said(c, "assistant", job[c].turn),
         NEW name \in {"completed", "cancelled", "failed"},
         \/ events'[c] = events[c]
         \/ /\ events' = Emitted(c, name, job[c].turn)
            /\ name = "completed" =>
                 transcript' = Said(c, "assistant", job[c].turn)
  PROVE  ToldAt(c)'
  <1> DEFINE n == job[c].turn
             x == [name |-> name, turn |-> n]
  <1>1. events[c] \in Seq(Event) /\ n \in Nat \ {0} /\ x \in Event
    BY LayerTypes, Live DEF Event
  <1>2. /\ n = Turns(c) /\ events[c] # << >>
        /\ events[c][Len(events[c])] = [name |-> "started", turn |-> n]
        /\ \A i \in DOMAIN events[c] : events[c][i].turn <= n
    BY DEF ToldAt, NumberedAt
  <1>3. /\ Turns(c)' = n
        /\ Replied(transcript'[c])
        /\ Stored(events[c], transcript'[c])
    BY <1>2, SaidLast
  <1>4. CASE events'[c] = events[c]
    <2>1. NumberedAt(c)'
      BY <1>2, <1>3, <1>4 DEF NumberedAt
    <2> QED BY <1>3, <1>4, <2>1 DEF ToldAt
  <1>5. CASE /\ events' = Emitted(c, name, n)
             /\ name = "completed" => transcript' = Said(c, "assistant", n)
    <2>1. events'[c] = Append(events[c], x)
      BY <1>5 DEF SInv, TypeOK, Emitted
    <2>2. Ordered(events'[c])
      BY <1>1, <1>2, <2>1, OrderedEnded DEF ToldAt
    <2>3. Stored(events'[c], transcript'[c])
      BY <1>1, <1>3, <1>5, <2>1, SaidLast, StoredEmitted
    <2>4. \A i \in DOMAIN events'[c] : events'[c][i].turn <= n
      <3> SUFFICES ASSUME NEW i \in DOMAIN events'[c]
                   PROVE  events'[c][i].turn <= n
        OBVIOUS
      <3>1. \/ i \in DOMAIN events[c] /\ events'[c][i] = events[c][i]
            \/ events'[c][i] = x
        BY <1>1, <2>1
      <3> QED BY <1>1, <1>2, <3>1
    <2>5. NumberedAt(c)'
      BY <1>3, <2>4 DEF NumberedAt
    <2> QED BY <1>3, <2>2, <2>3, <2>5 DEF ToldAt
  <1> QED BY <1>4, <1>5

\* The outcome that is announced is the one on file.
LEMMA OverD ==
  ASSUME SInv, NEW c \in Convs, ToldAt(c), Running(c), phase # "down",
         NEW name \in {"completed", "cancelled", "failed"},
         \/ /\ events'[c] = events[c]
         \/ /\ events' = Emitted(c, name, job[c].turn)
            /\ disk'[c].state = name
  PROVE  DurableAt(c)'
  <1>1. CASE events'[c] = events[c]
    <2>1. events[c][Len(events[c])].name = "started"
      BY DEF ToldAt, NumberedAt
    <2> QED BY <1>1, <2>1 DEF DurableAt
  <1>2. CASE /\ events' = Emitted(c, name, job[c].turn)
             /\ disk'[c].state = name
    <2> DEFINE x == [name |-> name, turn |-> job[c].turn]
    <2>1. events[c] \in Seq(Event) /\ x \in Event
      BY LayerTypes, Live DEF Event
    <2>2. events'[c] = Append(events[c], x)
      BY <1>2 DEF SInv, TypeOK, Emitted
    <2>3. events'[c][Len(events'[c])] = x
      BY <2>1, <2>2
    <2> QED BY <1>2, <2>3 DEF DurableAt
  <1> QED BY <1>1, <1>2

\* A message that was stored is ahead of every outcome.
LEMMA SentD ==
  ASSUME SInv, NEW c \in Convs, ToldAt(c),
         transcript' = Said(c, "user", Turns(c) + 1),
         \/ events'[c] = events[c]
         \/ events' = Emitted(c, "started", Turns(c) + 1)
  PROVE  DurableAt(c)'
  <1> DEFINE n == Turns(c) + 1
             x == [name |-> "started", turn |-> n]
  <1>1. /\ events[c] \in Seq(Event) /\ Turns(c) \in Nat
        /\ n \in Nat \ {0} /\ x \in Event
    BY LayerTypes DEF Event
  <1>2. Turns(c)' = n
    BY <1>1, TurnsOfSaid DEF SInv
  <1>3. CASE events'[c] = events[c]
    <2> SUFFICES ASSUME events[c] # << >>
                 PROVE  events[c][Len(events[c])].turn # n
      BY <1>2, <1>3 DEF DurableAt
    <2>1. Len(events[c]) \in DOMAIN events[c]
      BY <1>1
    <2>2. events[c][Len(events[c])].turn <= Turns(c)
      BY <2>1 DEF ToldAt, NumberedAt
    <2>3. events[c][Len(events[c])].turn \in Nat
      BY <1>1, <2>1, EventTurn
    <2> QED BY <1>1, <2>2, <2>3
  <1>4. CASE events' = Emitted(c, "started", n)
    <2>1. events'[c] = Append(events[c], x)
      BY <1>4 DEF SInv, TypeOK, Emitted
    <2>2. events'[c][Len(events'[c])] = x
      BY <1>1, <2>1
    <2> QED BY <2>2 DEF DurableAt
  <1> QED BY <1>3, <1>4

\* The third layer, one conversation at a time.
LEMMA DurableParts == OutcomeIsDurable <=> DInv
  BY DEF OutcomeIsDurable, DInv, DurableAt

\* No outcome is announced in the initial state.
LEMMA InitD == Init => DInv
  BY DEF Init, DInv, DurableAt

\* Steps in which nothing is said or announced.
LEMMA QuietT ==
  ASSUME SInv, TInv, DInv, UNCHANGED <<transcript, events>>,
         \A c \in Convs :
           /\ Running(c)' => Running(c) /\ job'[c].turn = job[c].turn
           /\ disk'[c] = Absent => disk[c] = Absent
           /\ events[c] # << >> /\ disk[c].state \notin Active =>
                disk'[c].state = disk[c].state
  PROVE  TInv' /\ DInv'
  <1>1. ASSUME NEW c \in Convs PROVE ToldAt(c)'
    BY <1>1, KeptT DEF TInv
  <1>2. ASSUME NEW c \in Convs PROVE DurableAt(c)'
    BY <1>2, KeptD DEF DInv
  <1> QED BY <1>1, <1>2 DEF TInv, DInv

\* Steps of one conversation.
LEMMA OneT ==
  ASSUME SInv, TInv, DInv, NEW c \in Convs, ToldAt(c)', DurableAt(c)',
         \A d \in Convs : d # c =>
           /\ transcript'[d] = transcript[d] /\ events'[d] = events[d]
           /\ disk'[d] = disk[d]
           /\ Running(d)' => Running(d) /\ job'[d].turn = job[d].turn
  PROVE  TInv' /\ DInv'
  <1>1. ASSUME NEW d \in Convs, d # c PROVE ToldAt(d)'
    BY <1>1, KeptT DEF TInv
  <1>2. ASSUME NEW d \in Convs, d # c PROVE DurableAt(d)'
    BY <1>2, KeptD DEF DInv
  <1> QED BY <1>1, <1>2 DEF TInv, DInv

\* A record is written for a conversation, and its outcome is left alone.
LEMMA UpdateT ==
  ASSUME SInv, TInv, DInv, NEW c \in Convs, NEW rec, Update(c, rec),
         rec # Absent,
         events[c] # << >> /\ disk[c].state \notin Active =>
           rec.state = disk[c].state,
         UNCHANGED <<transcript, events>>,
         \A d \in Convs :
           Running(d)' => Running(d) /\ job'[d].turn = job[d].turn
  PROVE  TInv' /\ DInv'
  <1>1. disk'[c] = rec /\ \A d \in Convs : d # c => disk'[d] = disk[d]
    BY DEF Update, SInv, TypeOK
  <1> QED BY <1>1, QuietT

\* A listing touches the records of active runs only.
LEMMA ListT == ASSUME SInv, TInv, DInv, List PROVE TInv' /\ DInv'
  <1>1. /\ disk' = [c \in Convs |-> Listed(c)] /\ job' = job
        /\ UNCHANGED <<transcript, events>>
    BY DEF List
  <1>2. ASSUME NEW c \in Convs
        PROVE  /\ disk'[c] = Absent => disk[c] = Absent
               /\ disk[c] # Absent /\ disk[c].state \notin Active =>
                    disk'[c].state = disk[c].state
    <2>1. disk'[c] = Listed(c)
      BY <1>1
    <2>2. CASE disk[c] = Absent \/ Running(c)
      BY <2>1, <2>2 DEF Listed
    <2>3. CASE disk[c] # Absent /\ ~Running(c)
      <3>1. disk'[c] = Interrupted(disk[c]) /\ disk[c] \in Record
        BY <2>1, <2>3, LayerTypes DEF Listed
      <3> QED BY <3>1, InterruptedRecord
    <2> QED BY <2>2, <2>3
  <1>3. \A c \in Convs : disk[c] = Absent => events[c] = << >>
    BY DEF TInv, ToldAt, NumberedAt
  <1> QED BY <1>1, <1>2, <1>3, QuietT DEF Running

\* A new conversation has said and announced nothing.
LEMMA CreateT ==
  ASSUME SInv, TInv, DInv, NEW c \in Convs, Create(c)
  PROVE  TInv' /\ DInv'
  <1> DEFINE rec == [state |-> "idle", run |-> 0, archived |-> FALSE]
  <1>1. /\ disk[c] = Absent /\ Update(c, rec) /\ job' = job
        /\ UNCHANGED <<transcript, events>>
    BY DEF Create
  <1>2. events[c] = << >>
    BY <1>1 DEF TInv, ToldAt, NumberedAt
  <1>3. rec # Absent
    <2>1. rec \in Record
      BY DEF Record, States
    <2> HIDE DEF rec
    <2> QED BY <2>1, AbsentAssumption
  <1> HIDE DEF rec
  <1> QED BY <1>1, <1>2, <1>3, UpdateT DEF Running

\* An open leaves a record at rest alone.
LEMMA OpenT ==
  ASSUME SInv, TInv, DInv, NEW c \in Convs, Open(c)
  PROVE  TInv' /\ DInv'
  <1>1. /\ disk[c] \in Record
        /\ Update(c, Interrupted(disk[c])) /\ job' = job
        /\ UNCHANGED <<transcript, events>>
    BY LayerTypes DEF Open
  <1>2. /\ Interrupted(disk[c]) # Absent
        /\ disk[c].state \notin Active => Interrupted(disk[c]) = disk[c]
    BY <1>1, InterruptedRecord
  <1> QED BY <1>1, <1>2, UpdateT DEF Running

\* Archiving leaves the state alone.
LEMMA ArchiveT ==
  ASSUME SInv, TInv, DInv, NEW c \in Convs, NEW archived \in BOOLEAN,
         Archive(c, archived)
  PROVE  TInv' /\ DInv'
  <1> DEFINE rec == [mem[c] EXCEPT !.archived = archived]
  <1>1. /\ phase # "down" /\ mem[c] # Absent
        /\ Update(c, rec) /\ job' = job
        /\ UNCHANGED <<transcript, events>>
    BY DEF Archive, Accepting, Reachable
  <1>2. mem[c] \in Record /\ disk[c] = mem[c]
    BY <1>1, Live
  <1>3. rec \in Record /\ rec.state = disk[c].state
    BY <1>2 DEF Record
  <1> HIDE DEF rec
  <1> QED BY <1>1, <1>3, AbsentAssumption, UpdateT DEF Running

\* A run is marked as working or as being cancelled.
LEMMA MarkT ==
  ASSUME SInv, TInv, DInv, phase # "down", NEW c \in Convs, Running(c),
         NEW state \in Active, Update(c, [mem[c] EXCEPT !.state = state]),
         UNCHANGED <<transcript, events>>,
         \A d \in Convs :
           Running(d)' => Running(d) /\ job'[d].turn = job[d].turn
  PROVE  TInv' /\ DInv'
  <1> DEFINE rec == [mem[c] EXCEPT !.state = state]
  <1>1. mem[c] \in Record /\ disk[c] = mem[c] /\ disk[c].state \in Active
    BY Live
  <1>2. rec \in Record
    BY <1>1 DEF Record, States
  <1>3. Update(c, rec)
    OBVIOUS
  <1> HIDE DEF rec
  <1> QED BY <1>1, <1>2, <1>3, AbsentAssumption, UpdateT

\* The outcome of the run before gives way to the message that is sent.
LEMMA SendT ==
  ASSUME SInv, TInv, DInv, NEW c \in Convs, Send(c)
  PROVE  TInv' /\ DInv'
  <1> DEFINE n == Turns(c) + 1
             rec == Begun(c, n)
  <1>1. /\ phase # "down" /\ mem[c] # Absent
        /\ transcript' = Said(c, "user", n)
        /\ events' = Emitted(c, "started", n)
        /\ Update(c, rec)
        /\ job' = [job EXCEPT ![c] = [pc |-> "created", turn |-> n]]
    BY DEF Send, Accepting, Reachable
  <1>2. rec # Absent
    <2>1. mem[c] \in Record /\ n \in Nat
      BY <1>1, Live, LayerTypes
    <2>2. rec \in Record
      BY <2>1 DEF Begun, Record, States, Active
    <2> QED BY <2>2, AbsentAssumption
  <1> HIDE DEF rec
  <1>3. disk'[c] # Absent /\ job'[c].turn = n
    BY <1>1, <1>2 DEF Update, SInv, TypeOK
  <1>4. \A d \in Convs : d # c =>
          /\ transcript'[d] = transcript[d] /\ events'[d] = events[d]
          /\ disk'[d] = disk[d] /\ job'[d] = job[d]
    BY <1>1 DEF Update, Said, Emitted, SInv, TypeOK
  <1>5. ToldAt(c)' /\ DurableAt(c)'
    BY <1>1, <1>3, SentT, SentD DEF TInv
  <1> QED BY <1>4, <1>5, OneT DEF Running

\* A run that ends in this process.
LEMMA SettleT ==
  ASSUME SInv, TInv, DInv, phase # "down", NEW c \in Convs, Running(c),
         NEW name \in {"completed", "cancelled", "failed"},
         Update(c, Settled(c, name)),
         job' = [job EXCEPT ![c] = NoJob],
         events' = Emitted(c, name, job[c].turn),
         \/ transcript' = transcript /\ name # "completed"
         \/ transcript' = Said(c, "assistant", job[c].turn)
  PROVE  TInv' /\ DInv'
  <1>1. /\ Settled(c, name) \in Record /\ Settled(c, name).state = name
    <2>1. mem[c] \in Record
      BY Live
    <2> QED BY <2>1 DEF Settled, Record, States
  <1>2. disk'[c] # Absent /\ disk'[c].state = name /\ ~Running(c)'
    BY <1>1, AbsentAssumption DEF Update, SInv, TypeOK, Running, NoJob
  <1>3. \A d \in Convs : d # c =>
          /\ transcript'[d] = transcript[d] /\ events'[d] = events[d]
          /\ disk'[d] = disk[d] /\ job'[d] = job[d]
    BY DEF Update, Said, Emitted, SInv, TypeOK
  <1>4. ToldAt(c)' /\ DurableAt(c)'
    BY <1>2, OverT, OverD DEF TInv
  <1> QED BY <1>3, <1>4, OneT DEF Running

\* A run that ends stores the reply before it announces the outcome.
LEMMA RunResumesT ==
  ASSUME SInv, TInv, DInv, NEW c \in Convs, RunResumes(c)
  PROVE  TInv' /\ DInv'
  <1> DEFINE outcome == OutcomeOf(job[c].pc)
  <1>1. /\ phase # "down" /\ Running(c) /\ job[c].pc \in Done
        /\ Update(c, Settled(c, outcome))
        /\ job' = [job EXCEPT ![c] = NoJob]
        /\ events' = Emitted(c, outcome, job[c].turn)
        /\ transcript' = IF job[c].pc = "returned"
                           THEN Said(c, "assistant", job[c].turn) ELSE transcript
    BY DEF RunResumes, Running, Done
  <1>2. /\ outcome \in {"completed", "failed", "cancelled"}
        /\ outcome = "completed" => job[c].pc = "returned"
    BY <1>1, OutcomeState
  <1> HIDE DEF outcome
  <1> QED BY <1>1, <1>2, SettleT

\* The process dies between two writes of a step, or between two steps.
LEMMA KillInSendT ==
  ASSUME SInv, TInv, DInv, NEW c \in Convs, KillInSend(c)
  PROVE  TInv' /\ DInv'
  <1> DEFINE n == Turns(c) + 1
             rec == Begun(c, n)
  <1>1. /\ phase # "down" /\ mem[c] # Absent
        /\ transcript' = Said(c, "user", n)
        /\ events' = events
        /\ disk' = [disk EXCEPT ![c] = rec] \/ disk' = disk
        /\ \A d \in Convs : ~Running(d)'
    BY DEF KillInSend, Accepting, Reachable, Gone, Running, NoJob
  <1>2. rec # Absent /\ disk[c] # Absent
    <2>1. mem[c] \in Record /\ disk[c] = mem[c] /\ n \in Nat
      BY <1>1, Live, LayerTypes
    <2>2. rec \in Record
      BY <2>1 DEF Begun, Record, States, Active
    <2> QED BY <1>1, <2>1, <2>2, AbsentAssumption
  <1> HIDE DEF rec
  <1>3. disk'[c] # Absent
    BY <1>1, <1>2 DEF SInv, TypeOK
  <1>4. \A d \in Convs : d # c =>
          /\ transcript'[d] = transcript[d] /\ events'[d] = events[d]
          /\ disk'[d] = disk[d]
    BY <1>1 DEF Said, SInv, TypeOK
  <1>5. ToldAt(c)' /\ DurableAt(c)'
    BY <1>1, <1>3, SentT, SentD DEF TInv
  <1> QED BY <1>1, <1>4, <1>5, OneT

\* A death at the end of a run: the reply or the record may be written,
\* nothing is announced.
LEMMA KillInFinishT ==
  ASSUME SInv, TInv, DInv, NEW c \in Convs, KillInFinish(c)
  PROVE  TInv' /\ DInv'
  <1> DEFINE rec == Settled(c, OutcomeOf(job[c].pc))
  <1>1. /\ phase # "down" /\ Running(c) /\ job[c].pc \in Done
        /\ transcript' = IF job[c].pc = "returned"
                           THEN Said(c, "assistant", job[c].turn) ELSE transcript
        /\ events' = events
        /\ disk' = [disk EXCEPT ![c] = rec] \/ disk' = disk
        /\ \A d \in Convs : ~Running(d)'
    BY DEF KillInFinish, Running, Done, Gone, NoJob
  <1>2. rec # Absent /\ disk[c] # Absent
    <2>1. mem[c] \in Record /\ disk[c] = mem[c]
      BY <1>1, Live DEF SInv, RecordsAreTrue
    <2>2. OutcomeOf(job[c].pc) \in States
      BY <1>1, OutcomeState
    <2>3. rec \in Record
      BY <2>1, <2>2 DEF Settled, Record
    <2> QED BY <2>1, <2>3, AbsentAssumption
  <1> HIDE DEF rec
  <1>3. disk'[c] # Absent
    BY <1>1, <1>2 DEF SInv, TypeOK
  <1>4. \A d \in Convs : d # c =>
          /\ transcript'[d] = transcript[d] /\ events'[d] = events[d]
          /\ disk'[d] = disk[d]
    BY <1>1 DEF Said, SInv, TypeOK
  <1>5. transcript' = transcript \/ transcript' = Said(c, "assistant", job[c].turn)
    BY <1>1
  <1>6. "failed" \in {"completed", "cancelled", "failed"}
    OBVIOUS
  <1>7. ToldAt(c)'
    BY <1>1, <1>3, <1>5, <1>6, OverT DEF TInv
  <1>8. DurableAt(c)'
    BY <1>1, <1>6, OverD DEF TInv
  <1> QED BY <1>1, <1>4, <1>7, <1>8, OneT

\* Runs go on or are gone, and no file is written.
LEMMA JobsT ==
  ASSUME SInv, TInv, DInv, UNCHANGED <<disk, transcript, events>>,
         \A c \in Convs :
           Running(c)' => Running(c) /\ job'[c].turn = job[c].turn
  PROVE  TInv' /\ DInv'
  BY QuietT

\* Every step keeps the second and the third layer.
LEMMA NextT ==
  ASSUME SInv, TInv, DInv, [Next]_vars
  PROVE  TInv' /\ DInv'
  <1>1. CASE OpenProject \/ RemoveProject \/ Shutdown \/ CancelReturns \/ Restart
    BY <1>1, JobsT
    DEF OpenProject, RemoveProject, Shutdown, CancelReturns, Restart, Running
  <1>2. ASSUME NEW c \in Convs, ShutdownSkips(c) \/ CancelIgnored(c)
        PROVE  TInv' /\ DInv'
    BY <1>2, JobsT DEF ShutdownSkips, CancelIgnored, vars, Running
  <1>3. CASE List
    BY <1>3, ListT
  <1>4. CASE StdinCloses \/ ShutdownReturns
    <2>1. UNCHANGED <<disk, transcript, events>>
      BY <1>4 DEF StdinCloses, ShutdownReturns, TearDown
    <2>2. \A c \in Convs :
            Running(c)' => Running(c) /\ job'[c].turn = job[c].turn
      BY <1>4, TornDown DEF StdinCloses, ShutdownReturns, Running
    <2> QED BY <2>1, <2>2, JobsT
  <1>5. ASSUME NEW c \in Convs,
               Create(c) \/ Open(c) \/ Send(c) \/ RunResumes(c)
        PROVE  TInv' /\ DInv'
    BY <1>5, CreateT, OpenT, SendT, RunResumesT
  <1>6. ASSUME NEW c \in Convs,
               Delete(c) \/ \E archived \in BOOLEAN : Archive(c, archived)
        PROVE  TInv' /\ DInv'
    BY <1>6, ArchiveT DEF Delete
  <1>7. ASSUME NEW c \in Convs, Cancel(c) \/ ShutdownCancels(c) \/ RunBegins(c)
        PROVE  TInv' /\ DInv'
    <2>1. PICK state \in Active : Update(c, [mem[c] EXCEPT !.state = state])
      BY <1>7 DEF Cancel, ShutdownCancels, RunBegins, Cancelling, Active
    <2>2. /\ phase # "down" /\ Running(c)
          /\ UNCHANGED <<transcript, events>>
      BY <1>7 DEF Cancel, ShutdownCancels, RunBegins, Cancelling, Accepting,
        NextInShutdown, Running
    <2>3. \A d \in Convs :
            Running(d)' => Running(d) /\ job'[d].turn = job[d].turn
      <3>1. \/ job' = job
            \/ \E pc \in {"running", "cancelling"} :
                 job' = [job EXCEPT ![c].pc = pc]
        BY <1>7 DEF Cancel, ShutdownCancels, RunBegins, Cancelling
      <3>2. job \in [Convs -> Job] /\ \A d \in Convs : job[d] \in Job
        BY DEF SInv, TypeOK
      <3>3. CASE \E pc : job' = [job EXCEPT ![c].pc = pc]
        BY <2>2, <3>2, <3>3 DEF Job, Running
      <3>4. CASE job' = job
        BY <3>4 DEF Running
      <3> QED BY <3>1, <3>3, <3>4
    <2> QED BY <2>1, <2>2, <2>3, MarkT
  <1>8. ASSUME NEW c \in Convs, RunCannotBegin(c)
        PROVE  TInv' /\ DInv'
    <2>1. /\ phase # "down" /\ Running(c)
          /\ Update(c, Settled(c, "failed"))
          /\ job' = [job EXCEPT ![c] = NoJob]
          /\ events' = Emitted(c, "failed", job[c].turn)
          /\ transcript' = transcript /\ "failed" # "completed"
          /\ "failed" \in {"completed", "cancelled", "failed"}
      BY <1>8 DEF RunCannotBegin, Running
    <2> QED BY <2>1, SettleT
  <1>9. ASSUME NEW c \in Convs,
               OrchestratorEnds(c) \/ CancelTakesEffect(c) \/ SwallowCancel(c)
        PROVE  TInv' /\ DInv'
    <2>1. UNCHANGED <<disk, transcript, events>>
      BY <1>9 DEF OrchestratorEnds, CancelTakesEffect, SwallowCancel
    <2>2. \A d \in Convs :
            Running(d)' => Running(d) /\ job'[d].turn = job[d].turn
      <3>1. Running(c) /\ \E pc : job' = [job EXCEPT ![c].pc = pc]
        BY <1>9 DEF OrchestratorEnds, CancelTakesEffect, SwallowCancel, Running
      <3> QED BY <3>1 DEF SInv, TypeOK, Job, Running
    <2> QED BY <2>1, <2>2, JobsT
  <1>10. CASE Kill \/ Exit
    BY <1>10, JobsT DEF Kill, Exit, Gone, Running, NoJob
  <1>11. ASSUME NEW c \in Convs, KillInSend(c) \/ KillInFinish(c)
         PROVE  TInv' /\ DInv'
    BY <1>11, KillInSendT, KillInFinishT
  <1>12. CASE UNCHANGED vars
    BY <1>12, JobsT DEF vars, Running
  <1> QED BY <1>1, <1>2, <1>3, <1>4, <1>5, <1>6, <1>7, <1>8, <1>9, <1>10, <1>11,
        <1>12
      DEF Next, ClientCall, CallStep, RunStep, Death

\* IInv is an inductive invariant: the three layers hold in every reachable
\* state.
LEMMA Inductive == Spec => []IInv
  <1>1. Init => SInv /\ TInv /\ DInv
    BY InitS, InitT, InitD
  <1>2. SInv /\ SInv' /\ TInv /\ DInv /\ [Next]_vars => TInv' /\ DInv'
    BY NextT
  <1> QED BY <1>1, <1>2, SInductive, PTL DEF Spec, IInv

\* Reads and writes keep their types: a handle that is live has a record, a
\* message and an event have the turn they are about.
THEOREM Types == Spec => []TypeOK
  <1>1. SInv => TypeOK
    BY DEF SInv
  <1> QED BY <1>1, SInductive, PTL

\* However calls, runs and the end of the process interleave, a record is
\* active exactly while its run is in progress, under that run's id, and the
\* file says what the handle says.
THEOREM RecordsKept == Spec => []RecordsAreTrue
  <1>1. SInv => RecordsAreTrue
    BY DEF SInv
  <1> QED BY <1>1, SInductive, PTL

\* A run has one outcome, a reply stands right behind its message, and a run
\* that was announced as completed has its reply on file.
THEOREM RepliesKept == Spec => []RepliesInTurn
  BY Inductive, TellsReplies, PTL DEF IInv

\* What was announced of the last run is what conversation.json says, until
\* the next message, across listings, crashes and restarts.
THEOREM OutcomeKept == Spec => []OutcomeIsDurable
  BY Inductive, DurableParts, PTL DEF IInv
=============================================================================
