-------------------------- MODULE HumanGateProofs --------------------------
(***************************************************************************)
(* What HumanGate promises for any number of questions, channels and       *)
(* restarts, whatever the questions are about: replies stay with the node  *)
(* of their question, and no question outlives its wait but one that a     *)
(* reply written for another question has settled.                         *)
(***************************************************************************)
EXTENDS HumanGate, TLAPS

Open == at \in {"subscribed", "waiting"}

\* Every reply that has passed the handler belongs to the open question.
Heard ==
  Open =>
    /\ asked # 0
    /\ \A i \in DOMAIN queued : Correlates(asked, queued[i])
    /\ future # 0 => Correlates(asked, future)

RInv == TypeOK /\ Heard /\ OwnReply

LEMMA Domain == Questions = 1..Len(About) /\ Len(About) \in Nat
  BY GateAssumption DEF Questions, GateAssumption

\* TypeOK is inductive.
LEMMA InitType == Init => TypeOK
  BY Domain, GateAssumption DEF Init, TypeOK, Payload, Quiet, GateAssumption

LEMMA CoordinatorType == TypeOK /\ (Coordinator \/ Killed) => TypeOK'
  <1> SUFFICES ASSUME TypeOK, Coordinator \/ Killed PROVE TypeOK'
    OBVIOUS
  <1> USE Domain, GateAssumption DEF TypeOK, GateAssumption, Payload
  <1>0. Discard => future' \in Payload /\ queued' \in Seq(Questions)
    BY DEF Discard
  <1>1. CASE Begin
    BY <1>1 DEF Begin
  <1>2. CASE TurnCheckpoint
    BY <1>2 DEF TurnCheckpoint
  <1>3. CASE Subscribe
    BY <1>0, <1>3 DEF Subscribe
  <1>4. CASE Announce
    BY <1>4 DEF Announce
  <1>5. CASE Resolve
    <2>1. Head(queued) \in Questions /\ Tail(queued) \in Seq(Questions)
      BY <1>5 DEF Resolve
    <2> QED
      BY <1>5, <2>1 DEF Resolve
  <1>6. CASE Answered
    BY <1>0, <1>6 DEF Answered
  <1>7. CASE TimedOut
    BY <1>0, <1>7 DEF TimedOut
  <1>8. CASE Stop
    BY <1>0, <1>8 DEF Stop
  <1>9. CASE Shutdown
    BY <1>9 DEF Shutdown
  <1>10. CASE Killed
    BY <1>0, <1>10 DEF Killed
  <1> QED
    BY <1>1, <1>2, <1>3, <1>4, <1>5, <1>6, <1>7, <1>8, <1>9, <1>10
    DEF Coordinator

LEMMA ChannelType == ASSUME NEW c \in Channels, TypeOK, Channel(c) PROVE TypeOK'
  <1> USE Domain DEF TypeOK, Payload, Reply
  <1>1. CASE Write(c)
    BY <1>1 DEF Write
  <1>2. CASE Drop(c)
    BY <1>2 DEF Drop
  <1>3. CASE Emit(c)
    <2>1. channel[c] \in Reply
      BY <1>3 DEF Emit, Quiet
    <2>2. (IF at \in {"subscribed", "waiting"} THEN asked ELSE 0) \in Payload
      OBVIOUS
    <2>3. [step |-> "listed", for |-> channel[c].for,
           handler |-> IF at \in {"subscribed", "waiting"} THEN asked ELSE 0]
            \in Reply
      BY <2>1, <2>2
    <2> QED
      BY <1>3, <2>3 DEF Emit
  <1>4. CASE Clear(c)
    <2>1. channel[c] \in Reply
      BY <1>4 DEF Clear, Quiet
    <2>2. [channel[c] EXCEPT !.step = "cleared"] \in Reply
      BY <2>1
    <2> QED
      BY <1>4, <2>2 DEF Clear
  <1>5. CASE Handle(c)
    <2>1. channel[c] \in Reply
      BY <1>5 DEF Handle, Quiet
    <2>2. channel[c].for \in Questions
      BY <2>1
    <2>3. queued' \in {queued, Append(queued, channel[c].for)}
      BY <1>5 DEF Handle
    <2>4. Append(queued, channel[c].for) \in Seq(Questions)
      BY <2>2
    <2> QED
      BY <1>5, <2>3, <2>4 DEF Handle
  <1> QED
    BY <1>1, <1>2, <1>3, <1>4, <1>5 DEF Channel

LEMMA StepType == TypeOK /\ [Next]_vars => TypeOK'
  <1> SUFFICES ASSUME TypeOK, [Next]_vars PROVE TypeOK'
    OBVIOUS
  <1>1. CASE UNCHANGED vars
    BY <1>1 DEF vars, TypeOK
  <1> QED
    BY <1>1, CoordinatorType, ChannelType DEF Next

\* The type invariant: every variable keeps its type, whatever the threads do.
THEOREM GateTypes == Spec => []TypeOK
  BY InitType, StepType, PTL DEF Spec

-----------------------------------------------------------------------------
(* Replies stay with their question *)

LEMMA CoordinatorReplies ==
  ASSUME TypeOK, Heard, OwnReply, Coordinator \/ Killed
  PROVE  Heard' /\ OwnReply'
  <1> USE Domain DEF Heard, Open, Correlates
  <1>1. CASE Begin \/ TurnCheckpoint \/ TimedOut \/ Stop \/ Shutdown \/ Killed
    BY <1>1 DEF Begin, TurnCheckpoint, TimedOut, Stop, Shutdown, Killed, OwnReply
  <1>2. CASE Subscribe
    BY <1>2 DEF Subscribe, Discard, TypeOK, OwnReply
  <1>3. CASE Announce
    BY <1>3 DEF Announce, OwnReply
  <1>4. CASE Resolve
    <2>1. queued \in Seq(Questions) /\ queued # << >>
      BY <1>4 DEF Resolve, TypeOK
    <2>2. Correlates(asked, Head(queued))
      BY <1>4, <2>1 DEF Resolve
    <2>3. \A i \in DOMAIN Tail(queued) : Correlates(asked, Tail(queued)[i])
      <3> SUFFICES ASSUME NEW i \in DOMAIN Tail(queued)
                   PROVE  Correlates(asked, Tail(queued)[i])
        OBVIOUS
      <3>1. i + 1 \in DOMAIN queued /\ Tail(queued)[i] = queued[i + 1]
        BY <2>1
      <3> QED
        BY <1>4, <3>1 DEF Resolve
    <2> QED
      BY <1>4, <2>2, <2>3 DEF Resolve, OwnReply
  <1>5. CASE Answered
    <2>1. Correlates(asked, future) /\ ~Open'
      BY <1>5 DEF Answered
    <2>2. \A q \in Questions :
            meant'[q] = IF q = asked THEN future ELSE meant[q]
      BY <1>5 DEF Answered, TypeOK
    <2> QED
      BY <1>5, <2>1, <2>2 DEF Answered, OwnReply
  <1> QED
    BY <1>1, <1>2, <1>3, <1>4, <1>5 DEF Coordinator

LEMMA ChannelReplies ==
  ASSUME NEW c \in Channels, TypeOK, Heard, OwnReply, Channel(c)
  PROVE  Heard' /\ OwnReply'
  <1> USE Domain DEF Heard, Open
  <1>1. CASE Write(c) \/ Drop(c) \/ Emit(c) \/ Clear(c)
    BY <1>1 DEF Write, Drop, Emit, Clear, OwnReply, Correlates
  <1>2. CASE Handle(c)
    <2>1. OwnReply'
      BY <1>2 DEF Handle, OwnReply
    <2>2. \/ queued' = queued
          \/ /\ queued' = Append(queued, channel[c].for)
             /\ Correlates(asked, channel[c].for)
      BY <1>2 DEF Handle
    <2>3. queued \in Seq(Questions)
      BY DEF TypeOK
    <2>4. ASSUME Open
          PROVE  \A i \in DOMAIN queued' : Correlates(asked, queued'[i])
      BY <2>2, <2>3, <2>4
    <2> QED
      BY <1>2, <2>1, <2>4 DEF Handle, Correlates
  <1> QED
    BY <1>1, <1>2 DEF Channel

LEMMA ReplyStep == RInv /\ [Next]_vars => RInv'
  <1> SUFFICES ASSUME RInv, [Next]_vars PROVE RInv'
    OBVIOUS
  <1>1. CASE UNCHANGED vars
    BY <1>1 DEF vars, RInv, TypeOK, Heard, Open, OwnReply, Correlates
  <1> QED
    BY <1>1, StepType, CoordinatorReplies, ChannelReplies DEF RInv, Next

\* No question is settled by a reply about another idea, from however many
\* channels and however late replies come.
THEOREM RepliesOwn == Spec => []OwnReply
  <1>1. Init => RInv
    BY InitType, Domain DEF Init, RInv, Heard, Open, OwnReply
  <1> QED
    BY <1>1, ReplyStep, PTL DEF Spec, RInv

-----------------------------------------------------------------------------
(* No question outlives its wait, unless another one's reply has settled it *)

\* A reply that was written for another question has settled q.
Foreign(q) == meant[q] \notin {0, q}

\* A question is shown or pending while it is open and no reply to it is on its
\* way, or after a foreign reply; no thread writes for a question still to come.
Shown ==
  /\ pending <= asked /\ panel <= asked
  /\ at = "down" => pending = 0 /\ panel = 0
  /\ at \in {"working", "subscribed"} =>
       /\ pending # 0 => Foreign(pending)
       /\ panel # 0 => Foreign(panel)
  /\ at = "subscribed" => pending < asked /\ panel < asked
  /\ at = "waiting" => {pending, panel} \subseteq {0, asked}
  /\ at = "waiting" =>
       \/ pending = 0 /\ panel = 0
       \/ /\ future # asked
          /\ \A i \in DOMAIN queued : queued[i] # asked
          /\ \A c \in Channels :
               ~(channel[c] # Quiet /\ channel[c].step = "cleared"
                   /\ channel[c].for = asked)
  /\ at = "subscribed" =>
       future # asked /\ \A i \in DOMAIN queued : queued[i] # asked
  /\ \A c \in Channels : channel[c] # Quiet =>
       /\ at # "down"
       /\ channel[c].for <= asked
       /\ at = "subscribed" => channel[c].for < asked

Excused(q) == outcome[q] = "cut" \/ Foreign(q)

\* A saved question was cut off or foreign, and so was the one a shutdown is to
\* save.
Cut ==
  /\ Open => saved < asked
  /\ at = "stopped" /\ pending # 0 => Excused(pending)
  /\ saved # 0 => saved <= asked /\ Excused(saved)

GInv == TypeOK /\ Shown /\ Cut

LEMMA CoordinatorShown ==
  ASSUME TypeOK, Shown, Coordinator \/ Killed PROVE Shown'
  <1> USE Domain DEF Shown, Foreign
  <1>0. /\ \A c \in Channels : channel[c] # Quiet => channel[c].for \in Nat
        /\ asked \in Nat /\ pending \in Nat /\ panel \in Nat
    BY DEF TypeOK, Reply, Payload
  <1>1. CASE Begin
    BY <1>0, <1>1 DEF Begin
  <1>2. CASE TurnCheckpoint
    BY <1>2 DEF TurnCheckpoint
  <1>3. CASE Subscribe
    <2>1. DOMAIN queued' = {}
      BY <1>3 DEF Subscribe, Discard
    <2> QED
      BY <1>0, <1>3, <2>1 DEF Subscribe, Discard
  <1>4. CASE Announce
    BY <1>0, <1>4 DEF Announce
  <1>5. CASE Resolve
    <2>1. queued \in Seq(Questions) /\ queued # << >>
      BY <1>5 DEF Resolve, TypeOK
    <2>2. \A i \in DOMAIN Tail(queued) :
            i + 1 \in DOMAIN queued /\ Tail(queued)[i] = queued[i + 1]
      BY <2>1
    <2>3. 1 \in DOMAIN queued /\ Head(queued) = queued[1]
      BY <2>1
    <2> QED
      BY <1>5, <2>2, <2>3 DEF Resolve
  <1>6. CASE Answered
    <2>1. asked \in Questions \/ (pending = 0 /\ panel = 0)
      <3>1. asked \in Questions \/ asked = 0
        BY Domain DEF TypeOK
      <3>2. pending \in {0, asked} /\ panel \in {0, asked}
        BY <1>6 DEF Answered
      <3> QED
        BY <3>1, <3>2
    <2>2. asked \in Questions => meant'[asked] = future
      BY <1>6 DEF Answered, TypeOK
    <2> QED
      BY <1>0, <1>6, <2>1, <2>2 DEF Answered, Discard
  <1>7. CASE TimedOut
    BY <1>0, <1>7 DEF TimedOut
  <1>8. CASE Stop
    BY <1>8 DEF Stop
  <1>9. CASE Shutdown
    BY <1>0, <1>9 DEF Shutdown
  <1>10. CASE Killed
    BY <1>0, <1>10 DEF Killed
  <1> QED
    BY <1>1, <1>2, <1>3, <1>4, <1>5, <1>6, <1>7, <1>8, <1>9, <1>10
    DEF Coordinator

LEMMA ChannelShown ==
  ASSUME NEW c \in Channels, TypeOK, Shown, Channel(c) PROVE Shown'
  <1> USE Domain DEF Shown, Foreign
  <1>0. /\ channel[c] \in Reply \cup {Quiet}
        /\ \A d \in Channels : d # c => channel'[d] = channel[d]
        /\ asked \in Nat /\ pending \in Nat /\ panel \in Nat
    BY DEF TypeOK, Payload, Channel, Write, Drop, Emit, Clear, Handle
  <1>1. CASE Write(c)
    <2>1. channel'[c] = [step |-> "writing", for |-> panel, handler |-> 0]
      BY <1>1 DEF Write, TypeOK
    <2>2. at # "down" /\ channel'[c].step # "cleared" /\ channel'[c].for = panel
      BY <1>1, <2>1 DEF Write
    <2> QED
      BY <1>0, <1>1, <2>2 DEF Write
  <1>2. CASE Drop(c)
    BY <1>0, <1>2 DEF Drop, TypeOK
  <1>3. CASE Emit(c)
    <2>1. channel[c] # Quiet
      BY <1>3 DEF Emit, Quiet
    <2>2. channel'[c].step = "listed" /\ channel'[c].for = channel[c].for
      BY <1>3 DEF Emit, TypeOK
    <2> QED
      BY <1>0, <1>3, <2>1, <2>2 DEF Emit
  <1>4. CASE Clear(c)
    <2>1. channel[c] # Quiet /\ channel[c] \in Reply
      BY <1>0, <1>4 DEF Clear, Quiet
    <2>2. channel'[c].for = channel[c].for
      BY <1>4, <2>1 DEF Clear, TypeOK, Reply
    <2> QED
      BY <1>0, <1>4, <2>1, <2>2 DEF Clear
  <1>5. CASE Handle(c)
    <2>1. channel[c] # Quiet /\ channel[c] \in Reply
      BY <1>0, <1>5 DEF Handle, Quiet
    <2>2. CASE queued' = queued
      BY <1>0, <1>5, <2>2 DEF Handle, TypeOK
    <2>3. CASE queued' # queued
      <3>1. queued' = Append(queued, channel[c].for)
        BY <1>5, <2>3 DEF Handle
      <3>2. queued \in Seq(Questions) /\ channel[c].for \in Questions
        BY <2>1 DEF TypeOK, Reply
      <3>3. \A i \in DOMAIN queued' :
              \/ i \in DOMAIN queued /\ queued'[i] = queued[i]
              \/ queued'[i] = channel[c].for
        BY <3>1, <3>2
      <3>4. CASE channel[c].for = asked
        <4>1. at = "waiting"
          BY <1>0, <1>5, <2>1, <2>3, <3>4 DEF Handle
        <4>2. pending = 0 /\ panel = 0
          BY <1>5, <2>1, <3>4, <4>1 DEF Handle
        <4> QED
          BY <1>0, <1>5, <4>1, <4>2 DEF Handle, TypeOK
      <3>5. CASE channel[c].for # asked
        <4>1. (\A i \in DOMAIN queued : queued[i] # asked) =>
                \A i \in DOMAIN queued' : queued'[i] # asked
          BY <3>3, <3>5
        <4> QED
          BY <1>0, <1>5, <4>1 DEF Handle, TypeOK
      <3> QED
        BY <3>4, <3>5
    <2> QED
      BY <2>2, <2>3
  <1> QED
    BY <1>1, <1>2, <1>3, <1>4, <1>5 DEF Channel

LEMMA CutStep ==
  ASSUME TypeOK, Shown, Cut, [Next]_vars PROVE Cut'
  <1> USE Domain DEF Cut, Open, Excused, Foreign
  <1>0. asked \in Nat /\ pending \in Payload /\ saved \in Payload
    BY DEF TypeOK, Payload
  <1>1. CASE UNCHANGED vars
    BY <1>1 DEF vars
  <1>2. CASE Begin
    BY <1>2 DEF Begin
  <1>3. CASE TurnCheckpoint
    BY <1>3 DEF TurnCheckpoint, Shown
  <1>4. CASE Subscribe
    <2>1. asked + 1 \in Questions /\ saved <= asked
      BY <1>0, <1>4 DEF Subscribe, Payload
    <2>2. saved # 0 => outcome'[saved] = outcome[saved]
      BY <1>0, <1>4, <2>1 DEF Subscribe, TypeOK, Payload
    <2> QED
      BY <1>0, <1>4, <2>1, <2>2 DEF Subscribe, Payload
  <1>5. CASE Announce
    BY <1>5 DEF Announce
  <1>6. CASE Resolve
    BY <1>6 DEF Resolve
  <1>7. CASE Answered
    <2>1. saved < asked
      BY <1>7 DEF Answered
    <2> QED
      BY <1>0, <1>7, <2>1 DEF Answered, TypeOK, Payload
  <1>8. CASE TimedOut
    <2>1. saved < asked
      BY <1>8 DEF TimedOut
    <2> QED
      BY <1>0, <1>8, <2>1 DEF TimedOut, TypeOK, Payload
  <1>9. CASE Stop
    <2>1. CASE at = "working"
      BY <1>9, <2>1 DEF Stop, Shown
    <2>2. CASE at = "waiting"
      <3>1. saved < asked /\ pending \in {0, asked}
        BY <2>2 DEF Shown
      <3>2. asked \in Questions => outcome'[asked] = "cut"
        BY <1>9, <2>2 DEF Stop, TypeOK
      <3>3. saved # 0 => outcome'[saved] = outcome[saved]
        BY <1>0, <1>9, <3>1 DEF Stop, TypeOK, Payload
      <3> QED
        BY <1>0, <1>9, <2>2, <3>1, <3>2, <3>3 DEF Stop, Payload
    <2> QED
      BY <1>9, <2>1, <2>2 DEF Stop
  <1>10. CASE Shutdown
    BY <1>10 DEF Shutdown, Shown
  <1>11. CASE Killed
    <2>1. saved # 0 => outcome'[saved] = outcome[saved]
      BY <1>0, <1>11 DEF Killed, TypeOK, Payload
    <2> QED
      BY <1>11, <2>1 DEF Killed
  <1>12. CASE \E c \in Channels : Channel(c)
    BY <1>12 DEF Channel, Write, Drop, Emit, Clear, Handle
  <1> QED
    BY <1>1, <1>2, <1>3, <1>4, <1>5, <1>6, <1>7, <1>8, <1>9, <1>10, <1>11, <1>12
    DEF Next, Coordinator

LEMMA GhostStep == GInv /\ [Next]_vars => GInv'
  <1> SUFFICES ASSUME GInv, [Next]_vars PROVE GInv'
    OBVIOUS
  <1>1. TypeOK' /\ Cut'
    BY StepType, CutStep DEF GInv
  <1>2. CASE UNCHANGED vars
    BY <1>1, <1>2 DEF vars, GInv, Shown, Foreign
  <1> QED
    BY <1>1, <1>2, CoordinatorShown, ChannelShown DEF GInv, Next

LEMMA GhostInit == Init => GInv
  BY InitType, Domain DEF Init, GInv, Shown, Cut, Open

\* While the agent works, no old question is shown or would be saved but one
\* that the reply to another question has settled, whatever questions are about.
THEOREM NoGhosts == Spec => []NoGhost
  <1>1. GInv => NoGhost
    BY DEF GInv, Shown, Foreign, NoGhost
  <1> QED
    BY GhostInit, GhostStep, <1>1, PTL DEF Spec

\* What a resumed run is told it was waiting for, it was waiting for, with the
\* same exception.
THEOREM RestoredOpen == Spec => []RestoredIsOpen
  <1>1. GInv => RestoredIsOpen
    BY DEF GInv, Cut, Excused, Foreign, RestoredIsOpen
  <1> QED
    BY GhostInit, GhostStep, <1>1, PTL DEF Spec
=============================================================================
