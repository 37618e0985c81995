------------------------- MODULE DesktopStoreProofs -------------------------
(***************************************************************************)
(* What the window shows, for any number of projects, conversations and    *)
(* calls: the selection is one conversation of its project, messages reach *)
(* and are shown in the conversation they belong to, and what is set while *)
(* a call is under way does not outlive it.                                *)
(***************************************************************************)
EXTENDS DesktopStore, SequenceTheorems, TLAPS

PCs == Ops \cup {"none", "ensure", "savefolder", "saveopen", "savenew",
                 "review", "go", "act"}
Listing == [Convs -> Groups \cup {None}]

\* Whoever opens or sends knows a conversation to do it to.
Targets ==
  /\ \A k \in Tasks :
       /\ task[k].pc \in {"open", "saveopen"} => task[k].for.conv # None
       /\ task[k].pc \in {"savenew", "send", "reopen"} => task[k].conv # None
  /\ \A i \in DOMAIN requests :
       requests[i].op \in {"open", "send", "reopen", "cancel"} =>
         requests[i].conv # None

-----------------------------------------------------------------------------
(* Types of what the actions are built from *)

LEMMA GroupOfType == \A state : GroupOf(state) \in Groups
  BY DEF GroupOf, Groups

LEMMA AboutType == ASSUME NEW c, NEW state PROVE About(c, state) \in Listing
  BY GroupOfType DEF About, Listing

LEMMA MergedType ==
  ASSUME TypeOK, NEW records \in Listing PROVE Merged(records) \in Listing
  BY DEF TypeOK, Merged, Listing

LEMMA AtType == ASSUME NEW c \in Convs PROVE At(c) \in Selection
  BY StoreAssumption DEF At, Selection

LEMMA NowhereType ==
  ASSUME NEW p \in Projects \cup {None} PROVE Nowhere(p) \in Selection
  BY DEF Nowhere, Selection

LEMMA IdleType == Idle \in Task
  BY NowhereType DEF Idle, Task

LEMMA PcType ==
  ASSUME NEW t \in Task, NEW pc \in PCs PROVE [t EXCEPT !.pc = pc] \in Task
  BY DEF Task, PCs

LEMMA SettledType ==
  ASSUME TypeOK, NEW k \in Tasks, NEW t \in Task
  PROVE  Settled(k, t) \in [Tasks -> Task]
<1>1. [t EXCEPT !.pc = "none", !.for = Nowhere(None)] \in Task
  BY NowhereType DEF Task
<1>2. \A j \in Tasks : [task[j] EXCEPT !.pc = "go"] \in Task
  BY PcType DEF TypeOK, PCs
<1> QED
  BY <1>1, <1>2 DEF Settled, TypeOK

LEMMA AfterSelectType ==
  ASSUME TypeOK, NEW k \in Tasks PROVE AfterSelect(k) \in [Tasks -> Task]
<1>1. task[k] \in Task /\ [task[k] EXCEPT !.pc = "act"] \in Task
  BY PcType DEF TypeOK, PCs
<1> QED
  BY <1>1, SettledType DEF AfterSelect, TypeOK

LEMMA AskType ==
  ASSUME TypeOK, NEW k \in Tasks, NEW op \in Ops, NEW p \in Projects \cup {None},
         NEW c \in Convs \cup {None}, NEW t \in Task, Ask(k, op, p, c, t)
  PROVE  requests' \in Seq(Request) /\ task' \in [Tasks -> Task]
<1>1. [by |-> k, op |-> op, project |-> p, conv |-> c, awaited |-> TRUE] \in Request
  BY DEF Request
<1>2. [t EXCEPT !.pc = op] \in Task
  BY PcType DEF PCs
<1> QED
  BY <1>1, <1>2 DEF Ask, TypeOK

LEMMA AnsweredType ==
  ASSUME TypeOK, NEW k \in Tasks, NEW op, Answered(k, op)
  PROVE  /\ answer' \in [Tasks -> Answer \cup {None}]
         /\ answer[k].records \in Listing /\ answer[k].said \in SUBSET Message
  BY DEF TypeOK, Answered, Answer, Listing

LEMMA Without ==
  ASSUME NEW S, NEW s \in Seq(S), NEW i \in DOMAIN s
  PROVE  SubSeq(s, 1, i - 1) \o SubSeq(s, i + 1, Len(s)) \in Seq(S)
<1>1. i \in 1..Len(s) /\ Len(s) \in Nat
  OBVIOUS
<1>2. SubSeq(s, 1, i - 1) \in Seq(S) /\ SubSeq(s, i + 1, Len(s)) \in Seq(S)
  BY <1>1
<1> QED
  BY <1>2

LEMMA UnansweredType ==
  ASSUME TypeOK, NEW k \in Tasks, NEW ops, Unanswered(k, ops)
  PROVE  /\ answer' \in [Tasks -> Answer \cup {None}]
         /\ requests' \in Seq(Request)
<1>1. answer' \in [Tasks -> Answer \cup {None}]
  BY DEF TypeOK, Unanswered
<1>2. ASSUME NEW i \in Awaited(k),
             requests' = SubSeq(requests, 1, i - 1)
                           \o SubSeq(requests, i + 1, Len(requests))
      PROVE  requests' \in Seq(Request)
  BY <1>2, Without DEF TypeOK, Awaited
<1>3. ASSUME NEW i \in Awaited(k),
             requests' = [requests EXCEPT ![i].awaited = FALSE]
      PROVE  requests' \in Seq(Request)
  <2>1. i \in DOMAIN requests /\ requests[i] \in Request
    BY DEF TypeOK, Awaited
  <2>2. [requests[i] EXCEPT !.awaited = FALSE] \in Request
    BY <2>1 DEF Request
  <2> QED
    BY <1>3, <2>1, <2>2 DEF TypeOK
<1> QED
  BY <1>1, <1>2, <1>3 DEF Unanswered, TypeOK

LEMMA RepliesType ==
  ASSUME TypeOK, requests # << >>, NEW records \in Listing,
         NEW said \in SUBSET Message, Replies(records, said)
  PROVE  /\ answer' \in [Tasks -> Answer \cup {None}]
         /\ requests' \in Seq(Request)
<1>1. requests' \in Seq(Request) /\ Head(requests) \in Request
  BY DEF TypeOK, Replies
<1>2. [records |-> records, said |-> said] \in Answer
  BY DEF Answer, Listing
<1> QED
  BY <1>1, <1>2 DEF TypeOK, Replies, Request

LEMMA EmitsType ==
  ASSUME TypeOK, NEW c \in Convs, NEW state, NEW said \in SUBSET Message,
         Emits(c, state, said)
  PROVE  events' \in Seq(Event)
<1>1. [conv |-> c, group |-> GroupOf(state), said |-> said] \in Event
  BY GroupOfType DEF Event
<1> QED
  BY <1>1 DEF Emits, TypeOK

-----------------------------------------------------------------------------
(* Every action keeps the types *)

LEMMA StoreInitType == Init => TypeOK
<1>1. ASSUME Init PROVE actual \in [Convs -> Record \cup {None}]
  <2>1. [state |-> "ended", turn |-> Boot] \in Record
    BY DEF Record, States, Tasks
  <2> QED
    BY <1>1, <2>1 DEF Init
<1>2. Nowhere(None) \in Selection
  BY NowhereType
<1> QED
  BY <1>1, <1>2, IdleType DEF Init, TypeOK

LEMMA CallTask ==
  ASSUME NEW op \in {"select", "submit", "abort"}, NEW c \in Convs \cup {None},
         NEW pc \in PCs
  PROVE  [[Idle EXCEPT !.op = op, !.for = [Nowhere(None) EXCEPT !.conv = c]]
            EXCEPT !.pc = pc] \in Task
<1>1. [Nowhere(None) EXCEPT !.conv = c] \in Selection
  BY DEF Nowhere, Selection
<1>2. [Idle EXCEPT !.op = op, !.for = [Nowhere(None) EXCEPT !.conv = c]] \in Task
  BY <1>1, IdleType DEF Task
<1> QED
  BY <1>2, PcType

LEMMA BootsType ==
  ASSUME TypeOK, NEW t \in [Tasks -> Task], Boots(t)
  PROVE  TypeOK'
<1>1. [by |-> Boot, op |-> "list", project |-> None, conv |-> None,
       awaited |-> TRUE] \in Request
  BY DEF Request, Ops, Tasks
<1>2. [Idle EXCEPT !.op = "boot", !.pc = "list"] \in Task
  BY IdleType DEF Task, Ops
<1>3. requests' \in Seq(Request) /\ task' \in [Tasks -> Task]
  <2>1. requests' \in Seq(Request)
    BY <1>1 DEF Boots, TypeOK
  <2>2. task' \in [Tasks -> Task]
    BY <1>2 DEF Boots
  <2> QED
    BY <2>1, <2>2
<1>4. ready' \in {"no", "loading", "yes"} /\ spin' \subseteq {"lists", "conversation"}
  BY DEF Boots, TypeOK
<1> QED
  BY <1>3, <1>4 DEF Boots, TypeOK, server

LEMMA UserType == TypeOK /\ User => TypeOK'
<1> SUFFICES ASSUME TypeOK, User PROVE TypeOK'
  OBVIOUS
<1>1. CASE Mount
  BY <1>1, BootsType DEF Mount, TypeOK
<1>2. ASSUME NEW k \in Calls, Refresh(k) PROVE TypeOK'
  <2>1. [Idle EXCEPT !.op = "refresh"] \in Task
    BY IdleType DEF Task
  <2>2. requests' \in Seq(Request) /\ task' \in [Tasks -> Task]
    BY <1>2, <2>1, AskType DEF Refresh, Tasks, Ops
  <2> QED
    BY <1>2, <2>2 DEF Refresh, TypeOK, server
<1>3. ASSUME NEW k \in Calls, NEW p \in Projects, SelectProject(k, p) PROVE TypeOK'
  <2>0. task[k] \in Task
    BY DEF TypeOK, Tasks
  <2>1. [task[k] EXCEPT !.op = "project"] \in Task
    BY <2>0 DEF Task
  <2>2. task' \in [Tasks -> Task]
    BY <1>3, <2>1 DEF SelectProject, TypeOK
  <2> QED
    BY <1>3, <2>2, NowhereType DEF SelectProject, TypeOK, server
<1>4. ASSUME NEW k \in Calls, NEW p \in Projects, OpenFolder(k, p) PROVE TypeOK'
  <2>1. [Idle EXCEPT !.op = "folder", !.for = Nowhere(p)] \in Task
    BY IdleType, NowhereType DEF Task
  <2>2. requests' \in Seq(Request) /\ task' \in [Tasks -> Task]
    BY <1>4, <2>1, AskType DEF OpenFolder, Tasks, Ops
  <2> QED
    BY <1>4, <2>2 DEF OpenFolder, TypeOK, server
<1>5. ASSUME NEW k \in Calls, NEW op \in {"select", "submit", "abort"},
             NEW c \in Convs \cup {None}, Call(k, op, c)
      PROVE  TypeOK'
  <2> DEFINE t == [Idle EXCEPT !.op = op, !.for = [Nowhere(None) EXCEPT !.conv = c]]
  <2>1. /\ [task EXCEPT ![k] = [t EXCEPT !.pc = "go"]] \in [Tasks -> Task]
        /\ [task EXCEPT ![k] = [t EXCEPT !.pc = "ensure"]] \in [Tasks -> Task]
    BY CallTask DEF TypeOK, Tasks, PCs
  <2> HIDE DEF t
  <2>2. \/ /\ \/ task' = [task EXCEPT ![k] = [t EXCEPT !.pc = "go"]]
              \/ task' = [task EXCEPT ![k] = [t EXCEPT !.pc = "ensure"]]
           /\ UNCHANGED <<ready, view, shown, sel, spin, answer, requests, server>>
        \/ Boots([task EXCEPT ![k] = [t EXCEPT !.pc = "ensure"]])
    BY <1>5 DEF Call, t
  <2> QED
    BY <2>1, <2>2, BootsType DEF TypeOK, server
<1> QED
  BY <1>1, <1>2, <1>3, <1>4, <1>5 DEF User

LEMMA StepsType ==
  ASSUME TypeOK, Targets, NEW k \in Tasks, Steps(k)
  PROVE  TypeOK'
<1> USE DEF server
<1>0. task[k] \in Task /\ Settled(k, task[k]) \in [Tasks -> Task]
  BY SettledType DEF TypeOK
<1>1. ASSUME Refreshed(k) \/ FolderOpened(k) PROVE TypeOK'
  <2>1. /\ answer' \in [Tasks -> Answer \cup {None}] /\ view' \in Listing
    BY <1>1, AnsweredType, MergedType DEF Refreshed, FolderOpened
  <2>2. sel' \in Selection
    BY <1>0, <1>1 DEF Refreshed, FolderOpened, Task, TypeOK
  <2> QED
    BY <1>0, <1>1, <2>1, <2>2 DEF Refreshed, FolderOpened, TypeOK, Listing
<1>2. CASE FolderListed(k)
  <2>1. [task[k] EXCEPT !.pc = "savefolder"] \in Task
    BY <1>0, PcType DEF PCs
  <2> QED
    BY <1>2, <2>1 DEF FolderListed, TypeOK
<1>3. CASE ListFails(k)
  BY <1>0, <1>3, UnansweredType DEF ListFails, TypeOK
<1>4. CASE Go(k)
  <2> DEFINE c == task[k].for.conv
  <2>0. c \in Convs \cup {None} /\ [task[k] EXCEPT !.pc = "act"] \in Task
    BY <1>0, PcType DEF Task, Selection, PCs
  <2>1. CASE c # None /\ Selects(k, c)
    <3>1. c \in Convs /\ ProjectOf[c] \in Projects
      BY <2>0, <2>1, StoreAssumption
    <3>2. requests' \in Seq(Request) /\ task' \in [Tasks -> Task]
      BY <1>0, <2>1, <3>1, AskType DEF Selects, Ops
    <3>3. sel' \in Selection /\ spin' \subseteq {"lists", "conversation"}
      BY <2>1, <3>1, AtType DEF Selects, TypeOK
    <3> QED
      BY <1>4, <3>2, <3>3 DEF Go, TypeOK
  <2>2. CASE /\ task' = Settled(k, task[k]) \/ task' = [task EXCEPT ![k].pc = "act"]
             /\ UNCHANGED <<sel, spin, requests>>
    BY <1>0, <1>4, <2>0, <2>2 DEF Go, TypeOK
  <2> QED
    BY <1>4, <2>1, <2>2 DEF Go
<1>5. CASE Opened(k)
  <2>1. [task[k] EXCEPT !.pc = "saveopen"] \in Task
    BY <1>0, PcType DEF PCs
  <2> QED
    BY <1>5, <2>1 DEF Opened, TypeOK
<1>6. CASE Shown(k)
  <2>1. task[k].for.conv \in Convs \cup {None} /\ task[k].pc = "saveopen"
    BY <1>0, <1>6 DEF Task, Selection, Shown, Answered
  <2>2. task[k].for.conv \in Convs
    BY <2>1 DEF Targets
  <2>3. [task[k] EXCEPT !.pc = "review"] \in Task
    BY <1>0, PcType DEF PCs
  <2>4. /\ answer' \in [Tasks -> Answer \cup {None}] /\ view' \in Listing
        /\ answer[k].said \in SUBSET Message
    BY <1>6, AnsweredType, MergedType DEF Shown
  <2> QED
    BY <1>6, <2>2, <2>3, <2>4, AtType DEF Shown, TypeOK, Listing, WithMessages
<1>7. CASE OpenFails(k)
  BY <1>7, UnansweredType, AfterSelectType DEF OpenFails, TypeOK
<1>8. CASE Reviewed(k)
  BY <1>8, AfterSelectType DEF Reviewed, TypeOK
<1>9. CASE Created(k)
  <2>1. /\ answer' \in [Tasks -> Answer \cup {None}] /\ view' \in Listing
    BY <1>9, AnsweredType, MergedType DEF Created
  <2>2. PICK c \in Convs :
          sel' = At(c) /\ task' = [task EXCEPT ![k].pc = "savenew", ![k].conv = c]
    BY <1>9 DEF Created
  <2>3. [[task[k] EXCEPT !.pc = "savenew"] EXCEPT !.conv = c] \in Task
    BY <1>0 DEF Task
  <2> QED
    BY <1>9, <2>1, <2>2, <2>3, AtType DEF Created, TypeOK, Listing
<1>10. ASSUME NEW c \in Convs, NEW t \in Task, Sends(k, c, t, view)
       PROVE  /\ shown' \in [Convs -> SUBSET Message] /\ view' \in Listing
              /\ requests' \in Seq(Request) /\ task' \in [Tasks -> Task]
  <2>1. Said("pending", k) \in Message
    BY DEF Said, Message
  <2>2. shown' \in [Convs -> SUBSET Message] /\ view' \in Listing
    BY <1>10, <2>1, GroupOfType DEF Sends, TypeOK, Listing
  <2>3. [t EXCEPT !.conv = c] \in Task /\ ProjectOf[c] \in Projects
    BY StoreAssumption DEF Task
  <2>4. Ask(k, "send", ProjectOf[c], c, [t EXCEPT !.conv = c])
    BY <1>10 DEF Sends
  <2> QED
    BY <2>2, <2>3, <2>4, AskType DEF Ops
<1>11. CASE BeginSend(k)
  <2> DEFINE t == [task[k] EXCEPT !.typed = sel]
  <2>0. t \in Task
    BY <1>0 DEF Task, TypeOK
  <2>1. CASE sel.project = None
    BY <1>11, <2>0, <2>1, SettledType DEF BeginSend, TypeOK
  <2>2. CASE sel.project # None /\ sel.conv # None /\ view[sel.conv] # None
    <3>1. sel.conv \in Convs /\ Sends(k, sel.conv, t, view)
      BY <1>11, <2>2 DEF BeginSend, TypeOK, Selection
    <3> HIDE DEF t
    <3> QED
      BY <1>10, <1>11, <2>0, <3>1 DEF BeginSend, TypeOK, Listing
  <2>3. CASE sel.project # None /\ ~(sel.conv # None /\ view[sel.conv] # None)
    <3>1. Ask(k, "create", sel.project, None, t) /\ UNCHANGED <<view, shown>>
      BY <1>11, <2>3 DEF BeginSend
    <3>2. sel.project \in Projects \cup {None}
      BY DEF TypeOK, Selection
    <3>3. requests' \in Seq(Request) /\ task' \in [Tasks -> Task]
      BY <2>0, <3>1, <3>2, AskType DEF Ops
    <3> QED
      BY <1>11, <3>1, <3>3 DEF BeginSend, TypeOK
  <2> QED
    BY <2>1, <2>2, <2>3
<1>12. CASE SendToCreated(k)
  <2>1. task[k].conv \in Convs
    BY <1>0, <1>12 DEF SendToCreated, Targets, Task
  <2> QED
    BY <1>0, <1>10, <1>12, <2>1 DEF SendToCreated, TypeOK, Listing
<1>13. CASE Sent(k)
  <2>1. task[k].conv \in Convs /\ ProjectOf[task[k].conv] \in Projects
    BY <1>0, <1>13, StoreAssumption DEF Sent, Answered, Targets, Task
  <2>2. requests' \in Seq(Request) /\ task' \in [Tasks -> Task]
    BY <1>0, <1>13, <2>1, AskType DEF Sent, Ops
  <2> QED
    BY <1>13, <2>2, AnsweredType DEF Sent, TypeOK
<1>14. CASE Reopened(k)
  <2>1. task[k].conv \in Convs
    BY <1>0, <1>14 DEF Reopened, Answered, Targets, Task
  <2>2. task' \in [Tasks -> Task]
    BY <1>0, <1>14, SettledType DEF Reopened
  <2>3. /\ answer' \in [Tasks -> Answer \cup {None}] /\ view' \in Listing
        /\ answer[k].said \in SUBSET Message
    BY <1>14, AnsweredType, MergedType DEF Reopened
  <2> QED
    BY <1>14, <2>1, <2>2, <2>3, AtType DEF Reopened, TypeOK, Listing, WithMessages
<1>15. CASE SendFails(k)
  BY <1>0, <1>15, UnansweredType DEF SendFails, TypeOK
<1>16. CASE BeginCancel(k)
  <2>1. CASE sel.conv # None /\ view[sel.conv] # None
    <3>1. sel.conv \in Convs /\ ProjectOf[sel.conv] \in Projects
      BY <2>1, StoreAssumption DEF TypeOK, Selection
    <3>2. [task[k] EXCEPT !.conv = sel.conv] \in Task
      BY <1>0, <3>1 DEF Task
    <3>3. Ask(k, "cancel", ProjectOf[sel.conv], sel.conv,
              [task[k] EXCEPT !.conv = sel.conv])
      BY <1>16, <2>1 DEF BeginCancel
    <3>4. requests' \in Seq(Request) /\ task' \in [Tasks -> Task]
      BY <3>1, <3>2, <3>3, AskType DEF Ops
    <3> QED
      BY <1>16, <3>4 DEF BeginCancel, TypeOK
  <2>2. CASE ~(sel.conv # None /\ view[sel.conv] # None)
    BY <1>0, <1>16, <2>2 DEF BeginCancel, TypeOK
  <2> QED
    BY <2>1, <2>2
<1>17. CASE Cancelled(k)
  BY <1>0, <1>17, AnsweredType, MergedType DEF Cancelled, TypeOK, Listing
<1>18. CASE CancelFails(k)
  BY <1>0, <1>18, UnansweredType DEF CancelFails, TypeOK
<1> QED
  BY <1>1, <1>2, <1>3, <1>4, <1>5, <1>6, <1>7, <1>8, <1>9, <1>11, <1>12,
     <1>13, <1>14, <1>15, <1>16, <1>17, <1>18 DEF Steps

LEMMA BootedType == TypeOK /\ Booted => TypeOK'
<1> SUFFICES ASSUME TypeOK, Booted PROVE TypeOK'
  OBVIOUS
<1>1. /\ answer' \in [Tasks -> Answer \cup {None}] /\ view' \in Listing
  BY AnsweredType, MergedType DEF Booted, Tasks
<1>2. task[Boot] \in Task
  BY DEF TypeOK, Tasks
<1>3. PICK s \in InitialSelections(answer[Boot].records) :
        \/ /\ s.conv # None
           /\ sel' = s
           /\ spin' = (spin \ {"lists"}) \cup {"conversation"}
           /\ Ask(Boot, "open", s.project, s.conv, [task[Boot] EXCEPT !.for = s])
        \/ /\ sel' = s
           /\ spin' = spin \ {"lists"}
           /\ task' = Settled(Boot, task[Boot])
           /\ UNCHANGED requests
  BY DEF Booted
<1>4. s \in Selection
  BY AtType, NowhereType DEF InitialSelections
<1>5. requests' \in Seq(Request) /\ task' \in [Tasks -> Task]
  <2>1. [task[Boot] EXCEPT !.for = s] \in Task
    BY <1>2, <1>4 DEF Task
  <2>2. s.project \in Projects \cup {None} /\ s.conv \in Convs \cup {None}
    BY <1>4 DEF Selection
  <2>3. Boot \in Tasks /\ "open" \in Ops
    BY DEF Tasks, Ops
  <2>4. CASE Ask(Boot, "open", s.project, s.conv, [task[Boot] EXCEPT !.for = s])
    BY <2>1, <2>2, <2>3, <2>4, AskType
  <2>5. CASE task' = Settled(Boot, task[Boot]) /\ UNCHANGED requests
    BY <1>2, <2>3, <2>5, SettledType DEF TypeOK
  <2> QED
    BY <1>3, <2>4, <2>5
<1>6. spin' \subseteq {"lists", "conversation"}
  BY <1>3 DEF TypeOK
<1> QED
  BY <1>1, <1>3, <1>4, <1>5, <1>6 DEF Booted, TypeOK, server, Listing

LEMMA HeadType ==
  ASSUME TypeOK, Targets, NEW op, Asked(op)
  PROVE  /\ Head(requests) \in Request /\ Head(requests).op = op
         /\ requests # << >> /\ requests[1] = Head(requests)
         /\ op \in {"open", "send", "reopen", "cancel"} => Head(requests).conv \in Convs
<1>1. /\ Head(requests) \in Request /\ Head(requests).op = op /\ requests # << >>
      /\ requests[1] = Head(requests) /\ 1 \in DOMAIN requests
  BY DEF TypeOK, Asked
<1> QED
  BY <1>1 DEF Targets, Request

LEMMA DeliverType == TypeOK /\ Deliver => TypeOK'
<1> SUFFICES ASSUME TypeOK, Deliver PROVE TypeOK'
  OBVIOUS
<1>1. Head(events) \in Event /\ events' \in Seq(Event)
  BY DEF TypeOK, Deliver
<1>2. view' \in [Convs -> Groups \cup {None}] /\ shown' \in [Convs -> SUBSET Message]
  BY <1>1 DEF TypeOK, Deliver, Event
<1> QED
  BY <1>1, <1>2 DEF Deliver, TypeOK

LEMMA ServerType == TypeOK /\ Targets /\ Server => TypeOK'
<1> SUFFICES ASSUME TypeOK, Targets, Server PROVE TypeOK'
  OBVIOUS
<1> USE DEF server, client
<1>1. CASE ServeList
  <2>1. PICK ps \in SUBSET Projects :
          Replies([c \in Convs |-> IF Known(c) /\ ProjectOf[c] \in ps
                                     THEN GroupOf(actual[c].state) ELSE None], {})
    BY <1>1 DEF ServeList
  <2>2. [c \in Convs |-> IF Known(c) /\ ProjectOf[c] \in ps
                           THEN GroupOf(actual[c].state) ELSE None] \in Listing
    BY GroupOfType DEF Listing
  <2>3. requests # << >>
    BY <1>1 DEF ServeList, Asked
  <2>4. /\ answer' \in [Tasks -> Answer \cup {None}]
        /\ requests' \in Seq(Request)
    BY <2>1, <2>2, <2>3, RepliesType
  <2> QED
    BY <1>1, <2>4 DEF ServeList, TypeOK
<1>2. CASE ServeOpen
  <2> DEFINE c == Head(requests).conv
  <2>1. c \in Convs /\ requests # << >>
    BY <1>2, HeadType DEF ServeOpen
  <2>2. log[c] \in SUBSET Message /\ About(c, actual[c].state) \in Listing
    BY <2>1, AboutType DEF TypeOK
  <2>3. /\ answer' \in [Tasks -> Answer \cup {None}]
        /\ requests' \in Seq(Request)
    BY <1>2, <2>1, <2>2, RepliesType DEF ServeOpen
  <2> QED
    BY <1>2, <2>3 DEF ServeOpen, TypeOK
<1>3. ASSUME NEW c \in Convs, ServeCreate(c) PROVE TypeOK'
  <2>1. requests # << >> /\ About(c, "ended") \in Listing
    BY <1>3, AboutType DEF ServeCreate, Asked
  <2>2. /\ answer' \in [Tasks -> Answer \cup {None}]
        /\ requests' \in Seq(Request) /\ events' \in Seq(Event)
    BY <1>3, <2>1, RepliesType, EmitsType DEF ServeCreate
  <2>3. [state |-> "ended", turn |-> Boot] \in Record
    BY DEF Record, States, Tasks
  <2> QED
    BY <1>3, <2>2, <2>3 DEF ServeCreate, TypeOK
<1>4. CASE ServeSend
  <2> DEFINE c == Head(requests).conv
             k == Head(requests).by
  <2>1. c \in Convs /\ k \in Tasks /\ requests # << >>
    BY <1>4, HeadType DEF ServeSend, Request
  <2>2. /\ Said("user", k) \in Message /\ [state |-> "starting", turn |-> k] \in Record
        /\ [d \in Convs |-> None] \in Listing
    BY <2>1 DEF Said, Message, Record, States, Listing
  <2>3. /\ log' = [log EXCEPT ![c] = @ \cup {Said("user", k)}]
        /\ actual' = [actual EXCEPT ![c] = [state |-> "starting", turn |-> k]]
        /\ Emits(c, "starting", {Said("user", k)})
        /\ Replies([d \in Convs |-> None], {})
    BY <1>4 DEF ServeSend
  <2>4. /\ answer' \in [Tasks -> Answer \cup {None}]
        /\ requests' \in Seq(Request) /\ events' \in Seq(Event)
    BY <2>1, <2>2, <2>3, RepliesType, EmitsType
  <2>5. log' \in [Convs -> SUBSET Message] /\ actual' \in [Convs -> Record \cup {None}]
    BY <2>1, <2>2, <2>3 DEF TypeOK
  <2> QED
    BY <1>4, <2>4, <2>5 DEF ServeSend, TypeOK
<1>5. CASE ServeCancel
  <2> DEFINE c == Head(requests).conv
  <2>1. c \in Convs /\ requests # << >> /\ actual[c] \in Record
    BY <1>5, HeadType DEF ServeCancel, Known, TypeOK
  <2>2. /\ [actual[c] EXCEPT !.state = "cancelling"] \in Record
        /\ About(c, "cancelling") \in Listing
    BY <2>1, AboutType DEF Record, States
  <2>3. /\ actual' = [actual EXCEPT ![c] = [actual[c] EXCEPT !.state = "cancelling"]]
        /\ Emits(c, "cancelling", {})
        /\ UNCHANGED <<requests, answer>> \/ Replies(About(c, "cancelling"), {})
    BY <1>5 DEF ServeCancel
  <2>4. /\ answer' \in [Tasks -> Answer \cup {None}]
        /\ requests' \in Seq(Request) /\ events' \in Seq(Event)
    BY <2>1, <2>2, <2>3, RepliesType, EmitsType DEF TypeOK
  <2> QED
    BY <1>5, <2>1, <2>2, <2>3, <2>4 DEF ServeCancel, TypeOK
<1>6. CASE ServeCancelled
  <2> DEFINE c == Head(requests).conv
  <2>1. requests # << >> /\ About(c, actual[c].state) \in Listing
    BY <1>6, AboutType DEF ServeCancelled, Asked
  <2>2. /\ answer' \in [Tasks -> Answer \cup {None}]
        /\ requests' \in Seq(Request)
    BY <1>6, <2>1, RepliesType DEF ServeCancelled
  <2> QED
    BY <1>6, <2>2 DEF ServeCancelled, TypeOK
<1>7. ASSUME NEW c \in Convs, RunBegins(c) PROVE TypeOK'
  <2>1. [actual[c] EXCEPT !.state = "working"] \in Record
    BY <1>7 DEF RunBegins, Known, TypeOK, Record, States
  <2>2. events' \in Seq(Event)
    BY <1>7, EmitsType DEF RunBegins
  <2> QED
    BY <1>7, <2>1, <2>2 DEF RunBegins, TypeOK
<1>8. ASSUME NEW c \in Convs, RunCompletes(c) PROVE TypeOK'
  <2>1. actual[c].turn \in Tasks
    BY <1>8 DEF RunCompletes, Known, TypeOK, Record
  <2>2. /\ Said("reply", actual[c].turn) \in Message
        /\ [state |-> "ended", turn |-> Boot] \in Record
    BY <2>1 DEF Said, Message, Record, States, Tasks
  <2>3. events' \in Seq(Event)
    BY <1>8, <2>2, EmitsType DEF RunCompletes
  <2> QED
    BY <1>8, <2>2, <2>3 DEF RunCompletes, TypeOK
<1>9. ASSUME NEW c \in Convs, NEW state \in {"failed", "ended"}, RunEnds(c, state)
      PROVE  TypeOK'
  <2>1. [state |-> state, turn |-> Boot] \in Record
    BY DEF Record, States, Tasks
  <2>2. events' \in Seq(Event)
    BY <1>9, EmitsType DEF RunEnds
  <2> QED
    BY <1>9, <2>1, <2>2 DEF RunEnds, TypeOK
<1> QED
  BY <1>1, <1>2, <1>3, <1>4, <1>5, <1>6, <1>7, <1>8, <1>9 DEF Server

LEMMA NextType == TypeOK /\ Targets /\ [Next]_vars => TypeOK'
<1>1. TypeOK /\ UNCHANGED vars => TypeOK'
  BY DEF TypeOK, vars, client, server
<1> QED
  BY <1>1, UserType, BootedType, StepsType, DeliverType, ServerType DEF Next

-----------------------------------------------------------------------------
(* The inductive invariant *)

\* k has found the conversation it sends its message to.
Sending(k) == task[k].op = "submit" /\ task[k].conv # None

\* The conversation that a message of k goes to is the one that was selected
\* or was made in the project that was.
Aimed(k) ==
  \/ task[k].typed.conv = task[k].conv
  \/ task[k].typed.conv = None /\ task[k].typed.project = ProjectOf[task[k].conv]

Fresh(k) ==
  /\ task[k].op = "none" => task[k].pc = "none" /\ task[k].conv = None
  /\ k = Boot => task[k].op \in {"none", "boot"}

Opening(k) ==
  /\ task[k].pc \in {"open", "saveopen"} =>
       task[k].for.conv # None /\ view[task[k].for.conv] # None
  /\ task[k].pc = "savefolder" \/ task[k].op = "folder" => task[k].for.conv = None

Submitting(k) ==
  /\ task[k].pc \in {"savenew", "send", "reopen"} =>
       Sending(k) /\ view[task[k].conv] # None
  /\ task[k].pc = "create" =>
       task[k].op = "submit" /\ task[k].typed.conv = None
  /\ Sending(k) => Aimed(k) /\ task[k].pc \in {"savenew", "send", "reopen", "none"}

TasksFit == \A k \in Tasks : Fresh(k) /\ Opening(k) /\ Submitting(k)

\* A request is about what its task is about, as long as it is awaited.
Fits(r) ==
  /\ r.awaited =>
       /\ task[r.by].pc = r.op /\ answer[r.by] = None
       /\ r.op = "open" => r.conv = task[r.by].for.conv
       /\ r.op = "reopen" => r.conv = task[r.by].conv
       /\ r.op = "create" => r.project = task[r.by].typed.project
  /\ r.op = "send" => Sending(r.by) /\ r.conv = task[r.by].conv
  /\ r.op \in {"open", "send", "reopen", "cancel"} => r.conv # None

RequestsFit ==
  /\ \A i \in DOMAIN requests : Fits(requests[i])
  /\ \A i, j \in DOMAIN requests :
       requests[i].awaited /\ requests[j].awaited
         /\ requests[i].by = requests[j].by => i = j

\* An answer is about what its task is about.
Answers(k) ==
  answer[k] # None =>
    /\ task[k].pc \in Ops \cup {"savefolder", "saveopen"}
    /\ task[k].pc \in {"open", "saveopen"} => answer[k].said \subseteq log[task[k].for.conv]
    /\ task[k].pc = "reopen" => answer[k].said \subseteq log[task[k].conv]
    /\ task[k].pc = "create" =>
         \A c \in Convs :
           answer[k].records[c] # None => ProjectOf[c] = task[k].typed.project

AnswersFit == \A k \in Tasks : Answers(k)

EventsFit == \A i \in DOMAIN events : events[i].said \subseteq log[events[i].conv]

LogsFit ==
  \A c \in Convs : \A m \in log[c] :
    /\ m.by # "pending"
    /\ m.by = "user" => Sending(m.of) /\ task[m.of].conv = c

ShownFit ==
  \A c \in Convs : \A m \in shown[c] :
    IF m.by = "pending"
      THEN Sending(m.of) /\ task[m.of].conv = c
    ELSE m \in log[c]

SInv ==
  /\ TypeOK /\ TasksFit /\ RequestsFit /\ AnswersFit /\ EventsFit /\ LogsFit
  /\ ShownFit /\ SelectedTogether /\ SpinnersAreTrue

LEMMA TargetsFit == TypeOK /\ TasksFit /\ RequestsFit => Targets
  BY DEF TasksFit, Opening, Submitting, Sending, RequestsFit, Fits, Targets

-----------------------------------------------------------------------------
(* What one step of the window leaves alone *)

\* A call that waits for the initialization.
Waiting == {t \in Task : /\ t.op \in {"select", "submit", "abort"}
                         /\ t.pc = "ensure" /\ t.conv = None}

\* Only k moves, but for those that await the initialization.
Moves(k) ==
  /\ \A j \in Tasks \ {k} :
       /\ answer'[j] = answer[j]
       /\ \/ task'[j] = task[j]
          \/ task[j].pc = "ensure" /\ task'[j] = [task[j] EXCEPT !.pc = "go"]
          \/ /\ j \in Calls /\ task[j].op = "none" /\ task[j].pc = "none"
             /\ task'[j] \in Waiting
  /\ Sending(k) => Sending(k)' /\ task'[k].conv = task[k].conv

\* k is not waiting for an answer that is still to be given.
Free(k) == \A i \in DOMAIN requests : requests[i].awaited => requests[i].by # k

ViewGrows == \A c \in Convs : view[c] # None => view'[c] # None

LEMMA FreeToAct ==
  ASSUME TypeOK, RequestsFit, NEW k \in Tasks,
         task[k].pc \notin Ops \/ answer[k] # None
  PROVE  Free(k)
<1> SUFFICES ASSUME NEW i \in DOMAIN requests, requests[i].awaited, requests[i].by = k
             PROVE  FALSE
  BY DEF Free
<1>1. requests[i] \in Request /\ Fits(requests[i])
  BY DEF TypeOK, RequestsFit
<1> QED
  BY <1>1 DEF Fits, Request

LEMMA SendingStays ==
  ASSUME TypeOK, NEW k \in Tasks, Moves(k), NEW j \in Tasks, Sending(j)
  PROVE  Sending(j)' /\ task'[j].conv = task[j].conv
<1>1. task[j] \in Task
  BY DEF TypeOK
<1>2. CASE task'[j] = task[j]
  BY <1>2 DEF Sending
<1>3. CASE task'[j] = [task[j] EXCEPT !.pc = "go"]
  BY <1>1, <1>3 DEF Sending, Task
<1> QED
  BY <1>2, <1>3 DEF Moves, Sending

LEMMA OthersFit ==
  ASSUME TypeOK, TasksFit, AnswersFit, NEW k \in Tasks, Moves(k), ViewGrows,
         log' = log, Fresh(k)', Opening(k)', Submitting(k)', Answers(k)'
  PROVE  (TasksFit /\ AnswersFit)'
<1>1. ASSUME NEW j \in Tasks \ {k}
      PROVE  (Fresh(j) /\ Opening(j) /\ Submitting(j) /\ Answers(j))'
  <2>0. task[j] \in Task /\ answer'[j] = answer[j]
    BY DEF TypeOK, Moves
  <2>1. Fresh(j) /\ Opening(j) /\ Submitting(j) /\ Answers(j)
    BY DEF TasksFit, AnswersFit
  <2>2. CASE task'[j] = task[j]
    BY <2>0, <2>1, <2>2
    DEF Fresh, Opening, Submitting, Answers, Sending, Aimed, ViewGrows, Task,
        Selection
  <2>3. CASE task[j].pc = "ensure" /\ task'[j] = [task[j] EXCEPT !.pc = "go"]
    <3>1. /\ task'[j].pc = "go" /\ task'[j].op = task[j].op
          /\ task'[j].conv = task[j].conv
          /\ task'[j].for = task[j].for
      BY <2>0, <2>3 DEF Task
    <3>2. task[j].op # "none" /\ ~Sending(j) /\ answer[j] = None
      BY <2>1, <2>3 DEF Fresh, Submitting, Answers, Ops
    <3> QED
      BY <2>0, <2>1, <3>1, <3>2
      DEF Fresh, Opening, Submitting, Answers, Sending, Ops
  <2>4. CASE j \in Calls /\ task[j].op = "none" /\ task[j].pc = "none"
             /\ task'[j] \in Waiting
    <3>1. /\ task'[j].pc = "ensure" /\ task'[j].conv = None
          /\ task'[j].op \in {"select", "submit", "abort"} /\ j # Boot
      BY <2>4, StoreAssumption DEF Waiting
    <3>2. answer[j] = None
      BY <2>1, <2>4 DEF Answers, Ops
    <3> QED
      BY <2>0, <3>1, <3>2
      DEF Fresh, Opening, Submitting, Answers, Sending
  <2> QED
    BY <2>2, <2>3, <2>4 DEF Moves
<1> QED
  BY <1>1 DEF TasksFit, AnswersFit

LEMMA LogsStay ==
  ASSUME TypeOK, LogsFit, EventsFit, NEW k \in Tasks, Moves(k),
         log' = log, events' = events
  PROVE  (LogsFit /\ EventsFit)'
<1>1. ASSUME NEW c \in Convs, NEW m \in log'[c]
      PROVE  m.by # "pending" /\ (m.by = "user" => Sending(m.of)' /\ task'[m.of].conv = c)
  <2>1. m \in Message /\ m \in log[c]
    BY DEF TypeOK
  <2>2. m.of \in Tasks
    BY <2>1 DEF Message
  <2> QED
    BY <2>1, <2>2, SendingStays DEF LogsFit
<1> QED
  BY <1>1 DEF LogsFit, EventsFit

LEMMA ShownStays ==
  ASSUME TypeOK, ShownFit, NEW k \in Tasks, Moves(k), log' = log,
         shown' = shown
  PROVE  ShownFit'
<1>1. ASSUME NEW c \in Convs, NEW m \in shown[c], m.by = "pending"
      PROVE  Sending(m.of)' /\ task'[m.of].conv = c
  <2>1. m.of \in Tasks /\ task[m.of] \in Task
    BY DEF TypeOK, Message
  <2>2. Sending(m.of) /\ task[m.of].conv = c
    BY <1>1 DEF ShownFit
  <2>3. CASE m.of # k
    BY <2>1, <2>2, <2>3, SendingStays DEF Moves, Sending, Task
  <2> QED
    BY <2>1, <2>2, <2>3, SendingStays
<1> QED
  BY <1>1 DEF ShownFit

LEMMA FitsStays ==
  ASSUME TypeOK, NEW k \in Tasks, Moves(k), NEW r \in Request, Fits(r),
         r.awaited => r.by # k
  PROVE  Fits(r)'
<1>0. r.by \in Tasks /\ task[r.by] \in Task
  BY DEF TypeOK, Request
<1>1. CASE r.awaited
  <2>1. task[r.by].pc = r.op /\ r.op # "ensure" /\ r.op # "none"
    BY <1>1 DEF Fits, Request, Ops
  <2>2. task'[r.by] = task[r.by] /\ answer'[r.by] = answer[r.by]
    BY <1>0, <1>1, <2>1 DEF Moves
  <2> QED
    BY <1>0, <2>2 DEF Fits, Sending
<1>2. CASE ~r.awaited
  BY <1>0, <1>2, SendingStays DEF Fits
<1> QED
  BY <1>1, <1>2

LEMMA RequestsStay ==
  ASSUME TypeOK, RequestsFit, NEW k \in Tasks, Moves(k), Free(k),
         requests' = requests
  PROVE  RequestsFit'
<1>1. ASSUME NEW i \in DOMAIN requests PROVE Fits(requests[i])'
  <2>1. PICK r \in Request : r = requests[i]
    BY DEF TypeOK
  <2>2. Fits(r)'
    BY <2>1, FitsStays DEF RequestsFit, Free
  <2> QED
    BY <2>1, <2>2 DEF Fits
<1> QED
  BY <1>1 DEF RequestsFit

LEMMA RequestsAsked ==
  ASSUME TypeOK, RequestsFit, NEW k \in Tasks, Moves(k), Free(k),
         NEW r \in Request, r.by = k, Fits(r)', requests' = Append(requests, r)
  PROVE  RequestsFit'
<1>1. /\ \A i \in DOMAIN requests : requests[i] \in Request
      /\ DOMAIN requests = 1..Len(requests) /\ Len(requests) \in Nat
  BY DEF TypeOK
<1>2. /\ DOMAIN requests' = 1..(Len(requests) + 1)
      /\ \A i \in DOMAIN requests : requests'[i] = requests[i]
      /\ requests'[Len(requests) + 1] = r
  BY <1>1 DEF TypeOK
<1>4. ASSUME NEW i \in DOMAIN requests' PROVE Fits(requests[i])'
  <2>1. i \in DOMAIN requests \/ i = Len(requests) + 1
    BY <1>1, <1>2
  <2>2. CASE i \in DOMAIN requests
    <3>1. PICK q \in Request : q = requests[i]
      BY <1>1, <2>2
    <3>2. Fits(q)'
      BY <2>2, <3>1, FitsStays DEF RequestsFit, Free
    <3> QED
      BY <1>2, <2>2, <3>1, <3>2 DEF Fits
  <2>3. CASE i = Len(requests) + 1
    BY <1>2, <2>3 DEF Fits
  <2> QED
    BY <2>1, <2>2, <2>3
<1>5. ASSUME NEW i \in DOMAIN requests', NEW j \in DOMAIN requests',
             requests'[i].awaited, requests'[j].awaited,
             requests'[i].by = requests'[j].by
      PROVE  i = j
  <2>1. /\ i \in DOMAIN requests \/ i = Len(requests) + 1
        /\ j \in DOMAIN requests \/ j = Len(requests) + 1
    BY <1>1, <1>2
  <2> QED
    BY <1>2, <1>5, <2>1 DEF RequestsFit, Free
<1> QED
  BY <1>4, <1>5 DEF RequestsFit

LEMMA Joined ==
  ASSUME NEW S, NEW a \in Seq(S), NEW b \in Seq(S)
  PROVE  /\ DOMAIN (a \o b) = 1..(Len(a) + Len(b))
         /\ \A j \in 1..(Len(a) + Len(b)) :
              (a \o b)[j] = IF j <= Len(a) THEN a[j] ELSE b[j - Len(a)]
<1>1. /\ a \o b \in Seq(S) /\ Len(a \o b) = Len(a) + Len(b)
      /\ \A j \in 1..(Len(a) + Len(b)) :
           (a \o b)[j] = IF j <= Len(a) THEN a[j] ELSE b[j - Len(a)]
  BY ConcatProperties
<1>2. DOMAIN (a \o b) = 1..Len(a \o b)
  BY <1>1
<1> QED
  BY <1>1, <1>2

LEMMA Taken ==
  ASSUME NEW S, NEW s \in Seq(S), NEW i \in DOMAIN s
  PROVE  LET t == SubSeq(s, 1, i - 1) \o SubSeq(s, i + 1, Len(s))
         IN  /\ DOMAIN t = 1..(Len(s) - 1)
             /\ \A j \in 1..(Len(s) - 1) : t[j] = IF j < i THEN s[j] ELSE s[j + 1]
<1> DEFINE n == Len(s)
           a == SubSeq(s, 1, i - 1)
           b == SubSeq(s, i + 1, n)
<1>1. i \in 1..n /\ n \in Nat /\ \A j \in 1..n : s[j] \in S
  OBVIOUS
<1>2. /\ a \in Seq(S) /\ Len(a) = IF 1 <= i - 1 THEN (i - 1) - 1 + 1 ELSE 0
      /\ \A j \in 1..((i - 1) - 1 + 1) : a[j] = s[1 + j - 1]
  <2>1. \A j \in 1..(i - 1) : s[j] \in S
    BY <1>1
  <2>2. 1 \in Int /\ i - 1 \in Int
    BY <1>1
  <2> QED
    BY <2>1, <2>2, SubSeqProperties
<1>3. /\ b \in Seq(S) /\ Len(b) = IF i + 1 <= n THEN n - (i + 1) + 1 ELSE 0
      /\ \A j \in 1..(n - (i + 1) + 1) : b[j] = s[(i + 1) + j - 1]
  <2>1. \A j \in (i + 1)..n : s[j] \in S
    BY <1>1
  <2>2. i + 1 \in Int /\ n \in Int
    BY <1>1
  <2> QED
    BY <2>1, <2>2, SubSeqProperties
<1> HIDE DEF a, b, n
<1>4. i - 1 \in Nat /\ n - i \in Nat /\ i \in Nat /\ (i - 1) + (n - i) = n - 1
  BY <1>1
<1>5. Len(a) = i - 1 /\ \A j \in 1..(i - 1) : a[j] = s[j]
  BY <1>1, <1>2
<1>6. Len(b) = n - i
  BY <1>1, <1>3
<1>7. \A j \in 1..(n - i) : b[j] = s[j + i]
  <2>1. ASSUME NEW j \in 1..(n - i) PROVE b[j] = s[j + i]
    <3>1. j \in 1..(n - (i + 1) + 1) /\ (i + 1) + j - 1 = j + i
      BY <1>1
    <3> QED
      BY <1>3, <3>1
  <2> QED
    BY <2>1
<1>8. /\ DOMAIN (a \o b) = 1..((i - 1) + (n - i))
      /\ \A j \in 1..((i - 1) + (n - i)) :
           (a \o b)[j] = IF j <= i - 1 THEN a[j] ELSE b[j - (i - 1)]
  <2>1. /\ DOMAIN (a \o b) = 1..(Len(a) + Len(b))
        /\ \A j \in 1..(Len(a) + Len(b)) :
             (a \o b)[j] = IF j <= Len(a) THEN a[j] ELSE b[j - Len(a)]
    BY <1>2, <1>3, Joined
  <2> QED
    BY <1>5, <1>6, <2>1, Zenon
<1>9. ASSUME NEW j \in 1..(n - 1)
      PROVE  (a \o b)[j] = IF j < i THEN s[j] ELSE s[j + 1]
  <2>0. (a \o b)[j] = IF j <= i - 1 THEN a[j] ELSE b[j - (i - 1)]
    BY <1>4, <1>8
  <2>1. CASE j < i
    <3>1. j \in 1..(i - 1) /\ j <= i - 1
      BY <1>4, <2>1
    <3> QED
      BY <1>5, <2>0, <2>1, <3>1
  <2>2. CASE ~(j < i)
    <3>1. j - (i - 1) \in 1..(n - i) /\ ~(j <= i - 1)
      BY <1>1, <2>2
    <3>2. b[j - (i - 1)] = s[(j - (i - 1)) + i]
      BY <1>7, <3>1
    <3>3. (j - (i - 1)) + i = j + 1
      BY <1>1
    <3> QED
      BY <2>0, <2>2, <3>1, <3>2, <3>3
  <2> QED
    BY <2>1, <2>2
<1> QED
  BY <1>4, <1>8, <1>9 DEF a, b, n

LEMMA RequestsGivenUp ==
  ASSUME TypeOK, RequestsFit, NEW k \in Tasks, Moves(k), NEW ops,
         Unanswered(k, ops)
  PROVE  RequestsFit'
<1>0. /\ \A i \in DOMAIN requests : requests[i] \in Request
      /\ DOMAIN requests = 1..Len(requests) /\ Len(requests) \in Nat
  BY DEF TypeOK
<1>1. ASSUME NEW i \in Awaited(k),
             requests' = SubSeq(requests, 1, i - 1)
                           \o SubSeq(requests, i + 1, Len(requests))
      PROVE  RequestsFit'
  <2> DEFINE from(j) == IF j < i THEN j ELSE j + 1
  <2>0. i \in DOMAIN requests /\ requests[i].awaited /\ requests[i].by = k
    BY DEF Awaited
  <2>1. /\ DOMAIN requests' = 1..(Len(requests) - 1)
        /\ \A j \in DOMAIN requests' :
             requests'[j] = IF j < i THEN requests[j] ELSE requests[j + 1]
    <3>1. requests \in Seq(Request)
      BY DEF TypeOK
    <3> QED
      BY <1>1, <2>0, <3>1, Taken
  <2>2. \A j \in DOMAIN requests' : from(j) \in DOMAIN requests /\ from(j) # i
    BY <1>0, <2>0, <2>1
  <2>3. \A j, l \in DOMAIN requests' : from(j) = from(l) => j = l
    BY <1>0, <2>0, <2>1
  <2>6. \A j \in DOMAIN requests' : requests'[j] = requests[from(j)]
    BY <2>1
  <2> HIDE DEF from
  <2>4. ASSUME NEW j \in DOMAIN requests' PROVE Fits(requests[j])'
    <3>1. PICK r \in Request : r = requests[from(j)]
      BY <1>0, <2>2
    <3>2. Fits(r) /\ (r.awaited => r.by # k)
      BY <2>0, <2>2, <3>1 DEF RequestsFit
    <3>3. Fits(r)'
      BY <3>2, FitsStays
    <3> QED
      BY <2>6, <3>1, <3>3 DEF Fits
  <2>5. ASSUME NEW j \in DOMAIN requests', NEW l \in DOMAIN requests',
               requests'[j].awaited, requests'[l].awaited,
               requests'[j].by = requests'[l].by
        PROVE  j = l
    BY <2>6, <2>2, <2>3, <2>5 DEF RequestsFit
  <2> QED
    BY <2>4, <2>5 DEF RequestsFit
<1>2. ASSUME NEW i \in Awaited(k),
             requests' = [requests EXCEPT ![i].awaited = FALSE]
      PROVE  RequestsFit'
  <2>0. i \in DOMAIN requests /\ requests[i].awaited /\ requests[i].by = k
    BY DEF Awaited
  <2>1. /\ DOMAIN requests' = DOMAIN requests
        /\ requests'[i] = [requests[i] EXCEPT !.awaited = FALSE]
        /\ \A j \in DOMAIN requests \ {i} : requests'[j] = requests[j]
    BY <1>0, <1>2, <2>0
  <2>2. /\ requests'[i].awaited = FALSE /\ requests'[i].by = k
        /\ requests'[i].op = requests[i].op /\ requests'[i].conv = requests[i].conv
    BY <1>0, <2>0, <2>1 DEF Request
  <2>3. Fits(requests[i])'
    <3>1. Fits(requests[i])
      BY <2>0 DEF RequestsFit
    <3> QED
      BY <2>0, <2>2, <3>1, SendingStays DEF Fits
  <2>4. ASSUME NEW j \in DOMAIN requests \ {i} PROVE Fits(requests[j])'
    <3>1. PICK r \in Request : r = requests[j]
      BY <1>0
    <3>2. Fits(r) /\ (r.awaited => r.by # k)
      BY <2>0, <3>1 DEF RequestsFit
    <3>3. Fits(r)'
      BY <3>2, FitsStays
    <3> QED
      BY <2>1, <3>1, <3>3 DEF Fits
  <2>5. ASSUME NEW j \in DOMAIN requests, NEW l \in DOMAIN requests,
               requests'[j].awaited, requests'[l].awaited,
               requests'[j].by = requests'[l].by
        PROVE  j = l
    <3>1. j # i /\ l # i
      BY <2>2, <2>5
    <3> QED
      BY <2>1, <2>5, <3>1 DEF RequestsFit
  <2> QED
    BY <2>1, <2>3, <2>4, <2>5 DEF RequestsFit
<1>3. ASSUME Awaited(k) = {}, requests' = requests PROVE RequestsFit'
  <2>1. Free(k)
    BY <1>3 DEF Awaited, Free
  <2> QED
    BY <1>3, <2>1, RequestsStay
<1> QED
  BY <1>1, <1>2, <1>3 DEF Unanswered

LEMMA SelectionStays ==
  ASSUME TypeOK, SelectedTogether, ViewGrows,
         \/ sel' = sel
         \/ \E c \in Convs : sel' = At(c) /\ view'[c] # None
         \/ \E p : sel' = Nowhere(p)
  PROVE  SelectedTogether'
<1>1. CASE sel' = sel
  BY <1>1 DEF TypeOK, SelectedTogether, ViewGrows, Selection
<1>2. ASSUME NEW c \in Convs, sel' = At(c), view'[c] # None PROVE SelectedTogether'
  BY <1>2 DEF SelectedTogether, At
<1>3. ASSUME NEW p, sel' = Nowhere(p) PROVE SelectedTogether'
  BY <1>3 DEF SelectedTogether, Nowhere
<1> QED
  BY <1>1, <1>2, <1>3

LEMMA SpinnersStay ==
  ASSUME TypeOK, SpinnersAreTrue, NEW k \in Tasks, Moves(k),
         "lists" \in spin' =>
           \/ task'[k].pc \in {"list", "savefolder"}
           \/ "lists" \in spin /\ task[k].pc \notin {"list", "savefolder"},
         "conversation" \in spin' =>
           \/ task'[k].pc \in {"open", "saveopen"}
           \/ "conversation" \in spin /\ task[k].pc \notin {"open", "saveopen"}
  PROVE  SpinnersAreTrue'
<1>1. ASSUME NEW pcs, NEW j \in Tasks \ {k}, task[j].pc \in pcs,
             "ensure" \notin pcs, "none" \notin pcs
      PROVE  task'[j].pc \in pcs
  BY <1>1 DEF Moves
<1>2. "lists" \in spin' => \E j \in Tasks : task'[j].pc \in {"list", "savefolder"}
  BY <1>1 DEF SpinnersAreTrue
<1>3. "conversation" \in spin' => \E j \in Tasks : task'[j].pc \in {"open", "saveopen"}
  BY <1>1 DEF SpinnersAreTrue
<1> QED
  BY <1>2, <1>3 DEF SpinnersAreTrue

LEMMA MergedGrows ==
  ASSUME TypeOK, NEW records \in Listing, view' = Merged(records)
  PROVE  /\ ViewGrows
         /\ \A c \in Convs : records[c] # None => view'[c] # None
  BY DEF TypeOK, Merged, ViewGrows, Listing

LEMMA GroupIsShown == \A state : GroupOf(state) # None
  BY GroupOfType, StoreAssumption

\* A task is given another state, and its answer perhaps taken.
LEMMA OwnMove ==
  ASSUME TypeOK, NEW k \in Tasks, NEW t, task' = [task EXCEPT ![k] = t],
         answer' = answer \/ answer' = [answer EXCEPT ![k] = None],
         Sending(k) => t.op = "submit" /\ t.conv = task[k].conv
  PROVE  Moves(k) /\ task'[k] = t
<1>1. task'[k] = t /\ \A j \in Tasks \ {k} : task'[j] = task[j] /\ answer'[j] = answer[j]
  BY DEF TypeOK
<1> QED
  BY <1>1 DEF Moves, Sending

LEMMA SettledMove ==
  ASSUME TypeOK, NEW k \in Tasks, NEW t \in Task, task' = Settled(k, t),
         answer' = answer \/ answer' = [answer EXCEPT ![k] = None],
         Sending(k) => t.op = "submit" /\ t.conv = task[k].conv
  PROVE  /\ Moves(k)
         /\ task'[k].pc = "none" /\ task'[k].for.conv = None
         /\ task'[k].op = t.op /\ task'[k].conv = t.conv
         /\ task'[k].typed = t.typed
<1>1. /\ task'[k] = [t EXCEPT !.pc = "none", !.for = Nowhere(None)]
      /\ \A j \in Tasks \ {k} :
           /\ answer'[j] = answer[j]
           /\ \/ task'[j] = task[j]
              \/ task[j].pc = "ensure" /\ task'[j] = [task[j] EXCEPT !.pc = "go"]
  BY DEF TypeOK, Settled
<1>2. /\ task'[k].pc = "none" /\ task'[k].for.conv = None
      /\ task'[k].op = t.op /\ task'[k].conv = t.conv
      /\ task'[k].typed = t.typed
  BY <1>1 DEF Task, Nowhere
<1> QED
  BY <1>1, <1>2 DEF Moves, Sending

\* What is left to show of a step of k.
LEMMA StepFits ==
  ASSUME SInv, NEW k \in Tasks, Moves(k), ViewGrows, TypeOK',
         log' = log, events' = events,
         (Fresh(k) /\ Opening(k) /\ Submitting(k) /\ Answers(k))',
         (RequestsFit /\ ShownFit /\ SelectedTogether /\ SpinnersAreTrue)'
  PROVE  SInv'
  BY OthersFit, LogsStay DEF SInv

\* A task that has settled fits.
LEMMA SettledFits ==
  ASSUME SInv, NEW k \in Tasks, task[k].op # "none",
         task'[k].pc = "none", task'[k].for.conv = None,
         task'[k].op = task[k].op, task'[k].conv = task[k].conv,
         task'[k].typed = task[k].typed, answer'[k] = None
  PROVE  (Fresh(k) /\ Opening(k) /\ Submitting(k) /\ Answers(k))'
<1>1. Fresh(k) /\ Submitting(k)
  BY DEF SInv, TasksFit
<1> QED
  BY <1>1 DEF Fresh, Opening, Submitting, Answers, Sending, Aimed

-----------------------------------------------------------------------------
(* What the user does *)

\* A task nobody has called yet.
LEMMA NotCalled ==
  ASSUME SInv, NEW k \in Tasks, task[k].op = "none"
  PROVE  /\ task[k].pc = "none" /\ ~Sending(k)
         /\ answer[k] = None /\ Free(k)
<1>1. task[k].pc = "none" /\ answer[k] = None
  BY DEF SInv, TasksFit, Fresh, AnswersFit, Answers, Ops
<1> QED
  BY <1>1, FreeToAct DEF Sending, SInv, Ops

LEMMA CalledFits ==
  ASSUME SInv, NEW k \in Calls, task[k].op = "none", answer' = answer,
         task'[k].conv = None, task'[k].op \notin {"none", "boot"},
         task'[k].pc \in {"none", "go", "ensure", "list"},
         task'[k].op = "folder" => task'[k].for.conv = None
  PROVE  (Fresh(k) /\ Opening(k) /\ Submitting(k) /\ Answers(k))'
<1>1. k \in Tasks /\ k # Boot
  BY StoreAssumption DEF Tasks
<1>2. answer[k] = None
  BY <1>1, NotCalled
<1> QED
  BY <1>1, <1>2 DEF Fresh, Opening, Submitting, Answers, Sending

LEMMA RefreshFits ==
  ASSUME SInv, TypeOK', NEW k \in Calls, Refresh(k) PROVE SInv'
<1> DEFINE t == [[Idle EXCEPT !.op = "refresh"] EXCEPT !.pc = "list"]
           r == [by |-> k, op |-> "list", project |-> None, conv |-> None,
                 awaited |-> TRUE]
<1>0. k \in Tasks /\ TypeOK /\ task[k].op = "none"
  BY DEF Tasks, SInv, Refresh
<1>1. /\ task' = [task EXCEPT ![k] = t] /\ requests' = Append(requests, r)
      /\ answer' = answer /\ log' = log /\ events' = events /\ shown' = shown
      /\ view' = view /\ sel' = sel /\ spin' = spin \cup {"lists"}
  BY DEF Refresh, Ask, server
<1>2. /\ t.pc = "list" /\ t.op = "refresh" /\ t.conv = None
  BY DEF Idle
<1>3. r \in Request /\ r.by = k
  BY <1>0 DEF Request, Ops
<1> HIDE DEF t
<1>4. /\ Moves(k) /\ task'[k] = t /\ Free(k) /\ ViewGrows
      /\ answer[k] = None /\ task[k].pc = "none"
  BY <1>0, <1>1, OwnMove, NotCalled DEF ViewGrows
<1>5. (Fresh(k) /\ Opening(k) /\ Submitting(k) /\ Answers(k))'
  BY <1>0, <1>1, <1>2, <1>4, CalledFits
<1>6. Fits(r)'
  BY <1>1, <1>2, <1>4 DEF Fits
<1>7. RequestsFit'
  <2> HIDE DEF r
  <2> QED
    BY <1>0, <1>1, <1>3, <1>4, <1>6, RequestsAsked DEF SInv
<1>8. ShownFit' /\ SelectedTogether'
  BY <1>0, <1>1, <1>2, <1>4, ShownStays, SelectionStays DEF SInv
<1>9. SpinnersAreTrue'
  BY <1>0, <1>1, <1>2, <1>4, SpinnersStay DEF SInv
<1> QED
  BY <1>0, <1>1, <1>4, <1>5, <1>7, <1>8, <1>9, StepFits

LEMMA OpenFolderFits ==
  ASSUME SInv, TypeOK', NEW k \in Calls, NEW p \in Projects, OpenFolder(k, p)
  PROVE  SInv'
<1> DEFINE t == [[Idle EXCEPT !.op = "folder", !.for = Nowhere(p)] EXCEPT !.pc = "list"]
           r == [by |-> k, op |-> "list", project |-> p, conv |-> None,
                 awaited |-> TRUE]
<1>0. k \in Tasks /\ TypeOK /\ task[k].op = "none"
  BY DEF Tasks, SInv, OpenFolder
<1>1. /\ task' = [task EXCEPT ![k] = t] /\ requests' = Append(requests, r)
      /\ answer' = answer /\ log' = log /\ events' = events /\ shown' = shown
      /\ view' = view /\ sel' = sel /\ spin' = spin \cup {"lists"}
  BY DEF OpenFolder, Ask, server
<1>2. /\ t.pc = "list" /\ t.op = "folder" /\ t.conv = None
      /\ t.for.conv = None
  BY DEF Idle, Nowhere
<1>3. r \in Request /\ r.by = k
  BY <1>0 DEF Request, Ops
<1> HIDE DEF t
<1>4. /\ Moves(k) /\ task'[k] = t /\ Free(k) /\ ViewGrows
      /\ answer[k] = None /\ task[k].pc = "none"
  BY <1>0, <1>1, OwnMove, NotCalled DEF ViewGrows
<1>5. (Fresh(k) /\ Opening(k) /\ Submitting(k) /\ Answers(k))'
  BY <1>0, <1>1, <1>2, <1>4, CalledFits
<1>6. Fits(r)'
  BY <1>1, <1>2, <1>4 DEF Fits
<1>7. RequestsFit'
  <2> HIDE DEF r
  <2> QED
    BY <1>0, <1>1, <1>3, <1>4, <1>6, RequestsAsked DEF SInv
<1>8. ShownFit' /\ SelectedTogether'
  BY <1>0, <1>1, <1>2, <1>4, ShownStays, SelectionStays DEF SInv
<1>9. SpinnersAreTrue'
  BY <1>0, <1>1, <1>2, <1>4, SpinnersStay DEF SInv
<1> QED
  BY <1>0, <1>1, <1>4, <1>5, <1>7, <1>8, <1>9, StepFits

LEMMA SelectProjectFits ==
  ASSUME SInv, TypeOK', NEW k \in Calls, NEW p \in Projects, SelectProject(k, p)
  PROVE  SInv'
<1> DEFINE t == [task[k] EXCEPT !.op = "project"]
<1>0. k \in Tasks /\ TypeOK /\ task[k].op = "none" /\ task[k] \in Task
  BY DEF Tasks, SInv, SelectProject, TypeOK
<1>1. /\ task' = [task EXCEPT ![k] = t] /\ requests' = requests
      /\ answer' = answer /\ log' = log /\ events' = events /\ shown' = shown
      /\ view' = view /\ sel' = Nowhere(p) /\ spin' = spin
  BY DEF SelectProject, server
<1>2. task[k].pc = "none" /\ task[k].conv = None
  BY <1>0 DEF SInv, TasksFit, Fresh
<1>3. t.pc = "none" /\ t.op = "project" /\ t.conv = None
  BY <1>0, <1>2 DEF Task
<1> HIDE DEF t
<1>4. Moves(k) /\ task'[k] = t /\ Free(k) /\ ViewGrows
  BY <1>0, <1>1, OwnMove, NotCalled DEF ViewGrows
<1>5. (Fresh(k) /\ Opening(k) /\ Submitting(k) /\ Answers(k))'
  BY <1>0, <1>1, <1>3, <1>4, CalledFits
<1>6. (RequestsFit /\ ShownFit /\ SelectedTogether)'
  BY <1>0, <1>1, <1>3, <1>4, RequestsStay, ShownStays, SelectionStays DEF SInv
<1>7. SpinnersAreTrue'
  BY <1>0, <1>1, <1>2, <1>4, SpinnersStay DEF SInv
<1> QED
  BY <1>0, <1>1, <1>4, <1>5, <1>6, <1>7, StepFits

LEMMA BootsFits ==
  ASSUME SInv, TypeOK', NEW t \in [Tasks -> Task], Boots(t),
         \A j \in Calls :
           t[j] = task[j] \/ (task[j].op = "none" /\ t[j] \in Waiting)
  PROVE  SInv'
<1> DEFINE b == [Idle EXCEPT !.op = "boot", !.pc = "list"]
           r == [by |-> Boot, op |-> "list", project |-> None, conv |-> None,
                 awaited |-> TRUE]
<1>0. Boot \in Tasks /\ TypeOK /\ \A j \in Tasks \ {Boot} : j \in Calls
  BY DEF Tasks, SInv
<1>1. /\ task' = [t EXCEPT ![Boot] = b] /\ requests' = Append(requests, r)
      /\ answer' = answer /\ log' = log /\ events' = events /\ shown' = shown
      /\ view' = view /\ sel' = sel /\ spin' = spin \cup {"lists"}
      /\ task[Boot].pc = "none"
  BY DEF Boots, server
<1>2. /\ b.pc = "list" /\ b.op = "boot" /\ b.conv = None
      /\ b.for.conv = None
  BY DEF Idle, Nowhere
<1>3. r \in Request /\ r.by = Boot
  BY <1>0 DEF Request, Ops
<1> HIDE DEF b
<1>4. /\ ~Sending(Boot) /\ answer[Boot] = None /\ Free(Boot) /\ ViewGrows
  <2>1. Fresh(Boot) /\ Answers(Boot)
    BY <1>0 DEF SInv, TasksFit, AnswersFit
  <2> QED
    BY <1>0, <1>1, <2>1, FreeToAct
    DEF Fresh, Answers, Sending, SInv, Ops, ViewGrows
<1>5. Moves(Boot) /\ task'[Boot] = b
  <2>1. task'[Boot] = b /\ \A j \in Tasks \ {Boot} : task'[j] = t[j]
    BY <1>0, <1>1
  <2>2. ASSUME NEW j \in Tasks \ {Boot}
        PROVE  \/ task'[j] = task[j]
               \/ /\ j \in Calls /\ task[j].op = "none" /\ task[j].pc = "none"
                  /\ task'[j] \in Waiting
    BY <1>0, <2>1, NotCalled
  <2> QED
    BY <1>1, <1>4, <2>1, <2>2 DEF Moves
<1>6. (Fresh(Boot) /\ Opening(Boot) /\ Submitting(Boot) /\ Answers(Boot))'
  BY <1>1, <1>2, <1>4, <1>5 DEF Fresh, Opening, Submitting, Answers, Sending
<1>7. RequestsFit'
  <2>1. Fits(r)'
    BY <1>1, <1>2, <1>4, <1>5 DEF Fits
  <2> HIDE DEF r
  <2> QED
    BY <1>0, <1>1, <1>3, <1>4, <1>5, <2>1, RequestsAsked DEF SInv
<1>8. ShownFit' /\ SelectedTogether'
  BY <1>0, <1>1, <1>2, <1>4, <1>5, ShownStays, SelectionStays DEF SInv
<1>9. SpinnersAreTrue'
  BY <1>0, <1>1, <1>2, <1>5, SpinnersStay DEF SInv
<1> QED
  BY <1>0, <1>1, <1>4, <1>5, <1>6, <1>7, <1>8, <1>9, StepFits

LEMMA CallFits ==
  ASSUME SInv, TypeOK', NEW k \in Calls, NEW op \in {"select", "submit", "abort"},
         NEW c \in Convs \cup {None}, Call(k, op, c)
  PROVE  SInv'
<1> DEFINE t(pc) == [[Idle EXCEPT !.op = op, !.for = [Nowhere(None) EXCEPT !.conv = c]]
                       EXCEPT !.pc = pc]
<1>0. k \in Tasks /\ TypeOK /\ task[k].op = "none" /\ k # Boot
  BY StoreAssumption DEF Tasks, SInv, Call
<1>1. ASSUME NEW pc \in {"go", "ensure"}
      PROVE  /\ t(pc) \in Task /\ t(pc).pc = pc /\ t(pc).op = op /\ t(pc).conv = None
  <2>1. t(pc) \in Task
    BY CallTask DEF PCs
  <2> QED
    BY <2>1 DEF Idle
<1>2. \/ /\ \E pc \in {"go", "ensure"} : task' = [task EXCEPT ![k] = t(pc)]
         /\ UNCHANGED <<ready, view, shown, sel, spin, answer, requests, server>>
      \/ Boots([task EXCEPT ![k] = t("ensure")])
  BY DEF Call
<1> HIDE DEF t
<1>3. ASSUME NEW pc \in {"go", "ensure"}, task' = [task EXCEPT ![k] = t(pc)],
             UNCHANGED <<ready, view, shown, sel, spin, answer, requests, server>>
      PROVE  SInv'
  <2>1. /\ requests' = requests /\ answer' = answer /\ log' = log
        /\ events' = events /\ shown' = shown /\ view' = view /\ sel' = sel
        /\ spin' = spin
    BY <1>3 DEF server
  <2>2. /\ Moves(k) /\ task'[k] = t(pc) /\ Free(k) /\ ViewGrows
        /\ task[k].pc = "none"
    BY <1>0, <1>3, <2>1, OwnMove, NotCalled DEF ViewGrows
  <2>3. (Fresh(k) /\ Opening(k) /\ Submitting(k) /\ Answers(k))'
    BY <1>0, <1>1, <2>1, <2>2, CalledFits
  <2>4. (RequestsFit /\ ShownFit /\ SelectedTogether)'
    BY <1>0, <1>1, <2>1, <2>2, RequestsStay, ShownStays, SelectionStays DEF SInv
  <2>5. SpinnersAreTrue'
    BY <1>0, <2>1, <2>2, SpinnersStay DEF SInv
  <2> QED
    BY <1>0, <2>1, <2>2, <2>3, <2>4, <2>5, StepFits
<1>4. CASE Boots([task EXCEPT ![k] = t("ensure")])
  <2> DEFINE u == [task EXCEPT ![k] = t("ensure")]
  <2>1. t("ensure") \in Waiting
    BY <1>1 DEF Waiting
  <2>2. u \in [Tasks -> Task]
    BY <1>1 DEF SInv, TypeOK
  <2>3. \A j \in Calls : u[j] = task[j] \/ (task[j].op = "none" /\ u[j] \in Waiting)
    BY <1>0, <2>1 DEF TypeOK, Tasks
  <2> HIDE DEF u
  <2> QED
    BY <1>4, <2>2, <2>3, BootsFits DEF u
<1> QED
  BY <1>2, <1>3, <1>4

LEMMA UserFits == SInv /\ TypeOK' /\ User => SInv'
<1> SUFFICES ASSUME SInv, TypeOK', User PROVE SInv'
  OBVIOUS
<1>1. CASE Mount
  <2>1. task \in [Tasks -> Task]
    BY DEF SInv, TypeOK
  <2> QED
    BY <1>1, <2>1, BootsFits DEF Mount
<1> QED
  BY <1>1, RefreshFits, SelectProjectFits, OpenFolderFits, CallFits DEF User

-----------------------------------------------------------------------------
(* What a call does when it goes on *)

\* The requests are what they were, and k waits for none; or it gave one up.
Released(k) ==
  \/ Free(k) /\ requests' = requests
  \/ \E ops : Unanswered(k, ops)

SelectionMoves ==
  \/ sel' = sel
  \/ \E c \in Convs : sel' = At(c) /\ view'[c] # None
  \/ \E p : sel' = Nowhere(p)

\* What is set is reset by the one it was set for, at the latest.
Resets(k) ==
  /\ "lists" \in spin' => "lists" \in spin /\ task[k].pc \notin {"list", "savefolder"}
  /\ "conversation" \in spin' =>
       "conversation" \in spin /\ task[k].pc \notin {"open", "saveopen"}

LEMMA ReleasedFit ==
  ASSUME SInv, NEW k \in Tasks, Moves(k), Released(k) PROVE RequestsFit'
  BY RequestsStay, RequestsGivenUp DEF Released, SInv

\* The call is over.
LEMMA SettledStep ==
  ASSUME SInv, TypeOK', NEW k \in Tasks, task[k].pc # "none",
         task' = Settled(k, task[k]), answer' = [answer EXCEPT ![k] = None],
         log' = log, events' = events, shown' = shown,
         Released(k), ViewGrows, SelectionMoves, Resets(k)
  PROVE  SInv'
<1>0. TypeOK /\ task[k] \in Task /\ task[k].op # "none" /\ answer'[k] = None
  BY DEF SInv, TasksFit, Fresh, TypeOK
<1>1. /\ Moves(k)
      /\ task'[k].pc = "none" /\ task'[k].for.conv = None
      /\ task'[k].op = task[k].op /\ task'[k].conv = task[k].conv
      /\ task'[k].typed = task[k].typed
  BY <1>0, SettledMove DEF Sending
<1>2. (Fresh(k) /\ Opening(k) /\ Submitting(k) /\ Answers(k))'
  BY <1>0, <1>1, SettledFits
<1>3. RequestsFit'
  BY <1>1, ReleasedFit
<1>4. ShownFit' /\ SelectedTogether'
  BY <1>0, <1>1, ShownStays, SelectionStays DEF SInv, SelectionMoves
<1>5. SpinnersAreTrue'
  BY <1>0, <1>1, SpinnersStay DEF SInv, Resets
<1> QED
  BY <1>1, <1>2, <1>3, <1>4, <1>5, StepFits

\* The call goes on without asking anything.
LEMMA GoesOn ==
  ASSUME SInv, TypeOK', NEW k \in Tasks, NEW t \in Task, task[k].pc # "none",
         task' = [task EXCEPT ![k] = t],
         t.op = task[k].op, t.for = task[k].for, t.typed = task[k].typed,
         t.conv = task[k].conv,
         t.pc \in {"act", "review"} \/ (t.pc = "savefolder" /\ t.op = "folder"),
         ~Sending(k),
         \/ answer' = [answer EXCEPT ![k] = None]
         \/ answer' = answer /\ t.pc = "savefolder",
         log' = log, events' = events,
         Released(k), ViewGrows, SelectionMoves,
         "lists" \in spin' => "lists" \in spin,
         "lists" \in spin' /\ task[k].pc \in {"list", "savefolder"} => t.pc = "savefolder",
         "conversation" \in spin' =>
           "conversation" \in spin /\ task[k].pc \notin {"open", "saveopen"},
         ShownFit'
  PROVE  SInv'
<1>0. TypeOK /\ Fresh(k) /\ Opening(k) /\ Submitting(k) /\ Answers(k)
  BY DEF SInv, TasksFit, AnswersFit
<1>1. Moves(k) /\ task'[k] = t
  BY <1>0, OwnMove
<1>2. Fresh(k)' /\ Opening(k)' /\ Submitting(k)'
  BY <1>0, <1>1 DEF Fresh, Opening, Submitting, Sending
<1>3. Answers(k)'
  BY <1>0, <1>1 DEF Answers, TypeOK, Ops
<1>4. RequestsFit' /\ SelectedTogether'
  BY <1>0, <1>1, ReleasedFit, SelectionStays DEF SInv, SelectionMoves
<1>5. SpinnersAreTrue'
  BY <1>0, <1>1, SpinnersStay DEF SInv
<1> QED
  BY <1>1, <1>2, <1>3, <1>4, <1>5, StepFits

LEMMA AnsweredFits ==
  ASSUME SInv, NEW k \in Tasks, NEW op, Answered(k, op)
  PROVE  /\ TypeOK /\ task[k] \in Task /\ task[k].pc = op
         /\ answer' = [answer EXCEPT ![k] = None]
         /\ Free(k) /\ answer[k].records \in Listing
         /\ answer[k].said \in SUBSET Message
         /\ Fresh(k) /\ Opening(k) /\ Submitting(k) /\ Answers(k)
<1>1. TypeOK /\ RequestsFit /\ TasksFit /\ AnswersFit
  BY DEF SInv
<1>2. answer[k] # None /\ task[k].pc = op /\ answer' = [answer EXCEPT ![k] = None]
  BY DEF Answered
<1> QED
  BY <1>1, <1>2, FreeToAct, AnsweredType DEF TypeOK, TasksFit, AnswersFit

LEMMA ListedFits ==
  ASSUME SInv, TypeOK', NEW k \in Tasks, Refreshed(k) \/ FolderOpened(k)
  PROVE  SInv'
<1>1. PICK op \in {"list", "savefolder"} : Answered(k, op)
  BY DEF Refreshed, FolderOpened
<1>2. /\ task[k].pc # "none" /\ task' = Settled(k, task[k])
      /\ log' = log /\ events' = events /\ shown' = shown /\ requests' = requests
      /\ view' = Merged(answer[k].records) /\ spin' = spin \ {"lists"}
      /\ sel' = sel \/ (op = "savefolder" /\ sel' = task[k].for)
      /\ task[k].pc = op
  BY <1>1 DEF Refreshed, FolderOpened, Answered, server
<1>3. Released(k) /\ ViewGrows
  BY <1>1, <1>2, AnsweredFits, MergedGrows DEF Released
<1>4. SelectionMoves
  <2>1. CASE sel' = sel
    BY <2>1 DEF SelectionMoves
  <2>2. CASE op = "savefolder" /\ sel' = task[k].for
    <3>1. task[k].for \in Selection /\ task[k].for.conv = None
      BY <1>1, <1>2, <2>2, AnsweredFits DEF Task, Opening
    <3>2. task[k].for = Nowhere(task[k].for.project)
      BY <3>1 DEF Selection, Nowhere
    <3> QED
      BY <2>2, <3>2 DEF SelectionMoves
  <2> QED
    BY <1>2, <2>1, <2>2
<1>5. Resets(k)
  BY <1>2 DEF Resets
<1> QED
  BY <1>1, <1>2, <1>3, <1>4, <1>5, AnsweredFits, SettledStep

LEMMA UnansweredFits ==
  ASSUME SInv, NEW k \in Tasks, NEW ops, Unanswered(k, ops)
  PROVE  /\ TypeOK /\ task[k] \in Task /\ task[k].pc \in ops
         /\ answer' = [answer EXCEPT ![k] = None] /\ Released(k)
         /\ Fresh(k) /\ Opening(k) /\ Submitting(k)
<1>1. task[k].pc \in ops /\ answer' = [answer EXCEPT ![k] = None]
  BY DEF Unanswered
<1>2. Released(k)
  BY DEF Released
<1> QED
  BY <1>1, <1>2 DEF SInv, TypeOK, TasksFit

LEMMA FailsFit ==
  ASSUME SInv, TypeOK', NEW k \in Tasks,
         ListFails(k) \/ SendFails(k) \/ CancelFails(k)
  PROVE  SInv'
<1>1. PICK ops \in {{"list", "savefolder"}, {"create", "send", "reopen"}, {"cancel"}} :
        /\ Unanswered(k, ops)
        /\ spin' = spin \ {"lists"} \/ (spin' = spin /\ ops # {"list", "savefolder"})
  BY Zenon DEF ListFails, SendFails, CancelFails
<1>2. /\ task' = Settled(k, task[k]) /\ log' = log /\ events' = events
      /\ shown' = shown /\ view' = view /\ sel' = sel
  BY DEF ListFails, SendFails, CancelFails, server
<1>3. /\ Released(k) /\ answer' = [answer EXCEPT ![k] = None] /\ task[k].pc \in ops
  BY <1>1, UnansweredFits
<1>4. ViewGrows /\ SelectionMoves
  BY <1>2 DEF ViewGrows, SelectionMoves
<1>5. Resets(k) /\ task[k].pc # "none"
  BY <1>1, <1>3 DEF Resets
<1> QED
  BY <1>2, <1>3, <1>4, <1>5, SettledStep

LEMMA CancelledFits ==
  ASSUME SInv, TypeOK', NEW k \in Tasks, Cancelled(k) PROVE SInv'
<1>1. Answered(k, "cancel")
  BY DEF Cancelled
<1>2. /\ task' = Settled(k, task[k]) /\ log' = log /\ events' = events
      /\ shown' = shown /\ view' = Merged(answer[k].records) /\ sel' = sel
      /\ requests' = requests /\ spin' = spin
  BY DEF Cancelled, server
<1>3. Released(k) /\ ViewGrows /\ SelectionMoves
  BY <1>1, <1>2, AnsweredFits, MergedGrows DEF Released, SelectionMoves
<1>4. Resets(k) /\ task[k].pc # "none"
  BY <1>1, <1>2, AnsweredFits DEF Resets
<1> QED
  BY <1>1, <1>2, <1>3, <1>4, AnsweredFits, SettledStep

LEMMA FolderListedFits ==
  ASSUME SInv, TypeOK', NEW k \in Tasks, FolderListed(k) PROVE SInv'
<1> DEFINE t == [task[k] EXCEPT !.pc = "savefolder"]
<1>1. /\ task[k].pc = "list" /\ task[k].op = "folder" /\ answer[k] # None
      /\ task' = [task EXCEPT ![k] = t] /\ answer' = answer
      /\ log' = log /\ events' = events /\ shown' = shown /\ view' = view
      /\ sel' = sel /\ requests' = requests /\ spin' = spin
  BY DEF FolderListed, server
<1>2. TypeOK /\ task[k] \in Task /\ Submitting(k) /\ RequestsFit
  BY DEF SInv, TypeOK, TasksFit
<1>3. /\ t \in Task /\ t.pc = "savefolder" /\ t.op = "folder"
      /\ t.op = task[k].op /\ t.for = task[k].for /\ t.typed = task[k].typed
      /\ t.conv = task[k].conv
  BY <1>1, <1>2, PcType DEF Task, PCs
<1> HIDE DEF t
<1>4. Released(k) /\ ViewGrows /\ SelectionMoves /\ ~Sending(k)
  BY <1>1, <1>2, FreeToAct DEF Released, ViewGrows, SelectionMoves, Sending
<1>5. ShownFit'
  <2>1. Moves(k) /\ task'[k] = t
    BY <1>1, <1>2, <1>4, OwnMove
  <2> QED
    BY <1>1, <1>2, <1>3, <2>1, ShownStays DEF SInv
<1> QED
  BY <1>1, <1>3, <1>4, <1>5, GoesOn

\* What is asked is about what k is about.
LEMMA AskedMoves ==
  ASSUME SInv, NEW k \in Tasks, NEW op \in Ops, NEW p \in Projects \cup {None},
         NEW c \in Convs \cup {None}, NEW t \in Task, Ask(k, op, p, c, t), Free(k),
         answer' = answer \/ answer' = [answer EXCEPT ![k] = None], answer'[k] = None,
         Sending(k) => t.op = "submit" /\ t.conv = task[k].conv,
         op = "open" => c = t.for.conv,
         op = "reopen" => c = t.conv,
         op = "create" => p = t.typed.project,
         op = "send" => c = t.conv /\ t.op = "submit",
         op \in {"open", "send", "reopen", "cancel"} => c # None
  PROVE  /\ Moves(k) /\ RequestsFit'
         /\ task'[k].pc = op /\ task'[k].op = t.op /\ task'[k].for = t.for
         /\ task'[k].typed = t.typed /\ task'[k].conv = t.conv
<1> DEFINE u == [t EXCEPT !.pc = op]
           r == [by |-> k, op |-> op, project |-> p, conv |-> c, awaited |-> TRUE]
<1>0. TypeOK /\ RequestsFit
  BY DEF SInv
<1>1. task' = [task EXCEPT ![k] = u] /\ requests' = Append(requests, r)
  BY DEF Ask
<1>2. /\ u.pc = op /\ u.op = t.op /\ u.for = t.for /\ u.typed = t.typed
      /\ u.conv = t.conv
  BY DEF Task
<1>3. r \in Request /\ r.by = k
  BY DEF Request
<1> HIDE DEF u
<1> HIDE DEF r
<1>4. Moves(k) /\ task'[k] = u
  <2>1. Sending(k) => u.op = "submit" /\ u.conv = task[k].conv
    BY <1>2
  <2>2. task' = [task EXCEPT ![k] = u]
    BY <1>1
  <2> QED
    BY <1>0, <2>1, <2>2, OwnMove
<1>5. Fits(r)'
  BY <1>2, <1>4 DEF Fits, Sending, r
<1>6. RequestsFit'
  BY <1>0, <1>1, <1>3, <1>4, <1>5, RequestsAsked
<1> QED
  BY <1>2, <1>4, <1>6

\* An act that is about to follow.
LEMMA GoesToAct ==
  ASSUME SInv, TypeOK', NEW k \in Tasks, task[k].pc # "none", ~Sending(k),
         task' = [task EXCEPT ![k].pc = "act"],
         answer' = [answer EXCEPT ![k] = None], log' = log, events' = events,
         shown' = shown, Released(k), ViewGrows, SelectionMoves, Resets(k)
  PROVE  SInv'
<1> DEFINE t == [task[k] EXCEPT !.pc = "act"]
<1>1. TypeOK /\ task[k] \in Task /\ Fresh(k)
  BY DEF SInv, TypeOK, TasksFit
<1>2. /\ t \in Task /\ t.pc = "act"
      /\ t.op = task[k].op /\ t.for = task[k].for /\ t.typed = task[k].typed
      /\ t.conv = task[k].conv
  BY <1>1, PcType DEF Task, PCs
<1>3. task' = [task EXCEPT ![k] = t]
  OBVIOUS
<1> HIDE DEF t
<1>4. ShownFit'
  <2>1. Moves(k) /\ task'[k] = t
    BY <1>1, <1>3, OwnMove
  <2> QED
    BY <1>1, <1>2, <2>1, ShownStays DEF SInv
<1>5. /\ "lists" \in spin' => "lists" \in spin
      /\ "lists" \in spin' /\ task[k].pc \in {"list", "savefolder"} => t.pc = "savefolder"
      /\ "conversation" \in spin' =>
           "conversation" \in spin /\ task[k].pc \notin {"open", "saveopen"}
  BY DEF Resets
<1> QED
  BY <1>2, <1>3, <1>4, <1>5, GoesOn

LEMMA AfterSelectFits ==
  ASSUME SInv, TypeOK', NEW k \in Tasks, task[k].pc # "none", ~Sending(k),
         task' = AfterSelect(k), answer' = [answer EXCEPT ![k] = None],
         log' = log, events' = events, shown' = shown,
         Released(k), ViewGrows, SelectionMoves, Resets(k)
  PROVE  SInv'
<1>1. CASE task' = [task EXCEPT ![k].pc = "act"]
  BY <1>1, GoesToAct
<1>2. CASE task' = Settled(k, task[k])
  BY <1>2, SettledStep
<1> QED
  BY <1>1, <1>2 DEF AfterSelect

LEMMA SelectedFits ==
  ASSUME SInv, TypeOK', NEW k \in Tasks, OpenFails(k) \/ Reviewed(k)
  PROVE  SInv'
<1>1. /\ task' = AfterSelect(k) /\ log' = log /\ events' = events
      /\ shown' = shown /\ view' = view /\ sel' = sel
  BY DEF OpenFails, Reviewed, server
<1>2. ViewGrows /\ SelectionMoves
  BY <1>1 DEF ViewGrows, SelectionMoves
<1>3. CASE OpenFails(k)
  <2>1. /\ task[k].pc \in {"open", "saveopen"} /\ spin' = spin \ {"conversation"}
        /\ answer' = [answer EXCEPT ![k] = None] /\ Released(k) /\ Submitting(k)
    BY <1>3, UnansweredFits DEF OpenFails
  <2>2. task[k].pc # "none" /\ ~Sending(k) /\ Resets(k)
    BY <2>1 DEF Submitting, Resets
  <2> QED
    BY <1>1, <1>2, <2>1, <2>2, AfterSelectFits
<1>4. CASE Reviewed(k)
  <2>1. /\ task[k].pc = "review" /\ spin' = spin /\ answer' = answer
        /\ requests' = requests
    BY <1>4 DEF Reviewed
  <2>2. TypeOK /\ RequestsFit /\ Submitting(k) /\ Answers(k)
    BY DEF SInv, TasksFit, AnswersFit
  <2>3. answer[k] = None /\ ~Sending(k) /\ Resets(k)
    BY <2>1, <2>2 DEF Answers, Submitting, Resets, Ops
  <2>4. Released(k)
    BY <2>1, <2>2, FreeToAct DEF Released, Ops
  <2>5. answer' = [answer EXCEPT ![k] = None]
    BY <2>1, <2>2, <2>3 DEF TypeOK
  <2> QED
    BY <1>1, <1>2, <2>1, <2>3, <2>4, <2>5, AfterSelectFits
<1> QED
  BY <1>3, <1>4

LEMMA GoFits == ASSUME SInv, TypeOK', NEW k \in Tasks, Go(k) PROVE SInv'
<1> DEFINE c == task[k].for.conv
<1>1. /\ task[k].pc = "go" /\ answer' = answer /\ log' = log /\ events' = events
      /\ shown' = shown /\ view' = view
  BY DEF Go, server
<1>2. /\ TypeOK /\ RequestsFit /\ task[k] \in Task
      /\ Fresh(k) /\ Opening(k) /\ Submitting(k) /\ Answers(k)
  BY DEF SInv, TypeOK, TasksFit, AnswersFit
<1>3. /\ answer[k] = None /\ ~Sending(k) /\ Free(k) /\ ViewGrows
      /\ answer' = [answer EXCEPT ![k] = None] /\ task[k].op # "none"
  <2>1. answer[k] = None /\ ~Sending(k) /\ ViewGrows /\ task[k].op # "none"
    BY <1>1, <1>2 DEF Answers, Submitting, ViewGrows, Fresh, Ops
  <2>2. Free(k)
    BY <1>1, <1>2, FreeToAct DEF Ops
  <2> QED
    BY <1>1, <1>2, <2>1, <2>2 DEF TypeOK
<1>4. CASE c # None /\ view[c] # None /\ Selects(k, c)
  <2>1. c \in Convs /\ ProjectOf[c] \in Projects
    BY <1>2, <1>4, StoreAssumption DEF Task, Selection
  <2>2. sel' = At(c) /\ Ask(k, "open", ProjectOf[c], c, task[k])
    BY <1>4 DEF Selects
  <2>3. /\ Moves(k) /\ RequestsFit'
        /\ task'[k].pc = "open" /\ task'[k].op = task[k].op
        /\ task'[k].for = task[k].for /\ task'[k].typed = task[k].typed
        /\ task'[k].conv = task[k].conv
    <3>1. "open" \in Ops /\ answer'[k] = None /\ c # None
      BY <1>1, <1>3, <1>4 DEF Ops
    <3> HIDE DEF c
    <3>2. c = task[k].for.conv
      BY DEF c
    <3> QED
      BY <1>1, <1>2, <1>3, <2>1, <2>2, <3>1, <3>2, AskedMoves
  <2>4. (Fresh(k) /\ Opening(k) /\ Submitting(k) /\ Answers(k))'
    BY <1>1, <1>2, <1>3, <1>4, <2>3
    DEF Fresh, Opening, Submitting, Answers, Sending
  <2>5. ShownFit' /\ SelectedTogether'
    BY <1>1, <1>2, <1>4, <2>1, <2>2, <2>3, <1>3, ShownStays, SelectionStays DEF SInv
  <2>6. SpinnersAreTrue'
    BY <1>1, <1>2, <1>4, <2>3, SpinnersStay DEF SInv, Selects
  <2> QED
    BY <1>1, <1>3, <2>3, <2>4, <2>5, <2>6, StepFits
<1>5. CASE /\ task' = Settled(k, task[k]) \/ task' = [task EXCEPT ![k].pc = "act"]
           /\ UNCHANGED <<sel, spin, requests>>
  <2>1. Released(k) /\ SelectionMoves /\ Resets(k) /\ task[k].pc # "none"
    BY <1>1, <1>3, <1>5 DEF Released, SelectionMoves, Resets
  <2> QED
    BY <1>1, <1>3, <1>5, <2>1, SettledStep, GoesToAct
<1> QED
  BY <1>4, <1>5 DEF Go

\* An answer replaces what is shown of one conversation.
LEMMA ShownReplaced ==
  ASSUME SInv, NEW k \in Tasks, Moves(k), log' = log, NEW c \in Convs,
         NEW said, said \subseteq log[c], shown' = WithMessages(c, said)
  PROVE  ShownFit'
<1>0. TypeOK /\ LogsFit /\ ShownFit
  BY DEF SInv
<1>1. /\ shown'[c] = said
      /\ \A d \in Convs \ {c} : shown'[d] = shown[d]
  BY <1>0 DEF WithMessages, TypeOK
<1>2. ASSUME NEW m \in shown'[c] PROVE m.by # "pending" /\ m \in log[c]
  BY <1>0, <1>1 DEF LogsFit
<1>3. ASSUME NEW d \in Convs \ {c}, NEW m \in shown'[d], m.by = "pending"
      PROVE  Sending(m.of)' /\ task'[m.of].conv = d
  <2>1. m.of \in Tasks /\ task[m.of] \in Task /\ m \in shown[d]
    BY <1>0, <1>1 DEF TypeOK, Message
  <2>2. Sending(m.of) /\ task[m.of].conv = d
    BY <1>0, <1>3, <2>1 DEF ShownFit
  <2>3. CASE m.of # k
    BY <1>0, <2>1, <2>2, <2>3, SendingStays DEF Moves, Sending, Task
  <2>4. CASE m.of = k
    BY <1>0, <2>1, <2>2, <2>4, SendingStays
  <2> QED
    BY <2>3, <2>4
<1>4. ASSUME NEW d \in Convs \ {c}, NEW m \in shown'[d], m.by # "pending"
      PROVE  m \in log[d]
  BY <1>0, <1>1, <1>4 DEF ShownFit
<1> QED
  BY <1>2, <1>3, <1>4 DEF ShownFit

LEMMA OpenedFits == ASSUME SInv, TypeOK', NEW k \in Tasks, Opened(k) PROVE SInv'
<1> DEFINE t == [task[k] EXCEPT !.pc = "saveopen"]
<1>1. /\ task[k].pc = "open" /\ answer[k] # None
      /\ task' = [task EXCEPT ![k] = t] /\ answer' = answer
      /\ log' = log /\ events' = events /\ shown' = shown /\ view' = view
      /\ sel' = sel /\ requests' = requests /\ spin' = spin
  BY DEF Opened, server
<1>2. /\ TypeOK /\ task[k] \in Task /\ RequestsFit
      /\ Fresh(k) /\ Opening(k) /\ Submitting(k) /\ Answers(k)
  BY DEF SInv, TypeOK, TasksFit, AnswersFit
<1>3. /\ t.pc = "saveopen" /\ t.op = task[k].op /\ t.for = task[k].for
      /\ t.typed = task[k].typed /\ t.conv = task[k].conv
  BY <1>2 DEF Task
<1> HIDE DEF t
<1>4. ~Sending(k) /\ ViewGrows /\ Free(k)
  BY <1>1, <1>2, FreeToAct DEF Submitting, ViewGrows, Fresh
<1>5. Moves(k) /\ task'[k] = t
  BY <1>1, <1>2, <1>4, OwnMove
<1>6. (Fresh(k) /\ Opening(k) /\ Submitting(k))'
  BY <1>1, <1>2, <1>3, <1>4, <1>5 DEF Fresh, Opening, Submitting, Sending
<1>7. Answers(k)'
  BY <1>1, <1>2, <1>3, <1>5 DEF Answers
<1>8. (RequestsFit /\ ShownFit /\ SelectedTogether)'
  BY <1>1, <1>2, <1>3, <1>4, <1>5, RequestsStay, ShownStays, SelectionStays DEF SInv
<1>9. SpinnersAreTrue'
  BY <1>1, <1>2, <1>3, <1>5, SpinnersStay DEF SInv
<1> QED
  BY <1>1, <1>4, <1>5, <1>6, <1>7, <1>8, <1>9, StepFits

LEMMA ShownFits == ASSUME SInv, TypeOK', NEW k \in Tasks, Shown(k) PROVE SInv'
<1> DEFINE c == task[k].for.conv
           t == [task[k] EXCEPT !.pc = "review"]
<1>0. Answered(k, "saveopen")
  BY DEF Shown
<1>1. /\ task' = [task EXCEPT ![k] = t] /\ log' = log /\ events' = events
      /\ shown' = WithMessages(c, answer[k].said)
      /\ view' = Merged(answer[k].records)
      /\ sel' = At(c) /\ requests' = requests /\ spin' = spin \ {"conversation"}
  BY DEF Shown, server
<1>2. /\ TypeOK /\ task[k] \in Task /\ task[k].pc = "saveopen" /\ answer[k] # None
      /\ answer' = [answer EXCEPT ![k] = None] /\ Free(k)
      /\ answer[k].records \in Listing
      /\ Fresh(k) /\ Opening(k) /\ Submitting(k) /\ Answers(k)
  BY <1>0, AnsweredFits DEF Answered
<1>3. /\ t \in Task /\ t.pc = "review" /\ t.op = task[k].op /\ t.for = task[k].for
      /\ t.typed = task[k].typed /\ t.conv = task[k].conv
  BY <1>2, PcType DEF Task, PCs
<1>4. c \in Convs /\ view[c] # None /\ answer[k].said \subseteq log[c]
  BY <1>2 DEF Opening, Answers, Task, Selection
<1> HIDE DEF t, c
<1>5. ~Sending(k) /\ ViewGrows /\ Released(k) /\ SelectionMoves
  <2>1. ViewGrows
    BY <1>1, <1>2, MergedGrows
  <2> QED
    BY <1>1, <1>2, <1>4, <2>1
    DEF Submitting, ViewGrows, Released, SelectionMoves
<1>6. Moves(k) /\ task'[k] = t
  BY <1>1, <1>2, <1>5, OwnMove
<1>7. ShownFit'
  BY <1>1, <1>3, <1>4, <1>6, ShownReplaced
<1>8. /\ "lists" \in spin' => "lists" \in spin
      /\ "conversation" \notin spin'
  BY <1>1
<1> QED
  BY <1>1, <1>2, <1>3, <1>5, <1>7, <1>8, GoesOn

LEMMA BootedFits == SInv /\ TypeOK' /\ Booted => SInv'
<1> SUFFICES ASSUME SInv, TypeOK', Booted PROVE SInv'
  OBVIOUS
<1>0. Answered(Boot, "list") /\ task[Boot].op = "boot" /\ Boot \in Tasks
  BY DEF Booted, Tasks
<1>1. /\ log' = log /\ events' = events /\ shown' = shown
      /\ view' = Merged(answer[Boot].records)
  BY DEF Booted, server
<1>2. /\ TypeOK /\ task[Boot] \in Task /\ task[Boot].pc = "list"
      /\ answer' = [answer EXCEPT ![Boot] = None] /\ Free(Boot)
      /\ answer[Boot].records \in Listing
      /\ Fresh(Boot) /\ Opening(Boot) /\ Submitting(Boot) /\ Answers(Boot)
  BY <1>0, AnsweredFits DEF Answered
<1>3. /\ ViewGrows
      /\ \A c \in Convs : answer[Boot].records[c] # None => view'[c] # None
      /\ ~Sending(Boot) /\ answer'[Boot] = None
  <2>1. ~Sending(Boot) /\ answer'[Boot] = None
    BY <1>0, <1>2 DEF Sending, Fresh, TypeOK
  <2> QED
    BY <1>1, <1>2, <2>1, MergedGrows
<1>4. PICK s \in InitialSelections(answer[Boot].records) :
        \/ /\ s.conv # None
           /\ sel' = s
           /\ spin' = (spin \ {"lists"}) \cup {"conversation"}
           /\ Ask(Boot, "open", s.project, s.conv, [task[Boot] EXCEPT !.for = s])
        \/ /\ sel' = s
           /\ spin' = spin \ {"lists"}
           /\ task' = Settled(Boot, task[Boot])
           /\ UNCHANGED requests
  BY DEF Booted
<1>5. s \in Selection /\ SelectionMoves
  BY <1>3, <1>4, AtType, NowhereType DEF InitialSelections, SelectionMoves
<1>6. s.conv # None => s.conv \in Convs /\ view'[s.conv] # None
  BY <1>3, <1>5 DEF InitialSelections, At, Nowhere, Selection
<1>7. CASE /\ s.conv # None
           /\ spin' = (spin \ {"lists"}) \cup {"conversation"}
           /\ Ask(Boot, "open", s.project, s.conv, [task[Boot] EXCEPT !.for = s])
  <2> DEFINE t == [task[Boot] EXCEPT !.for = s]
  <2>1. /\ t \in Task /\ t.for = s /\ t.op = "boot" /\ t.conv = task[Boot].conv
        /\ t.typed = task[Boot].typed
    BY <1>0, <1>2, <1>5 DEF Task
  <2>2. Ask(Boot, "open", s.project, s.conv, t) /\ s.project \in Projects \cup {None}
    BY <1>5, <1>7 DEF Selection
  <2> HIDE DEF t
  <2>3. /\ Moves(Boot) /\ RequestsFit'
        /\ task'[Boot].pc = "open" /\ task'[Boot].op = t.op
        /\ task'[Boot].for = t.for /\ task'[Boot].typed = t.typed
        /\ task'[Boot].conv = t.conv
    <3>1. /\ "open" \in Ops /\ s.conv \in Convs \cup {None} /\ s.conv = t.for.conv
          /\ s.conv # None /\ t \in Task
      BY <1>6, <1>7, <2>1 DEF Ops
    <3>2. /\ answer' = answer \/ answer' = [answer EXCEPT ![Boot] = None]
          /\ answer'[Boot] = None /\ ~Sending(Boot) /\ Free(Boot)
      BY <1>2, <1>3
    <3> QED
      BY <1>0, <2>2, <3>1, <3>2, AskedMoves
  <2>4. (Fresh(Boot) /\ Opening(Boot) /\ Submitting(Boot) /\ Answers(Boot))'
    BY <1>2, <1>3, <1>6, <1>7, <2>1, <2>3
    DEF Fresh, Opening, Submitting, Answers, Sending
  <2>5. ShownFit' /\ SelectedTogether'
    BY <1>0, <1>1, <1>2, <1>3, <1>5, <2>1, <2>3, ShownStays, SelectionStays
    DEF SInv, SelectionMoves
  <2>6. SpinnersAreTrue'
    BY <1>0, <1>2, <1>7, <2>3, SpinnersStay DEF SInv
  <2> QED
    BY <1>0, <1>1, <1>3, <2>3, <2>4, <2>5, <2>6, StepFits
<1>8. CASE /\ spin' = spin \ {"lists"}
           /\ task' = Settled(Boot, task[Boot])
           /\ UNCHANGED requests
  <2>1. Released(Boot) /\ Resets(Boot) /\ task[Boot].pc # "none"
    BY <1>2, <1>8 DEF Released, Resets
  <2> QED
    BY <1>0, <1>1, <1>2, <1>3, <1>5, <1>8, <2>1, SettledStep
<1> QED
  BY <1>4, <1>7, <1>8

LEMMA SendsFit ==
  ASSUME SInv, TypeOK', NEW k \in Tasks, NEW c \in Convs, NEW t \in Task,
         Sends(k, c, t, view), answer' = answer, answer[k] = None, Free(k),
         log' = log, events' = events, sel' = sel, spin' = spin,
         t.op = "submit", k # Boot,
         Sending(k) => task[k].conv = c,
         \/ t.typed.conv = c
         \/ t.typed.conv = None /\ t.typed.project = ProjectOf[c],
         task[k].pc \in {"act", "savenew"}
  PROVE  SInv'
<1> DEFINE u == [t EXCEPT !.conv = c]
<1>0. TypeOK /\ ShownFit /\ c # None
  BY StoreAssumption DEF SInv
<1>1. /\ shown' = [shown EXCEPT ![c] = @ \cup {Said("pending", k)}]
      /\ view' = [view EXCEPT ![c] = GroupOf("starting")]
      /\ Ask(k, "send", ProjectOf[c], c, u)
  BY DEF Sends
<1>2. /\ u \in Task /\ u.op = "submit" /\ u.conv = c
      /\ u.typed = t.typed
  BY DEF Task
<1> HIDE DEF u
<1>3. /\ Moves(k) /\ RequestsFit'
      /\ task'[k].pc = "send" /\ task'[k].op = u.op /\ task'[k].for = u.for
      /\ task'[k].typed = u.typed /\ task'[k].conv = u.conv
  <2>1. "send" \in Ops /\ ProjectOf[c] \in Projects \cup {None} /\ c \in Convs \cup {None}
    BY StoreAssumption DEF Ops
  <2>2. answer'[k] = None /\ (Sending(k) => u.op = "submit" /\ u.conv = task[k].conv)
    BY <1>2
  <2> QED
    BY <1>0, <1>1, <1>2, <2>1, <2>2, AskedMoves
<1>4. ViewGrows /\ view'[c] # None
  BY <1>0, <1>1, GroupIsShown DEF ViewGrows, TypeOK
<1>5. (Fresh(k) /\ Opening(k) /\ Submitting(k) /\ Answers(k))'
  <2>1. Aimed(k)' /\ Sending(k)'
    BY <1>0, <1>2, <1>3 DEF Aimed, Sending
  <2> QED
    BY <1>2, <1>3, <1>4, <2>1 DEF Fresh, Opening, Submitting, Answers
<1>6. ShownFit'
  <2>1. ASSUME NEW d \in Convs, NEW m \in shown[d], m.by = "pending"
        PROVE  Sending(m.of)' /\ task'[m.of].conv = d
    <3>1. m.of \in Tasks /\ task[m.of] \in Task
      BY <1>0 DEF TypeOK, Message
    <3>2. Sending(m.of) /\ task[m.of].conv = d
      BY <1>0, <2>1 DEF ShownFit
    <3>3. CASE m.of # k
      BY <1>0, <1>3, <3>1, <3>2, <3>3, SendingStays DEF Moves, Sending, Task
    <3>4. CASE m.of = k
      BY <1>0, <1>2, <1>3, <3>1, <3>2, <3>4, SendingStays
    <3> QED
      BY <3>3, <3>4
  <2>2. /\ Said("pending", k).by = "pending" /\ Said("pending", k).of = k
        /\ Sending(k)' /\ task'[k].conv = c
    BY <1>0, <1>2, <1>3 DEF Said, Sending
  <2>3. ASSUME NEW d \in Convs, NEW m \in shown'[d]
        PROVE  m \in shown[d] \/ (d = c /\ m = Said("pending", k))
    BY <1>0, <1>1 DEF TypeOK
  <2>4. ASSUME NEW d \in Convs, NEW m \in shown'[d], m.by = "pending"
        PROVE  Sending(m.of)' /\ task'[m.of].conv = d
    BY <2>1, <2>2, <2>3, <2>4
  <2>5. ASSUME NEW d \in Convs, NEW m \in shown'[d], m.by # "pending"
        PROVE  m \in log'[d]
    <3>1. m \in shown[d]
      BY <2>2, <2>3, <2>5
    <3> QED
      BY <1>0, <2>5, <3>1 DEF ShownFit
  <2> QED
    BY <2>4, <2>5 DEF ShownFit
<1>7. SelectedTogether'
  BY <1>0, <1>4, SelectionStays DEF SInv
<1>8. SpinnersAreTrue'
  BY <1>0, <1>3, SpinnersStay DEF SInv
<1> QED
  BY <1>3, <1>4, <1>5, <1>6, <1>7, <1>8, StepFits

LEMMA BeginSendFits == ASSUME SInv, TypeOK', NEW k \in Tasks, BeginSend(k) PROVE SInv'
<1> DEFINE t == [task[k] EXCEPT !.typed = sel]
<1>1. /\ task[k].pc = "act" /\ task[k].op = "submit" /\ answer' = answer
      /\ log' = log /\ events' = events /\ sel' = sel /\ spin' = spin
  BY DEF BeginSend, server
<1>2. /\ TypeOK /\ task[k] \in Task /\ RequestsFit /\ SelectedTogether
      /\ Fresh(k) /\ Opening(k) /\ Submitting(k) /\ Answers(k)
  BY DEF SInv, TypeOK, TasksFit, AnswersFit
<1>3. /\ answer[k] = None /\ ~Sending(k) /\ Free(k) /\ k # Boot
      /\ task[k].conv = None
  <2>1. answer[k] = None /\ ~Sending(k) /\ k # Boot
    BY <1>1, <1>2 DEF Answers, Submitting, Fresh, Ops
  <2> QED
    BY <1>1, <1>2, <2>1, FreeToAct DEF Sending, Ops
<1>4. /\ t \in Task /\ t.pc = "act" /\ t.op = "submit" /\ t.for = task[k].for
      /\ t.typed = sel /\ t.conv = None
  BY <1>1, <1>2, <1>3 DEF Task, TypeOK
<1>5. CASE sel.project = None
  <2>1. task' = Settled(k, t) /\ view' = view /\ shown' = shown /\ requests' = requests
    BY <1>5 DEF BeginSend
  <2> HIDE DEF t
  <2>2. /\ Moves(k)
        /\ task'[k].pc = "none" /\ task'[k].for.conv = None
        /\ task'[k].op = t.op /\ task'[k].conv = t.conv
        /\ task'[k].typed = t.typed
    BY <1>1, <1>2, <1>3, <1>4, <2>1, SettledMove
  <2>3. (Fresh(k) /\ Opening(k) /\ Submitting(k) /\ Answers(k))'
    BY <1>1, <1>3, <1>4, <2>2 DEF Fresh, Opening, Submitting, Answers, Sending
  <2>4. ViewGrows /\ RequestsFit'
    BY <1>2, <1>3, <2>1, <2>2, RequestsStay DEF ViewGrows
  <2>5. ShownFit' /\ SelectedTogether'
    BY <1>1, <1>2, <1>4, <2>1, <2>2, <2>4, ShownStays, SelectionStays DEF SInv
  <2>6. SpinnersAreTrue'
    BY <1>1, <1>2, <2>2, SpinnersStay DEF SInv
  <2> QED
    BY <1>1, <2>2, <2>3, <2>4, <2>5, <2>6, StepFits
<1>6. CASE sel.project # None /\ sel.conv # None /\ view[sel.conv] # None
  <2>1. Sends(k, sel.conv, t, view) /\ sel.conv \in Convs
    BY <1>2, <1>6 DEF BeginSend, TypeOK, Selection
  <2> HIDE DEF t
  <2> QED
    BY <1>1, <1>3, <1>4, <2>1, SendsFit
<1>7. CASE sel.project # None /\ ~(sel.conv # None /\ view[sel.conv] # None)
  <2>1. Ask(k, "create", sel.project, None, t) /\ view' = view /\ shown' = shown
    BY <1>7 DEF BeginSend
  <2>2. sel.conv = None /\ sel.project \in Projects \cup {None} /\ "create" \in Ops
    BY <1>2, <1>7 DEF SelectedTogether, TypeOK, Selection, Ops
  <2> HIDE DEF t
  <2>3. /\ Moves(k) /\ RequestsFit'
        /\ task'[k].pc = "create" /\ task'[k].op = t.op /\ task'[k].for = t.for
        /\ task'[k].typed = t.typed /\ task'[k].conv = t.conv
    BY <1>1, <1>3, <1>4, <2>1, <2>2, AskedMoves
  <2>4. (Fresh(k) /\ Opening(k) /\ Submitting(k) /\ Answers(k))'
    BY <1>1, <1>3, <1>4, <2>2, <2>3 DEF Fresh, Opening, Submitting, Answers, Sending
  <2>5. ViewGrows /\ ShownFit' /\ SelectedTogether'
    BY <1>1, <1>2, <1>4, <2>1, <2>3, ShownStays, SelectionStays DEF SInv, ViewGrows
  <2>6. SpinnersAreTrue'
    BY <1>1, <1>2, <2>3, SpinnersStay DEF SInv
  <2> QED
    BY <1>1, <2>3, <2>4, <2>5, <2>6, StepFits
<1> QED
  BY <1>5, <1>6, <1>7

LEMMA CreatedFits == ASSUME SInv, TypeOK', NEW k \in Tasks, Created(k) PROVE SInv'
<1>0. Answered(k, "create")
  BY DEF Created
<1>1. /\ log' = log /\ events' = events /\ shown' = shown /\ spin' = spin
      /\ view' = Merged(answer[k].records) /\ requests' = requests
  BY DEF Created, server
<1>2. /\ TypeOK /\ task[k] \in Task /\ task[k].pc = "create" /\ answer[k] # None
      /\ answer' = [answer EXCEPT ![k] = None] /\ Free(k)
      /\ answer[k].records \in Listing
      /\ Fresh(k) /\ Opening(k) /\ Submitting(k) /\ Answers(k)
  BY <1>0, AnsweredFits DEF Answered
<1>3. PICK c \in Convs :
        /\ answer[k].records[c] # None /\ sel' = At(c)
        /\ task' = [task EXCEPT ![k].pc = "savenew", ![k].conv = c]
  BY DEF Created
<1> DEFINE t == [[task[k] EXCEPT !.pc = "savenew"] EXCEPT !.conv = c]
<1>4. /\ task' = [task EXCEPT ![k] = t]
      /\ t.pc = "savenew" /\ t.op = task[k].op /\ t.for = task[k].for
      /\ t.typed = task[k].typed /\ t.conv = c
  BY <1>2, <1>3 DEF Task
<1> HIDE DEF t
<1>5. /\ ~Sending(k) /\ task[k].op = "submit"
      /\ task[k].typed.conv = None /\ task[k].typed.project = ProjectOf[c]
      /\ c # None /\ k # Boot
  BY <1>2, <1>3, StoreAssumption DEF Submitting, Fresh, Answers
<1>6. ViewGrows /\ view'[c] # None
  BY <1>1, <1>2, <1>3, MergedGrows
<1>7. Moves(k) /\ task'[k] = t /\ answer'[k] = None
  BY <1>2, <1>4, <1>5, OwnMove DEF TypeOK
<1>8. (Fresh(k) /\ Opening(k) /\ Submitting(k) /\ Answers(k))'
  <2>1. Sending(k)' /\ Aimed(k)'
    BY <1>4, <1>5, <1>7 DEF Sending, Aimed
  <2> QED
    BY <1>4, <1>5, <1>6, <1>7, <2>1 DEF Fresh, Opening, Submitting, Answers
<1>9. (RequestsFit /\ ShownFit /\ SelectedTogether)'
  BY <1>1, <1>2, <1>3, <1>4, <1>6, <1>7, RequestsStay, ShownStays, SelectionStays
  DEF SInv
<1>10. SpinnersAreTrue'
  BY <1>1, <1>2, <1>7, SpinnersStay DEF SInv
<1> QED
  BY <1>1, <1>6, <1>7, <1>8, <1>9, <1>10, StepFits

LEMMA SendToCreatedFits ==
  ASSUME SInv, TypeOK', NEW k \in Tasks, SendToCreated(k) PROVE SInv'
<1>1. /\ task[k].pc = "savenew" /\ Sends(k, task[k].conv, task[k], view)
      /\ answer' = answer /\ log' = log /\ events' = events /\ sel' = sel
      /\ spin' = spin
  BY DEF SendToCreated, server
<1>2. /\ TypeOK /\ task[k] \in Task /\ RequestsFit
      /\ Fresh(k) /\ Submitting(k) /\ Answers(k)
  BY DEF SInv, TypeOK, TasksFit, AnswersFit
<1>3. /\ Sending(k) /\ Aimed(k) /\ answer[k] = None
      /\ task[k].op = "submit" /\ k # Boot /\ task[k].conv \in Convs
  BY <1>1, <1>2 DEF Submitting, Sending, Fresh, Answers, Task, Ops
<1>4. Free(k)
  BY <1>1, <1>2, FreeToAct DEF Ops
<1> QED
  BY <1>1, <1>2, <1>3, <1>4, SendsFit DEF Aimed

LEMMA SentFits == ASSUME SInv, TypeOK', NEW k \in Tasks, Sent(k) PROVE SInv'
<1> DEFINE c == task[k].conv
<1>0. Answered(k, "send")
  BY DEF Sent
<1>1. /\ log' = log /\ events' = events /\ shown' = shown /\ spin' = spin
      /\ view' = view /\ sel' = sel /\ Ask(k, "reopen", ProjectOf[c], c, task[k])
  BY DEF Sent, server
<1>2. /\ TypeOK /\ task[k] \in Task /\ task[k].pc = "send"
      /\ answer' = [answer EXCEPT ![k] = None] /\ Free(k)
      /\ Fresh(k) /\ Opening(k) /\ Submitting(k)
  BY <1>0, AnsweredFits
<1>3. /\ Sending(k) /\ Aimed(k) /\ view[c] # None
      /\ c \in Convs /\ c # None /\ answer'[k] = None /\ task[k].op = "submit"
      /\ "reopen" \in Ops /\ ProjectOf[c] \in Projects
  BY <1>2, StoreAssumption DEF Submitting, Sending, Fresh, Task, TypeOK, Ops
<1>4. /\ Moves(k) /\ RequestsFit'
      /\ task'[k].pc = "reopen" /\ task'[k].op = task[k].op
      /\ task'[k].for = task[k].for /\ task'[k].typed = task[k].typed
      /\ task'[k].conv = c
  <2>1. /\ c = task[k].conv /\ c \in Convs \cup {None} /\ c # None
        /\ ProjectOf[c] \in Projects \cup {None} /\ task[k] \in Task
        /\ Sending(k) => task[k].op = "submit" /\ task[k].conv = task[k].conv
    BY <1>2, <1>3
  <2>2. /\ answer' = answer \/ answer' = [answer EXCEPT ![k] = None]
        /\ answer'[k] = None /\ Free(k) /\ Ask(k, "reopen", ProjectOf[c], c, task[k])
    BY <1>1, <1>2, <1>3
  <2> HIDE DEF c
  <2>3. "reopen" \in Ops
    BY <1>3
  <2> QED
    BY <2>1, <2>2, <2>3, AskedMoves
<1> HIDE DEF c
<1>5. ViewGrows /\ view'[c] # None
  BY <1>1, <1>3 DEF ViewGrows
<1>6. (Fresh(k) /\ Opening(k) /\ Submitting(k) /\ Answers(k))'
  <2>1. Sending(k)' /\ Aimed(k)'
    BY <1>3, <1>4 DEF Sending, Aimed, c
  <2> QED
    BY <1>2, <1>3, <1>4, <1>5, <2>1 DEF Fresh, Opening, Submitting, Answers
<1>7. ShownFit' /\ SelectedTogether'
  BY <1>1, <1>2, <1>4, <1>5, ShownStays, SelectionStays DEF SInv
<1>8. SpinnersAreTrue'
  BY <1>1, <1>2, <1>4, SpinnersStay DEF SInv
<1> QED
  BY <1>1, <1>4, <1>5, <1>6, <1>7, <1>8, StepFits

LEMMA ReopenedFits == ASSUME SInv, TypeOK', NEW k \in Tasks, Reopened(k) PROVE SInv'
<1> DEFINE c == task[k].conv
           t == task[k]
<1>0. Answered(k, "reopen")
  BY DEF Reopened
<1>1. /\ log' = log /\ events' = events /\ spin' = spin /\ requests' = requests
      /\ shown' = WithMessages(c, answer[k].said)
      /\ view' = Merged(answer[k].records) /\ sel' = At(c) /\ task' = Settled(k, t)
  BY DEF Reopened, server
<1>2. /\ TypeOK /\ task[k] \in Task /\ task[k].pc = "reopen" /\ answer[k] # None
      /\ answer' = [answer EXCEPT ![k] = None] /\ Free(k)
      /\ answer[k].records \in Listing
      /\ Fresh(k) /\ Opening(k) /\ Submitting(k) /\ Answers(k)
  BY <1>0, AnsweredFits DEF Answered
<1>3. /\ Sending(k) /\ Aimed(k) /\ view[c] # None /\ c \in Convs
      /\ answer[k].said \subseteq log[c] /\ k # Boot /\ answer'[k] = None
  BY <1>2 DEF Submitting, Sending, Fresh, Answers, Task, TypeOK
<1>4. /\ t \in Task /\ t.op = task[k].op /\ t.conv = c /\ t.typed = task[k].typed
  BY <1>2 DEF Task
<1> HIDE DEF t
<1>5. /\ Moves(k)
      /\ task'[k].pc = "none" /\ task'[k].for.conv = None
      /\ task'[k].op = t.op /\ task'[k].conv = t.conv
      /\ task'[k].typed = t.typed
  <2>1. t.op = "submit" /\ t.conv = task[k].conv
    BY <1>3, <1>4 DEF Sending
  <2> QED
    BY <1>1, <1>2, <1>4, <2>1, SettledMove
<1>6. task[k].op # "none" /\ task[k].op = "submit"
  BY <1>3 DEF Sending
<1>7. (Fresh(k) /\ Opening(k) /\ Submitting(k) /\ Answers(k))'
  BY <1>3, <1>4, <1>5, <1>6, SettledFits
<1>8. ViewGrows
  BY <1>1, <1>2, MergedGrows
<1>9. ShownFit'
  BY <1>1, <1>3, <1>5, ShownReplaced
<1>10. RequestsFit'
  BY <1>1, <1>2, <1>5, RequestsStay DEF SInv
<1>11. SelectedTogether'
  <2>1. view'[c] # None
    BY <1>3, <1>8 DEF ViewGrows
  <2> HIDE DEF c
  <2> QED
    BY <1>1, <1>2, <1>3, <1>8, <2>1, SelectionStays DEF SInv
<1>12. SpinnersAreTrue'
  BY <1>1, <1>2, <1>5, SpinnersStay DEF SInv
<1> QED
  BY <1>1, <1>5, <1>7, <1>8, <1>9, <1>10, <1>11, <1>12, StepFits

LEMMA BeginCancelFits ==
  ASSUME SInv, TypeOK', NEW k \in Tasks, BeginCancel(k) PROVE SInv'
<1>1. /\ task[k].pc = "act" /\ task[k].op = "abort" /\ answer' = answer
      /\ log' = log /\ events' = events /\ sel' = sel /\ spin' = spin
      /\ view' = view /\ shown' = shown
  BY DEF BeginCancel, server
<1>2. /\ TypeOK /\ task[k] \in Task /\ RequestsFit
      /\ Fresh(k) /\ Opening(k) /\ Submitting(k) /\ Answers(k)
  BY DEF SInv, TypeOK, TasksFit, AnswersFit
<1>3. /\ answer[k] = None /\ ~Sending(k) /\ k # Boot
      /\ ViewGrows /\ SelectionMoves
  BY <1>1, <1>2
  DEF Answers, Submitting, Fresh, Sending, ViewGrows, SelectionMoves, Ops
<1>4. Free(k) /\ answer' = [answer EXCEPT ![k] = None]
  BY <1>1, <1>2, <1>3, FreeToAct DEF Ops, TypeOK
<1>5. CASE sel.conv # None /\ view[sel.conv] # None
  <2> DEFINE t == [task[k] EXCEPT !.conv = sel.conv]
  <2>1. /\ Ask(k, "cancel", ProjectOf[sel.conv], sel.conv, t) /\ "cancel" \in Ops
        /\ sel.conv \in Convs /\ ProjectOf[sel.conv] \in Projects
    BY <1>2, <1>5, StoreAssumption DEF BeginCancel, TypeOK, Selection, Ops
  <2>2. /\ t \in Task /\ t.op = "abort" /\ t.for = task[k].for
        /\ t.typed = task[k].typed /\ t.conv = sel.conv
    BY <1>1, <1>2, <1>3, <2>1 DEF Task
  <2> HIDE DEF t
  <2>3. /\ Moves(k) /\ RequestsFit'
        /\ task'[k].pc = "cancel" /\ task'[k].op = t.op /\ task'[k].for = t.for
        /\ task'[k].typed = t.typed /\ task'[k].conv = t.conv
    BY <1>1, <1>3, <1>4, <1>5, <2>1, <2>2, AskedMoves
  <2>4. (Fresh(k) /\ Opening(k) /\ Submitting(k) /\ Answers(k))'
    BY <1>1, <1>3, <2>2, <2>3 DEF Fresh, Opening, Submitting, Answers, Sending
  <2>5. ShownFit' /\ SelectedTogether'
    BY <1>1, <1>2, <1>3, <2>2, <2>3, ShownStays, SelectionStays DEF SInv
  <2>6. SpinnersAreTrue'
    BY <1>1, <1>2, <2>3, SpinnersStay DEF SInv
  <2> QED
    BY <1>1, <1>3, <2>3, <2>4, <2>5, <2>6, StepFits
<1>6. CASE ~(sel.conv # None /\ view[sel.conv] # None)
  <2>1. task' = Settled(k, task[k]) /\ requests' = requests
    BY <1>6 DEF BeginCancel
  <2>2. Released(k) /\ Resets(k) /\ task[k].pc # "none"
    BY <1>1, <1>4, <2>1 DEF Released, Resets
  <2> QED
    BY <1>1, <1>3, <1>4, <2>1, <2>2, SettledStep
<1> QED
  BY <1>5, <1>6

LEMMA StepsFit == ASSUME SInv, TypeOK', NEW k \in Tasks, Steps(k) PROVE SInv'
  BY ListedFits, FolderListedFits, FailsFit, GoFits, OpenedFits, ShownFits,
     SelectedFits, BeginSendFits, CreatedFits, SendToCreatedFits, SentFits,
     ReopenedFits, BeginCancelFits, CancelledFits, Zenon DEF Steps

-----------------------------------------------------------------------------
(* Events *)

LEMMA DeliverFits == SInv /\ TypeOK' /\ Deliver => SInv'
<1> SUFFICES ASSUME SInv, TypeOK', Deliver PROVE SInv'
  OBVIOUS
<1> DEFINE e == Head(events)
<1>0. TypeOK /\ EventsFit /\ RequestsFit /\ ShownFit
  BY DEF SInv
<1>1. /\ events # << >> /\ events' = Tail(events) /\ task' = task /\ answer' = answer
      /\ log' = log /\ sel' = sel /\ spin' = spin /\ requests' = requests
  BY DEF Deliver
<1>2. e \in Event /\ e.said \subseteq log[e.conv] /\ e.conv \in Convs
  <2>1. 1 \in DOMAIN events /\ events[1] = e /\ e \in Event
    BY <1>0, <1>1 DEF TypeOK
  <2> QED
    BY <1>0, <2>1 DEF EventsFit, Event
<1>3. ViewGrows
  BY <1>0, <1>2, StoreAssumption DEF Deliver, ViewGrows, TypeOK, Event
<1>4. ASSUME NEW c \in Convs, NEW m \in shown'[c] PROVE m \in shown[c] \/ m \in log[c]
  BY <1>0, <1>2 DEF Deliver, TypeOK
<1>5. TasksFit' /\ AnswersFit'
  <2>1. ASSUME NEW k \in Tasks
        PROVE  (Fresh(k) /\ Opening(k) /\ Submitting(k) /\ Answers(k))'
    <3>1. task[k] \in Task /\ Fresh(k) /\ Opening(k) /\ Submitting(k) /\ Answers(k)
      BY DEF SInv, TypeOK, TasksFit, AnswersFit
    <3>2. Fresh(k)' /\ Answers(k)'
      BY <1>1, <3>1 DEF Fresh, Answers
    <3>3. Opening(k)' /\ Submitting(k)'
      BY <1>1, <1>3, <3>1
      DEF Opening, Submitting, Sending, Aimed, ViewGrows, Task, Selection
    <3> QED
      BY <3>2, <3>3
  <2> QED
    BY <2>1 DEF TasksFit, AnswersFit
<1>6. RequestsFit'
  BY <1>0, <1>1 DEF RequestsFit, Fits, Sending
<1>7. EventsFit'
  <2>1. /\ DOMAIN events = 1..Len(events) /\ Len(events) \in Nat
        /\ DOMAIN Tail(events) = 1..(Len(events) - 1)
        /\ \A i \in DOMAIN Tail(events) : Tail(events)[i] = events[i + 1]
    BY <1>0, <1>1 DEF TypeOK
  <2>2. \A i \in DOMAIN Tail(events) : i + 1 \in DOMAIN events
    BY <2>1
  <2> QED
    BY <1>0, <1>1, <2>1, <2>2 DEF EventsFit
<1>8. LogsFit'
  BY <1>1 DEF SInv, LogsFit, Sending
<1>9. ShownFit'
  <2>1. ASSUME NEW c \in Convs, NEW m \in shown'[c], m.by = "pending"
        PROVE  m \in shown[c]
    BY <1>4, <2>1 DEF SInv, LogsFit
  <2>2. ASSUME NEW c \in Convs, NEW m \in shown'[c], m.by # "pending"
        PROVE  m \in log'[c]
    BY <1>0, <1>1, <1>4, <2>2 DEF ShownFit
  <2> QED
    BY <1>0, <1>1, <2>1, <2>2 DEF ShownFit, Sending
<1>10. SelectedTogether' /\ SpinnersAreTrue'
  BY <1>0, <1>1, <1>3, SelectionStays DEF SInv, SpinnersAreTrue
<1> QED
  BY <1>5, <1>6, <1>7, <1>8, <1>9, <1>10 DEF SInv

-----------------------------------------------------------------------------
(* The server *)

LogsGrow == \A c \in Convs : log[c] \subseteq log'[c]

\* The head of the queue was answered, or is still to be.
Served(records, said) ==
  \/ requests' = requests /\ answer' = answer
  \/ requests # << >> /\ Replies(records, said)

LEMMA RequestsServed ==
  ASSUME SInv, task' = task, NEW records, NEW said, Served(records, said)
  PROVE  RequestsFit'
<1>0. TypeOK /\ RequestsFit
  BY DEF SInv
<1>1. CASE requests' = requests /\ answer' = answer
  BY <1>0, <1>1 DEF RequestsFit, Fits, Sending
<1>2. CASE requests # << >> /\ Replies(records, said)
  <2>1. /\ DOMAIN requests = 1..Len(requests) /\ Len(requests) \in Nat
        /\ 1 \in DOMAIN requests /\ Head(requests) = requests[1]
        /\ requests' = Tail(requests)
        /\ DOMAIN requests' = 1..(Len(requests) - 1)
        /\ \A i \in DOMAIN requests' : requests'[i] = requests[i + 1]
    BY <1>0, <1>2 DEF TypeOK, Replies
  <2>2. \A i \in DOMAIN requests' : i + 1 \in DOMAIN requests /\ i + 1 # 1
    BY <2>1
  <2>3. \A i, j \in DOMAIN requests' : i + 1 = j + 1 => i = j
    BY <2>1
  <2>4. \A k \in Tasks : answer'[k] = answer[k]
                        \/ (requests[1].awaited /\ requests[1].by = k)
    BY <1>0, <1>2, <2>1 DEF Replies, TypeOK
  <2>5. ASSUME NEW i \in DOMAIN requests' PROVE Fits(requests[i])'
    <3>1. PICK r \in Request : r = requests[i + 1]
      BY <1>0, <2>2 DEF TypeOK
    <3>2. Fits(r) /\ r.by \in Tasks
      BY <1>0, <2>2, <3>1 DEF RequestsFit, Request
    <3>3. r.awaited => answer'[r.by] = answer[r.by]
      BY <1>0, <2>1, <2>2, <2>4, <3>1, <3>2 DEF RequestsFit
    <3>4. Fits(r)'
      BY <3>2, <3>3 DEF Fits, Sending
    <3> QED
      BY <2>1, <3>1, <3>4 DEF Fits
  <2>6. ASSUME NEW i \in DOMAIN requests', NEW j \in DOMAIN requests',
               requests'[i].awaited, requests'[j].awaited,
               requests'[i].by = requests'[j].by
        PROVE  i = j
    BY <1>0, <2>1, <2>2, <2>3, <2>6 DEF RequestsFit
  <2> QED
    BY <2>5, <2>6 DEF RequestsFit
<1> QED
  BY <1>1, <1>2 DEF Served

LEMMA AnswersServed ==
  ASSUME SInv, task' = task, LogsGrow, NEW records, NEW said, Served(records, said),
         LET r == Head(requests) IN
           requests # << >> =>
             /\ r.op = "open" => said \subseteq log[task[r.by].for.conv]
             /\ r.op = "reopen" => said \subseteq log[task[r.by].conv]
             /\ r.op = "create" =>
                  \A c \in Convs :
                    records[c] # None => ProjectOf[c] = task[r.by].typed.project
  PROVE  AnswersFit'
<1>0. TypeOK /\ RequestsFit /\ AnswersFit /\ TasksFit
  BY DEF SInv
<1>1. ASSUME NEW k \in Tasks, answer'[k] = answer[k] PROVE Answers(k)'
  <2>1. task[k] \in Task /\ Answers(k) /\ Opening(k) /\ Submitting(k)
    BY <1>0 DEF TypeOK, AnswersFit, TasksFit
  <2>2. task[k].pc \in {"open", "saveopen"} =>
          log[task[k].for.conv] \subseteq log'[task[k].for.conv]
    BY <2>1 DEF Opening, Task, Selection, LogsGrow
  <2>3. task[k].pc = "reopen" => log[task[k].conv] \subseteq log'[task[k].conv]
    BY <2>1 DEF Submitting, Sending, Task, LogsGrow
  <2> QED
    BY <1>1, <2>1, <2>2, <2>3 DEF Answers
<1>2. CASE requests' = requests /\ answer' = answer
  BY <1>1, <1>2 DEF AnswersFit
<1>3. CASE requests # << >> /\ Replies(records, said)
  <2>0. /\ 1 \in DOMAIN requests /\ requests[1] = Head(requests)
        /\ Head(requests) \in Request
    BY <1>0, <1>3 DEF TypeOK
  <2>1. PICK r \in Request : r = Head(requests) /\ Fits(r)
    BY <1>0, <2>0 DEF RequestsFit
  <2>4. PICK k \in Tasks : k = r.by
    BY DEF Request
  <2>2. CASE ~r.awaited
    BY <1>1, <1>3, <2>1, <2>2 DEF Replies, AnswersFit
  <2>3. CASE r.awaited
    <3>1. /\ task[k].pc = r.op /\ r.op \in Ops
          /\ answer' = [answer EXCEPT ![k] = [records |-> records, said |-> said]]
      BY <1>3, <2>1, <2>3, <2>4 DEF Fits, Replies, Request
    <3>2. answer'[k] = [records |-> records, said |-> said] /\ task[k] \in Task
      BY <1>0, <3>1 DEF TypeOK
    <3>3. Opening(k) /\ Submitting(k)
      BY <1>0, <3>1 DEF TasksFit
    <3>4. task[k].pc = "open" => log[task[k].for.conv] \subseteq log'[task[k].for.conv]
      BY <3>2, <3>3 DEF Opening, Task, Selection, LogsGrow
    <3>5. task[k].pc = "reopen" => log[task[k].conv] \subseteq log'[task[k].conv]
      BY <3>2, <3>3 DEF Submitting, Sending, Task, LogsGrow
    <3>6. /\ r.op = "open" => said \subseteq log[task[k].for.conv]
          /\ r.op = "reopen" => said \subseteq log[task[k].conv]
          /\ r.op = "create" =>
               \A c \in Convs :
                 records[c] # None => ProjectOf[c] = task[k].typed.project
      BY <1>3, <2>1, <2>4
    <3>7. Answers(k)'
      BY <3>1, <3>2, <3>4, <3>5, <3>6 DEF Answers, Ops
    <3>8. ASSUME NEW j \in Tasks, j # k PROVE Answers(j)'
      BY <1>0, <1>1, <3>1, <3>8 DEF TypeOK
    <3> QED
      BY <3>7, <3>8 DEF AnswersFit
  <2> QED
    BY <2>2, <2>3
<1> QED
  BY <1>2, <1>3 DEF Served

LEMMA EventsServed ==
  ASSUME SInv, LogsGrow, NEW c \in Convs, NEW state, NEW said,
         Emits(c, state, said), said \subseteq log'[c]
  PROVE  EventsFit'
<1> DEFINE e == [conv |-> c, group |-> GroupOf(state), said |-> said]
<1>0. TypeOK /\ EventsFit
  BY DEF SInv
<1>1. /\ DOMAIN events = 1..Len(events) /\ Len(events) \in Nat
      /\ DOMAIN events' = 1..(Len(events) + 1)
      /\ \A i \in DOMAIN events : events'[i] = events[i] /\ events[i] \in Event
      /\ events'[Len(events) + 1] = e
  BY <1>0 DEF TypeOK, Emits
<1>2. ASSUME NEW i \in DOMAIN events' PROVE events'[i].said \subseteq log'[events'[i].conv]
  <2>1. i \in DOMAIN events \/ i = Len(events) + 1
    BY <1>1
  <2>2. CASE i \in DOMAIN events
    BY <1>0, <1>1, <2>2 DEF EventsFit, LogsGrow, Event
  <2>3. CASE i = Len(events) + 1
    BY <1>1, <2>3
  <2> QED
    BY <2>1, <2>2, <2>3
<1> QED
  BY <1>2 DEF EventsFit

LEMMA ServedFits ==
  ASSUME SInv, TypeOK', LogsGrow, EventsFit', RequestsFit', AnswersFit',
         UNCHANGED <<view, shown, sel, spin, task>>,
         \A c \in Convs : \A m \in log'[c] :
           \/ m \in log[c]
           \/ m.by = "reply"
           \/ m.by = "user" /\ Sending(m.of) /\ task[m.of].conv = c
  PROVE  SInv'
<1>1. TasksFit'
  BY Zenon DEF SInv, TasksFit, Fresh, Opening, Submitting, Sending, Aimed
<1>2. LogsFit'
  BY DEF SInv, LogsFit, Sending
<1>3. ShownFit'
  BY DEF SInv, ShownFit, Sending, LogsGrow
<1>4. SelectedTogether' /\ SpinnersAreTrue'
  BY DEF SInv, SelectedTogether, SpinnersAreTrue
<1> QED
  BY <1>1, <1>2, <1>3, <1>4 DEF SInv

LEMMA HeadFits ==
  ASSUME SInv, requests # << >>
  PROVE  \E r \in Request : r = Head(requests) /\ Fits(r)
<1>1. /\ 1 \in DOMAIN requests /\ requests[1] = Head(requests)
      /\ Head(requests) \in Request
  BY DEF SInv, TypeOK
<1> QED
  BY <1>1 DEF SInv, RequestsFit

\* A request that is answered and changes nothing.
LEMMA ReadFits ==
  ASSUME SInv, TypeOK', UNCHANGED <<view, shown, sel, spin, task, server>>,
         requests # << >>, NEW records, NEW said, Replies(records, said),
         Head(requests).op # "create",
         Head(requests).op \in {"open", "reopen"} => said = log[Head(requests).conv]
  PROVE  SInv'
<1>1. log' = log /\ events' = events /\ task' = task
  BY DEF server
<1>2. PICK r \in Request : r = Head(requests) /\ Fits(r)
  BY HeadFits
<1>3. LogsGrow /\ Served(records, said)
  BY <1>1 DEF LogsGrow, Served
<1>4. RequestsFit' /\ EventsFit'
  BY <1>1, <1>3, RequestsServed DEF SInv, EventsFit
<1>5. AnswersFit'
  <2>1. CASE ~r.awaited
    <3>1. answer' = answer
      BY <1>2, <2>1 DEF Replies
    <3> QED
      BY <1>1, <3>1 DEF SInv, AnswersFit, Answers
  <2>2. CASE r.awaited
    <3>1. /\ r.op = "open" => said \subseteq log[task[r.by].for.conv]
          /\ r.op = "reopen" => said \subseteq log[task[r.by].conv]
          /\ r.op # "create"
      BY <1>2, <2>2 DEF Fits
    <3> QED
      BY <1>1, <1>2, <1>3, <3>1, AnswersServed
  <2> QED
    BY <2>1, <2>2
<1> QED
  BY <1>1, <1>3, <1>4, <1>5, ServedFits

LEMMA ServerFits == SInv /\ TypeOK' /\ Server => SInv'
<1> SUFFICES ASSUME SInv, TypeOK', Server PROVE SInv'
  OBVIOUS
<1>0. TypeOK
  BY DEF SInv
<1>1. CASE ServeList
  <2>1. PICK ps \in SUBSET Projects :
          Replies([c \in Convs |-> IF Known(c) /\ ProjectOf[c] \in ps
                                     THEN GroupOf(actual[c].state) ELSE None], {})
    BY <1>1 DEF ServeList
  <2>2. /\ requests # << >> /\ Head(requests).op = "list"
        /\ UNCHANGED <<view, shown, sel, spin, task, server>>
    BY <1>1 DEF ServeList, Asked
  <2> QED
    BY <2>1, <2>2, ReadFits
<1>2. CASE ServeOpen
  <2> DEFINE c == Head(requests).conv
  <2>1. /\ requests # << >> /\ Head(requests).op \in {"open", "reopen"}
        /\ UNCHANGED <<view, shown, sel, spin, task, server>>
        /\ Replies(About(c, actual[c].state), log[c])
    BY <1>2 DEF ServeOpen, Asked
  <2> QED
    BY <2>1, ReadFits
<1>3. CASE ServeCancelled
  <2> DEFINE c == Head(requests).conv
  <2>1. /\ requests # << >> /\ Head(requests).op = "cancel"
        /\ UNCHANGED <<view, shown, sel, spin, task, server>>
        /\ Replies(About(c, actual[c].state), {})
    BY <1>3 DEF ServeCancelled, Asked
  <2> QED
    BY <2>1, ReadFits
<1>4. ASSUME NEW c \in Convs, ServeCreate(c) PROVE SInv'
  <2>1. /\ requests # << >> /\ Head(requests).op = "create"
        /\ ProjectOf[c] = Head(requests).project
        /\ Replies(About(c, "ended"), {}) /\ Emits(c, "ended", {})
        /\ UNCHANGED <<view, shown, sel, spin, task>> /\ log' = log
    BY <1>4 DEF ServeCreate, Asked
  <2>2. LogsGrow /\ Served(About(c, "ended"), {}) /\ task' = task
    BY <2>1 DEF LogsGrow, Served
  <2>3. PICK r \in Request : r = Head(requests) /\ Fits(r)
    BY <2>1, HeadFits
  <2>4. RequestsFit' /\ EventsFit'
    BY <2>1, <2>2, RequestsServed, EventsServed
  <2>5. AnswersFit'
    <3>1. CASE ~r.awaited
      <4>1. answer' = answer
        BY <2>1, <2>3, <3>1 DEF Replies
      <4> QED
        BY <2>1, <4>1 DEF SInv, AnswersFit, Answers
    <3>2. CASE r.awaited
      <4>1. r.project = task[r.by].typed.project /\ r.op = "create"
        BY <2>1, <2>3, <3>2 DEF Fits
      <4>2. \A d \in Convs : About(c, "ended")[d] # None => d = c
        BY DEF About
      <4> QED
        BY <2>1, <2>2, <2>3, <4>1, <4>2, AnswersServed
    <3> QED
      BY <3>1, <3>2
  <2> QED
    BY <2>1, <2>2, <2>4, <2>5, ServedFits
<1>5. CASE ServeSend
  <2>1. PICK r \in Request : r = Head(requests) /\ Fits(r)
    BY <1>5, HeadFits DEF ServeSend, Asked
  <2>2. PICK c \in Convs, k \in Tasks : c = r.conv /\ k = r.by /\ Sending(k) /\ task[k].conv = c
    BY <1>5, <2>1 DEF ServeSend, Asked, Fits, Request
  <2>3. /\ requests # << >> /\ r.op = "send"
        /\ log' = [log EXCEPT ![c] = @ \cup {Said("user", k)}]
        /\ Emits(c, "starting", {Said("user", k)})
        /\ Replies([d \in Convs |-> None], {})
        /\ UNCHANGED <<view, shown, sel, spin, task>>
    BY <1>5, <2>1, <2>2 DEF ServeSend, Asked
  <2>4. LogsGrow /\ Said("user", k) \in log'[c]
    BY <1>0, <2>3 DEF LogsGrow, TypeOK
  <2>5. Served([d \in Convs |-> None], {}) /\ task' = task
    BY <2>3 DEF Served
  <2>6. EventsFit' /\ RequestsFit'
    BY <2>3, <2>4, <2>5, EventsServed, RequestsServed
  <2>7. AnswersFit'
    BY <2>1, <2>3, <2>4, <2>5, AnswersServed
  <2>8. /\ Said("user", k).by = "user" /\ Said("user", k).of = k
        /\ \A d \in Convs : \A m \in log'[d] :
             m \in log[d] \/ (d = c /\ m = Said("user", k))
    BY <1>0, <2>3 DEF Said, TypeOK
  <2> QED
    BY <2>2, <2>3, <2>4, <2>6, <2>7, <2>8, ServedFits
<1>6. CASE ServeCancel
  <2>1. PICK r \in Request : r = Head(requests) /\ Fits(r)
    BY <1>6, HeadFits DEF ServeCancel, Asked
  <2>2. r.conv \in Convs /\ r.op = "cancel" /\ requests # << >>
    BY <1>6, <2>1 DEF ServeCancel, Asked, Fits, Request
  <2>3. PICK c \in Convs : c = r.conv
    BY <2>2
  <2>4. /\ Emits(c, "cancelling", {}) /\ log' = log
        /\ UNCHANGED <<view, shown, sel, spin, task>>
        /\ UNCHANGED <<requests, answer>> \/ Replies(About(c, "cancelling"), {})
    BY <1>6, <2>1, <2>3 DEF ServeCancel
  <2>5. LogsGrow /\ Served(About(c, "cancelling"), {}) /\ task' = task
    BY <2>2, <2>4 DEF LogsGrow, Served
  <2>6. EventsFit' /\ RequestsFit' /\ AnswersFit'
    BY <2>1, <2>2, <2>4, <2>5, EventsServed, RequestsServed, AnswersServed
  <2> QED
    BY <2>4, <2>5, <2>6, ServedFits
<1>7. ASSUME NEW c \in Convs, RunCompletes(c) PROVE SInv'
  <2> DEFINE reply == Said("reply", actual[c].turn)
  <2>1. /\ log' = [log EXCEPT ![c] = @ \cup {reply}] /\ Emits(c, "ended", {reply})
        /\ requests' = requests /\ answer' = answer
        /\ UNCHANGED <<view, shown, sel, spin, task>>
    BY <1>7 DEF RunCompletes, client
  <2>2. reply.by = "reply"
    BY DEF Said
  <2> HIDE DEF reply
  <2>3. LogsGrow /\ {reply} \subseteq log'[c]
    BY <1>0, <2>1 DEF LogsGrow, TypeOK
  <2>4. Served(About(c, "ended"), {}) /\ task' = task
    BY <2>1 DEF Served
  <2>5. EventsFit'
    BY <2>1, <2>3, EventsServed
  <2>6. RequestsFit'
    BY <2>4, RequestsServed
  <2>7. AnswersFit'
    BY <1>0, <2>1, <2>3 DEF SInv, AnswersFit, Answers, TasksFit, Opening,
       Submitting, Sending, LogsGrow, TypeOK, Task, Selection
  <2>8. \A d \in Convs : \A m \in log'[d] : m \in log[d] \/ m.by = "reply"
    BY <1>0, <2>1, <2>2 DEF TypeOK
  <2> QED
    BY <2>1, <2>3, <2>5, <2>6, <2>7, <2>8, ServedFits
<1>8. ASSUME NEW c \in Convs,
             RunBegins(c) \/ RunEnds(c, "failed") \/ RunEnds(c, "ended")
      PROVE  SInv'
  <2>1. /\ log' = log /\ Emits(c, "ended", {}) /\ requests' = requests
        /\ answer' = answer /\ UNCHANGED <<view, shown, sel, spin, task>>
    BY <1>8 DEF RunBegins, RunEnds, client
  <2>2. LogsGrow /\ Served(About(c, "ended"), {}) /\ task' = task
    BY <2>1 DEF LogsGrow, Served
  <2>3. EventsFit' /\ RequestsFit'
    BY <2>1, <2>2, EventsServed, RequestsServed
  <2>4. AnswersFit'
    BY <2>1 DEF SInv, AnswersFit, Answers
  <2> QED
    BY <2>1, <2>2, <2>3, <2>4, ServedFits
<1> QED
  BY <1>1, <1>2, <1>3, <1>4, <1>5, <1>6, <1>7, <1>8 DEF Server

-----------------------------------------------------------------------------
(* Every behaviour *)

LEMMA SInvInit == Init => SInv
<1> SUFFICES ASSUME Init PROVE SInv
  OBVIOUS
<1>1. TypeOK
  BY StoreInitType
<1>2. /\ \A k \in Tasks : task[k] = Idle /\ answer[k] = None
      /\ sel.conv = None /\ spin = {} /\ requests = << >> /\ events = << >>
      /\ \A c \in Convs : shown[c] = {} /\ log[c] = {}
  BY DEF Init, Nowhere
<1>3. /\ Idle.pc = "none" /\ Idle.op = "none" /\ Idle.conv = None
      /\ Idle.for.conv = None
  BY DEF Idle, Nowhere
<1>4. TasksFit /\ AnswersFit
  BY <1>2, <1>3 DEF TasksFit, Fresh, Opening, Submitting, Sending, AnswersFit, Answers
<1>5. RequestsFit /\ EventsFit
  BY <1>2 DEF RequestsFit, EventsFit
<1>6. LogsFit /\ ShownFit /\ SelectedTogether /\ SpinnersAreTrue
  BY <1>2 DEF LogsFit, ShownFit, SelectedTogether, SpinnersAreTrue
<1> QED
  BY <1>1, <1>4, <1>5, <1>6 DEF SInv

LEMMA SInvStep == SInv /\ [Next]_vars => SInv'
<1> SUFFICES ASSUME SInv, [Next]_vars PROVE SInv'
  OBVIOUS
<1>1. TypeOK'
  BY TargetsFit, NextType DEF SInv
<1>2. CASE UNCHANGED vars
  <2>1. UNCHANGED <<ready, view, shown, sel, spin, task, answer, requests, events,
                    actual, log>>
    BY <1>2 DEF vars, client, server
  <2>2. TasksFit' /\ AnswersFit'
    BY <2>1, Zenon DEF SInv, TasksFit, Fresh, Opening, Submitting, Sending, Aimed,
       AnswersFit, Answers
  <2>3. RequestsFit' /\ EventsFit'
    BY <2>1 DEF SInv, RequestsFit, Fits, Sending, EventsFit
  <2>4. (LogsFit /\ ShownFit /\ SelectedTogether /\ SpinnersAreTrue)'
    BY <2>1 DEF SInv, LogsFit, ShownFit, Sending, SelectedTogether, SpinnersAreTrue
  <2> QED
    BY <1>1, <2>2, <2>3, <2>4 DEF SInv
<1> QED
  BY <1>1, <1>2, UserFits, BootedFits, StepsFit, DeliverFits, ServerFits DEF Next

LEMMA SInvAlways == Spec => []SInv
  BY SInvInit, SInvStep, PTL DEF Spec

\* The store, what waits for an answer and the server's records keep the form
\* the code gives them, whatever is called, answered, refused or emitted.
THEOREM StoreTypes == Spec => []TypeOK
  BY SInvAlways, PTL DEF SInv

\* However late selectDevPilotConversation, the initialization, the folder or
\* a send comes back and sets the selection, the selected conversation is known
\* and its project is selected.
THEOREM StoreSelects == Spec => []SelectedTogether
  BY SInvAlways, PTL DEF SInv

\* sendDevPilotConversationMessage delivers to the conversation selected when
\* it began, or to one made in the project selected then.
THEOREM StoreSends == Spec => []SentWhereSelected
<1>1. SInv => SentWhereSelected
  <2> SUFFICES ASSUME SInv, NEW c \in Convs, NEW k \in Calls, Said("user", k) \in log[c]
               PROVE  \/ task[k].typed.conv = c
                      \/ task[k].typed.conv = None /\ task[k].typed.project = ProjectOf[c]
    BY DEF SentWhereSelected
  <2>1. Sending(k) /\ task[k].conv = c
    BY DEF SInv, LogsFit, Said
  <2>2. Aimed(k)
    BY <2>1 DEF SInv, TasksFit, Submitting, Tasks
  <2> QED
    BY <2>1, <2>2 DEF Aimed
<1> QED
  BY <1>1, SInvAlways, PTL

\* setConversationMessages and the events show a message only under the
\* conversation the server has it in, or the one it is being sent to.
THEOREM StoreShows == Spec => []ShownWhereSaid
<1>1. SInv => ShownWhereSaid
  BY DEF SInv, ShownFit, ShownWhereSaid
<1> QED
  BY <1>1, SInvAlways, PTL

\* A loading flag is set only while somebody still waits who will reset it.
THEOREM StoreSpins == Spec => []SpinnersAreTrue
  BY SInvAlways, PTL DEF SInv
=============================================================================
