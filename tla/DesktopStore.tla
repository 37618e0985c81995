---------------------------- MODULE DesktopStore ----------------------------
(***************************************************************************)
(* The window's picture of the conversations: the store of the renderer    *)
(* (apps/ui/sources/devpilot/domain/store.ts), the two functions through   *)
(* which the session view sends and aborts                                 *)
(* (apps/ui/sources/config/devpilotLocalConversation.ts), and the side of  *)
(* the desktop server they can see (src/desktop_runtime/handlers.py,       *)
(* src/sdk/conversations.py).                                              *)
(*                                                                         *)
(* The store is one object that every asynchronous function patches when   *)
(* its next answer comes, so a step ends at an await.  The server answers  *)
(* the requests one at a time and in order, and pushes events; an answer   *)
(* and an event can overtake each other on their way through the main      *)
(* process, two events cannot.  Every request but those to the main        *)
(* process has a timeout that gives up the answer, not the request.        *)
(*                                                                         *)
(* Left out: models, titles, pinning, the review's contents, the activity  *)
(* list, and the events of a run that only show what it is doing, which    *)
(* change the same fields as its coordinator.started.                      *)
(***************************************************************************)
EXTENDS Naturals, Sequences

CONSTANTS
  Projects,   \* projects the server knows
  Convs,      \* conversation ids
  ProjectOf,  \* the project of each conversation
  Calls,      \* what the user does with the window, each once
  Boot,       \* the initialization, which may be run again
  None        \* nothing selected, no conversation, no answer

Tasks == Calls \cup {Boot}

\* status.ts: the groups of the sidebar.
Groups == {"recent", "working", "attention"}

ASSUME StoreAssumption ==
  /\ ProjectOf \in [Convs -> Projects]
  /\ Boot \notin Calls
  /\ None \notin Projects \cup Convs \cup Tasks \cup Groups

VARIABLES
  ready,     \* runtime events: "no" listener, "loading", initialized: "yes"
  view,      \* state.conversations, by the group of each record's state
  shown,     \* state.messagesByConversation
  sel,       \* selectedProjectId and selectedConversationId
  spin,      \* loading: "lists" (projects and conversations), "conversation"
  task,      \* where each asynchronous function stands
  answer,    \* the answer that is on its way to it
  requests,  \* what the server has still to answer
  events,    \* what the server has emitted and the window not yet applied
  actual,    \* the server's records
  log        \* the server's transcripts

client == <<ready, view, shown, sel, spin, task, answer>>
server == <<events, actual, log>>
vars == <<client, requests, server>>

-----------------------------------------------------------------------------
\* The server's states; "ended" is idle, completed, cancelled or interrupted,
\* and the state "resuming" is a "starting".
States == {"ended", "starting", "working", "cancelling", "failed"}
Active == {"starting", "working", "cancelling"}

\* status.ts
GroupOf(state) ==
  CASE state = "ended"  -> "recent"
    [] state = "failed" -> "attention"
    [] OTHER            -> "working"

\* A message is who wrote it and the call that sent it or that it answers;
\* "pending" is the window's own copy.  The turn of no run is Boot.
Message == [by : {"user", "reply", "pending"}, of : Tasks]
Said(by, k) == [by |-> by, of |-> k]

Selection == [project : Projects \cup {None}, conv : Convs \cup {None}]
At(c) == [project |-> ProjectOf[c], conv |-> c]
Nowhere(p) == [project |-> p, conv |-> None]

Record == [state : States, turn : Tasks]

\* records: what an answer says of each conversation, None if nothing.
Answer == [records : [Convs -> Groups \cup {None}], said : SUBSET Message]
About(c, state) == [d \in Convs |-> IF d = c THEN GroupOf(state) ELSE None]

Ops == {"list", "open", "create", "send", "reopen", "cancel"}
Request == [by : Tasks, op : Ops, project : Projects \cup {None},
            conv : Convs \cup {None}, awaited : BOOLEAN]
Event == [conv : Convs, group : Groups, said : SUBSET Message]

\* pc: an operation whose answer it awaits; "ensure", the initialization;
\* "savefolder", "saveopen", "savenew", the main process's write; "review",
\* the changes; "go", initialized; "act", about to send or to cancel.
Task == [op : {"none", "boot", "select", "submit", "abort", "project",
               "folder", "refresh"},
         pc : Ops \cup {"none", "ensure", "savefolder", "saveopen", "savenew",
                        "review", "go", "act"},
         \* the session or the folder it was called for
         for : Selection,
         \* state.selected* when sendDevPilotConversationMessage read it
         typed : Selection,
         \* the conversation a send or cancel is for
         conv : Convs \cup {None}]

Idle == [op |-> "none", pc |-> "none", for |-> Nowhere(None),
         typed |-> Nowhere(None), conv |-> None]

Init ==
  /\ ready = "no"
  /\ view = [c \in Convs |-> None]
  /\ shown = [c \in Convs |-> {}]
  /\ sel = Nowhere(None)
  /\ spin = {}
  /\ task = [k \in Tasks |-> Idle]
  /\ answer = [k \in Tasks |-> None]
  /\ requests = << >>
  /\ events = << >>
  /\ actual \in [Convs -> {None, [state |-> "ended", turn |-> Boot]}]
  /\ log = [c \in Convs |-> {}]

-----------------------------------------------------------------------------
(* What the functions of the store have in common *)

\* mergeConversations
Merged(records) ==
  [c \in Convs |-> IF records[c] = None THEN view[c] ELSE records[c]]

\* Seeded fault: one list of messages for the conversation that is selected.
FaultyWithMessages(c, said) ==
  [shown EXCEPT ![IF sel.conv = None THEN c ELSE sel.conv] = said]

\* setConversationMessages
WithMessages(c, said) == [shown EXCEPT ![c] = said]

\* Where k's request stands in the queue.
Awaited(k) == {i \in DOMAIN requests : requests[i].by = k /\ requests[i].awaited}

\* Sends a request and waits for its answer.
Ask(k, op, project, conv, t) ==
  /\ requests' = Append(requests, [by |-> k, op |-> op, project |-> project,
                                   conv |-> conv, awaited |-> TRUE])
  /\ task' = [task EXCEPT ![k] = [t EXCEPT !.pc = op]]

\* k goes on with an answer ...
Answered(k, op) ==
  /\ task[k].pc = op
  /\ answer[k] # None
  /\ answer' = [answer EXCEPT ![k] = None]

\* ... or without one: it was refused, or withDevPilotTimeout lost patience,
\* with the request under way (it stays, unless nothing would come of it) or
\* with its answer.
Unanswered(k, ops) ==
  /\ task[k].pc \in ops
  /\ answer' = [answer EXCEPT ![k] = None]
  /\ \/ \E i \in Awaited(k) :
          requests' = SubSeq(requests, 1, i - 1)
                        \o SubSeq(requests, i + 1, Len(requests))
     \/ \E i \in Awaited(k) :
          /\ requests[i].op \in {"create", "send", "cancel"}
          /\ requests' = [requests EXCEPT ![i].awaited = FALSE]
     \/ /\ Awaited(k) = {}
        /\ UNCHANGED requests

\* The promise of k is settled; those that awaited the initialization go on.
Settled(k, t) ==
  [j \in Tasks |-> IF j = k THEN [t EXCEPT !.pc = "none", !.for = Nowhere(None)]
                   ELSE IF k = Boot /\ task[j].pc = "ensure"
                     THEN [task[j] EXCEPT !.pc = "go"]
                   ELSE task[j]]

\* The part of selectDevPilotConversation before its await, of a known c.
Selects(k, c) ==
  /\ sel' = At(c)
  /\ spin' = spin \cup {"conversation"}
  /\ Ask(k, "open", ProjectOf[c], c, task[k])

-----------------------------------------------------------------------------
(* ensureDevPilotDesktopInitialized *)

Initialized == ready = "yes" /\ "lists" \notin spin

\* t: the tasks as they are when the initialization begins.
Boots(t) ==
  /\ ~Initialized /\ task[Boot].pc = "none"
  /\ ready' = IF ready = "no" THEN "loading" ELSE ready
  /\ spin' = spin \cup {"lists"}
  /\ requests' = Append(requests, [by |-> Boot, op |-> "list", project |-> None,
                                   conv |-> None, awaited |-> TRUE])
  /\ task' = [t EXCEPT ![Boot] = [Idle EXCEPT !.op = "boot", !.pc = "list"]]
  /\ UNCHANGED <<view, shown, sel, answer, server>>

\* A component that needs the store is mounted.
Mount == Boots(task)

\* resolveInitialSelection: what the main process's file says, if it was listed,
\* or the first project, or nothing when there is no project.
InitialSelections(records) ==
  LET listed == {c \in Convs : records[c] # None} IN
  {At(c) : c \in listed} \cup {Nowhere(p) : p \in Projects}
    \cup (IF listed = {} THEN {Nowhere(None)} ELSE {})

Booted ==
  /\ Answered(Boot, "list") /\ task[Boot].op = "boot"
  /\ LET records == answer[Boot].records IN
       /\ view' = Merged(records)
       /\ ready' = "yes"
       /\ \E s \in InitialSelections(records) :
            IF s.conv # None
              THEN /\ sel' = s
                   /\ spin' = (spin \ {"lists"}) \cup {"conversation"}
                   /\ Ask(Boot, "open", s.project, s.conv,
                          [task[Boot] EXCEPT !.for = s])
            ELSE /\ sel' = s
                 /\ spin' = spin \ {"lists"}
                 /\ task' = Settled(Boot, task[Boot])
                 /\ UNCHANGED requests
  /\ UNCHANGED <<shown, server>>

\* project.list fails, for the initialization, the refresh and the folder (of
\* which the last request may be the file's).
ListFails(k) ==
  /\ Unanswered(k, {"list", "savefolder"})
  /\ ready' = IF k = Boot THEN "yes" ELSE ready
  /\ spin' = spin \ {"lists"}
  /\ task' = Settled(k, task[k])
  /\ UNCHANGED <<view, shown, sel, server>>

-----------------------------------------------------------------------------
(* Projects *)

\* refreshDevPilotProjectsAndConversations
Refresh(k) ==
  /\ task[k].op = "none"
  /\ ready # "no"
  /\ spin' = spin \cup {"lists"}
  /\ Ask(k, "list", None, None, [Idle EXCEPT !.op = "refresh"])
  /\ UNCHANGED <<ready, view, shown, sel, answer, server>>

Refreshed(k) ==
  /\ Answered(k, "list") /\ task[k].op = "refresh"
  /\ view' = Merged(answer[k].records)
  /\ spin' = spin \ {"lists"}
  /\ task' = Settled(k, task[k])
  /\ UNCHANGED <<ready, shown, sel, requests, server>>

\* openDevPilotProjectFolder, when the folder is chosen: project.open and
\* conversation.list count as one request.
OpenFolder(k, p) ==
  /\ task[k].op = "none"
  /\ ready # "no"
  /\ spin' = spin \cup {"lists"}
  /\ Ask(k, "list", p, None, [Idle EXCEPT !.op = "folder", !.for = Nowhere(p)])
  /\ UNCHANGED <<ready, view, shown, sel, answer, server>>

FolderListed(k) ==
  /\ task[k].pc = "list" /\ task[k].op = "folder"
  /\ answer[k] # None
  /\ task' = [task EXCEPT ![k].pc = "savefolder"]
  /\ UNCHANGED <<ready, view, shown, sel, spin, answer, requests, server>>

FolderOpened(k) ==
  /\ Answered(k, "savefolder")
  /\ view' = Merged(answer[k].records)
  /\ sel' = task[k].for
  /\ spin' = spin \ {"lists"}
  /\ task' = Settled(k, task[k])
  /\ UNCHANGED <<ready, shown, requests, server>>

\* Seeded fault: the conversation stays selected.
FaultySelectProject(k, p) ==
  /\ task[k].op = "none"
  /\ ready # "no"
  /\ task' = [task EXCEPT ![k].op = "project"]
  /\ sel' = [sel EXCEPT !.project = p]
  /\ UNCHANGED <<ready, view, shown, spin, answer, requests, server>>

SelectProject(k, p) ==
  /\ task[k].op = "none"
  /\ ready # "no"
  /\ task' = [task EXCEPT ![k].op = "project"]
  /\ sel' = Nowhere(p)
  /\ UNCHANGED <<ready, view, shown, spin, answer, requests, server>>

-----------------------------------------------------------------------------
(* A session view selects its conversation, submits a message, aborts *)

\* c is None for the view of a conversation that is not made yet.
Call(k, op, c) ==
  /\ task[k].op = "none"
  /\ c = None => op = "submit"
  /\ LET t == [Idle EXCEPT !.op = op, !.for = [Nowhere(None) EXCEPT !.conv = c]]
     IN \/ /\ Initialized
           /\ task' = [task EXCEPT ![k] = [t EXCEPT !.pc = "go"]]
           /\ UNCHANGED <<ready, view, shown, sel, spin, answer,
                          requests, server>>
        \/ /\ ~Initialized /\ task[Boot].pc # "none"
           /\ task' = [task EXCEPT ![k] = [t EXCEPT !.pc = "ensure"]]
           /\ UNCHANGED <<ready, view, shown, sel, spin, answer,
                          requests, server>>
        \/ Boots([task EXCEPT ![k] = [t EXCEPT !.pc = "ensure"]])

\* Initialized: the conversation is selected, unless it is unknown or, to
\* submit or abort, selected already.
Go(k) ==
  /\ task[k].pc = "go"
  /\ LET c == task[k].for.conv IN
       IF /\ c # None /\ view[c] # None
          /\ task[k].op = "select" \/ sel.conv # c
         THEN Selects(k, c)
         ELSE /\ task' = IF task[k].op = "select" THEN Settled(k, task[k])
                         ELSE [task EXCEPT ![k].pc = "act"]
              /\ UNCHANGED <<sel, spin, requests>>
  /\ UNCHANGED <<ready, view, shown, answer, server>>

Opened(k) ==
  /\ task[k].pc = "open"
  /\ answer[k] # None
  /\ task' = [task EXCEPT ![k].pc = "saveopen"]
  /\ UNCHANGED <<ready, view, shown, sel, spin, answer, requests, server>>

\* The selection is saved: the answer is shown, and selected once more.
Shown(k) ==
  /\ Answered(k, "saveopen")
  /\ LET c == task[k].for.conv IN
       /\ view' = Merged(answer[k].records)
       /\ shown' = WithMessages(c, answer[k].said)
       /\ sel' = At(c)
  /\ spin' = spin \ {"conversation"}
  /\ task' = [task EXCEPT ![k].pc = "review"]
  /\ UNCHANGED <<ready, requests, server>>

\* selectDevPilotConversation returns, whatever has become of it.
AfterSelect(k) ==
  IF task[k].op \in {"submit", "abort"} THEN [task EXCEPT ![k].pc = "act"]
                                        ELSE Settled(k, task[k])

\* Seeded fault: the loading flag is reset on success only.
FaultyOpenFails(k) ==
  /\ Unanswered(k, {"open", "saveopen"})
  /\ task' = AfterSelect(k)
  /\ UNCHANGED <<ready, view, shown, sel, spin, server>>

OpenFails(k) ==
  /\ Unanswered(k, {"open", "saveopen"})
  /\ spin' = spin \ {"conversation"}
  /\ task' = AfterSelect(k)
  /\ UNCHANGED <<ready, view, shown, sel, server>>

Reviewed(k) ==
  /\ task[k].pc = "review"
  /\ task' = AfterSelect(k)
  /\ UNCHANGED <<ready, view, shown, sel, spin, answer, requests,
                 server>>

-----------------------------------------------------------------------------
(* sendDevPilotConversationMessage *)

\* The user's own copy of the message, and the request.
Sends(k, c, t, records) ==
  /\ shown' = [shown EXCEPT ![c] = @ \cup {Said("pending", k)}]
  /\ view' = [records EXCEPT ![c] = GroupOf("starting")]
  /\ Ask(k, "send", ProjectOf[c], c, [t EXCEPT !.conv = c])

BeginSend(k) ==
  /\ task[k].pc = "act" /\ task[k].op = "submit"
  /\ LET t == [task[k] EXCEPT !.typed = sel] IN
       IF sel.project = None
         THEN /\ task' = Settled(k, t)
              /\ UNCHANGED <<view, shown, requests>>
       ELSE IF sel.conv # None /\ view[sel.conv] # None
         THEN Sends(k, sel.conv, t, view)
       ELSE /\ Ask(k, "create", sel.project, None, t)
            /\ UNCHANGED <<view, shown>>
  /\ UNCHANGED <<ready, sel, spin, answer, server>>

Created(k) ==
  /\ Answered(k, "create")
  /\ view' = Merged(answer[k].records)
  /\ \E c \in Convs :
       /\ answer[k].records[c] # None
       /\ sel' = At(c)
       /\ task' = [task EXCEPT ![k].pc = "savenew", ![k].conv = c]
  /\ UNCHANGED <<ready, shown, spin, requests, server>>

\* Seeded fault: the conversation is read from the store again.
FaultySendToCreated(k) ==
  /\ task[k].pc = "savenew"
  /\ sel.conv # None
  /\ Sends(k, sel.conv, task[k], view)
  /\ UNCHANGED <<ready, sel, spin, answer, server>>

\* A failure to save the selection is ignored.
SendToCreated(k) ==
  /\ task[k].pc = "savenew"
  /\ Sends(k, task[k].conv, task[k], view)
  /\ UNCHANGED <<ready, sel, spin, answer, server>>

\* The message was accepted: its conversation is opened again.
Sent(k) ==
  /\ Answered(k, "send")
  /\ Ask(k, "reopen", ProjectOf[task[k].conv], task[k].conv, task[k])
  /\ UNCHANGED <<ready, view, shown, sel, spin, server>>

Reopened(k) ==
  /\ Answered(k, "reopen")
  /\ LET c == task[k].conv IN
       /\ view' = Merged(answer[k].records)
       /\ shown' = WithMessages(c, answer[k].said)
       /\ sel' = At(c)
  /\ task' = Settled(k, task[k])
  /\ UNCHANGED <<ready, spin, requests, server>>

\* The error is shown; the copy of the message and "starting" stay.
SendFails(k) ==
  /\ Unanswered(k, {"create", "send", "reopen"})
  /\ task' = Settled(k, task[k])
  /\ UNCHANGED <<ready, view, shown, sel, spin, server>>

-----------------------------------------------------------------------------
(* cancelSelectedDevPilotConversation *)

BeginCancel(k) ==
  /\ task[k].pc = "act" /\ task[k].op = "abort"
  /\ IF sel.conv # None /\ view[sel.conv] # None
       THEN Ask(k, "cancel", ProjectOf[sel.conv], sel.conv,
                [task[k] EXCEPT !.conv = sel.conv])
       ELSE task' = Settled(k, task[k]) /\ UNCHANGED requests
  /\ UNCHANGED <<ready, view, shown, sel, spin, answer, server>>

Cancelled(k) ==
  /\ Answered(k, "cancel")
  /\ view' = Merged(answer[k].records)
  /\ task' = Settled(k, task[k])
  /\ UNCHANGED <<ready, shown, sel, spin, requests, server>>

CancelFails(k) ==
  /\ Unanswered(k, {"cancel"})
  /\ task' = Settled(k, task[k])
  /\ UNCHANGED <<ready, view, shown, sel, spin, server>>

-----------------------------------------------------------------------------
(* Events *)

\* stateForRuntimeEvent: an event without a record in it has one made up, so
\* that every event sets the state that is shown, most of them to "idle".
\* Before the first initialization nobody listens.
Deliver ==
  /\ events # << >>
  /\ events' = Tail(events)
  /\ LET e == Head(events) IN
       IF ready = "no" THEN UNCHANGED <<view, shown>>
       ELSE /\ view' = [view EXCEPT ![e.conv] = e.group]
            /\ shown' = [shown EXCEPT ![e.conv] = @ \cup e.said]
  /\ UNCHANGED <<ready, sel, spin, task, answer, requests, actual, log>>

-----------------------------------------------------------------------------
(* The server: one request at a time *)

Asked(op) == requests # << >> /\ Head(requests).op = op

\* The answer sets out, if it is still awaited.
Replies(records, said) ==
  /\ requests' = Tail(requests)
  /\ answer' = IF Head(requests).awaited
                 THEN [answer EXCEPT ![Head(requests).by] =
                         [records |-> records, said |-> said]]
               ELSE answer

\* What one step of the server emits counts as one event.  It is shown as the
\* last of them leaves it: one without a record in it shows "idle".
Emits(c, state, said) ==
  events' = Append(events, [conv |-> c, group |-> GroupOf(state), said |-> said])

Known(c) == actual[c] # None

\* The conversations of one project or of all; listing the conversations of a
\* project may fail and counts as none.
ServeList ==
  /\ Asked("list")
  /\ \E ps \in SUBSET Projects :
       /\ Head(requests).project # None => ps = {Head(requests).project}
       /\ Replies([c \in Convs |-> IF Known(c) /\ ProjectOf[c] \in ps
                                    THEN GroupOf(actual[c].state) ELSE None], {})
  /\ UNCHANGED <<ready, view, shown, sel, spin, task, server>>

ServeOpen ==
  /\ Asked("open") \/ Asked("reopen")
  /\ LET c == Head(requests).conv IN
       Replies(About(c, actual[c].state), log[c])
  /\ UNCHANGED <<ready, view, shown, sel, spin, task, server>>

ServeCreate(c) ==
  /\ Asked("create")
  /\ ~Known(c) /\ ProjectOf[c] = Head(requests).project
  /\ Replies(About(c, "ended"), {})
  /\ actual' = [actual EXCEPT ![c] = [state |-> "ended", turn |-> Boot]]
  /\ Emits(c, "ended", {})
  /\ UNCHANGED <<ready, view, shown, sel, spin, task, log>>

\* DevPilotConversation.send
ServeSend ==
  /\ Asked("send")
  /\ LET c == Head(requests).conv
         k == Head(requests).by
     IN /\ actual[c].state \notin Active
        /\ log' = [log EXCEPT ![c] = @ \cup {Said("user", k)}]
        /\ actual' = [actual EXCEPT ![c] = [state |-> "starting", turn |-> k]]
        /\ Emits(c, "starting", {Said("user", k)})
  /\ Replies([c \in Convs |-> None], {})
  /\ UNCHANGED <<ready, view, shown, sel, spin, task>>

\* DevPilotConversation.cancel of a run that has its runtime: the request is
\* answered when the run has ended, or at once when the coordinator is done
\* and only the record lags behind.
ServeCancel ==
  /\ Asked("cancel")
  /\ LET c == Head(requests).conv IN
       /\ Known(c) /\ actual[c].state = "working"
       /\ actual' = [actual EXCEPT ![c].state = "cancelling"]
       /\ Emits(c, "cancelling", {})
       /\ \/ UNCHANGED <<requests, answer>>
          \/ Replies(About(c, "cancelling"), {})
  /\ UNCHANGED <<ready, view, shown, sel, spin, task, log>>

\* The run has ended, there is none, or it has no runtime yet.
ServeCancelled ==
  /\ Asked("cancel")
  /\ LET c == Head(requests).conv IN
       /\ actual[c].state \notin {"working", "cancelling"}
       /\ Replies(About(c, actual[c].state), {})
  /\ UNCHANGED <<ready, view, shown, sel, spin, task, server>>

-----------------------------------------------------------------------------
(* The server: a run *)

RunBegins(c) ==
  /\ Known(c) /\ actual[c].state = "starting"
  /\ actual' = [actual EXCEPT ![c].state = "working"]
  /\ Emits(c, "ended", {})
  /\ UNCHANGED <<client, requests, log>>

RunCompletes(c) ==
  /\ Known(c) /\ actual[c].state \in {"working", "cancelling"}
  /\ LET reply == Said("reply", actual[c].turn) IN
       /\ log' = [log EXCEPT ![c] = @ \cup {reply}]
       /\ Emits(c, "ended", {reply})
  /\ actual' = [actual EXCEPT ![c] = [state |-> "ended", turn |-> Boot]]
  /\ UNCHANGED <<client, requests>>

RunEnds(c, state) ==
  /\ Known(c)
  /\ \/ state = "failed" /\ actual[c].state \in Active
     \/ state = "ended" /\ actual[c].state = "cancelling"
  /\ actual' = [actual EXCEPT ![c] = [state |-> state, turn |-> Boot]]
  /\ Emits(c, "ended", {})
  /\ UNCHANGED <<client, requests, log>>

-----------------------------------------------------------------------------
\* What a task does when it is its turn: an answer, a failure or a timer.
Steps(k) ==
  \/ Refreshed(k) \/ FolderListed(k) \/ FolderOpened(k) \/ ListFails(k)
  \/ Go(k) \/ Opened(k) \/ Shown(k) \/ OpenFails(k) \/ Reviewed(k)
  \/ BeginSend(k) \/ Created(k) \/ SendToCreated(k) \/ Sent(k) \/ Reopened(k)
  \/ SendFails(k)
  \/ BeginCancel(k) \/ Cancelled(k) \/ CancelFails(k)

User ==
  \/ Mount
  \/ \E k \in Calls :
       \/ Refresh(k)
       \/ \E p \in Projects : SelectProject(k, p) \/ OpenFolder(k, p)
       \/ \E op \in {"select", "submit", "abort"}, c \in Convs \cup {None} :
            Call(k, op, c)

Server ==
  \/ ServeList \/ ServeOpen \/ ServeSend \/ ServeCancel \/ ServeCancelled
  \/ \E c \in Convs :
       \/ ServeCreate(c) \/ RunBegins(c) \/ RunCompletes(c)
       \/ \E state \in {"failed", "ended"} : RunEnds(c, state)

Next == User \/ Booted \/ (\E k \in Tasks : Steps(k)) \/ Deliver \/ Server

Spec == Init /\ [][Next]_vars

-----------------------------------------------------------------------------
(* Properties *)

\* The store's fields and the server's state have the form the code gives them.
TypeOK ==
  /\ ready \in {"no", "loading", "yes"}
  /\ view \in [Convs -> Groups \cup {None}]
  /\ shown \in [Convs -> SUBSET Message]
  /\ sel \in Selection
  /\ spin \subseteq {"lists", "conversation"}
  /\ task \in [Tasks -> Task]
  /\ answer \in [Tasks -> Answer \cup {None}]
  /\ requests \in Seq(Request)
  /\ events \in Seq(Event)
  /\ actual \in [Convs -> Record \cup {None}]
  /\ log \in [Convs -> SUBSET Message]

\* However late an answer comes and whatever the user selected meanwhile, the
\* selected conversation is one the store has a record of, and the selected
\* project is its project.
SelectedTogether ==
  sel.conv # None => view[sel.conv] # None /\ sel.project = ProjectOf[sel.conv]

\* A message the server recorded is in the conversation that was selected when
\* the send began or, if none was, in one made in the project selected then,
\* whatever was selected while the conversation was being created.
SentWhereSelected ==
  \A c \in Convs, k \in Calls :
    Said("user", k) \in log[c] =>
      \/ task[k].typed.conv = c
      \/ task[k].typed.conv = None /\ task[k].typed.project = ProjectOf[c]

\* A message that is shown under a conversation belongs to it: the server has
\* it there, or it is the copy of one that is being sent there.
ShownWhereSaid ==
  \A c \in Convs : \A m \in shown[c] :
    IF m.by = "pending" THEN task[m.of].conv = c ELSE m \in log[c]

\* A loading flag that is set will be reset, whatever fails or is never
\* answered: somebody is still waiting for what it stands for.
SpinnersAreTrue ==
  /\ "lists" \in spin => \E k \in Tasks : task[k].pc \in {"list", "savefolder"}
  /\ "conversation" \in spin => \E k \in Tasks : task[k].pc \in {"open", "saveopen"}
=============================================================================
