------------------------ MODULE ConversationContract ------------------------
(***************************************************************************)
(* What the conversation store promises its clients, whatever files and    *)
(* tasks it uses: the state it reports of each conversation.  A run is     *)
(* active until it settles; only the end of the process interrupts one;    *)
(* nothing is active when a process starts, and nothing becomes active but *)
(* by a message a client sends.                                            *)
(***************************************************************************)
CONSTANTS Convs

VARIABLES
  alive,   \* the process accepts calls
  status   \* what each conversation is reported to be

Settled == {"completed", "cancelled", "failed"}
Status == {"absent", "idle", "active", "interrupted"} \cup Settled

Init ==
  /\ alive = TRUE
  /\ status = [c \in Convs |-> "absent"]

Create(c) ==
  /\ alive
  /\ status[c] = "absent"
  /\ status' = [status EXCEPT ![c] = "idle"]
  /\ UNCHANGED alive

Start(c) ==
  /\ alive
  /\ status[c] \notin {"absent", "active"}
  /\ status' = [status EXCEPT ![c] = "active"]
  /\ UNCHANGED alive

Settle(c) ==
  /\ status[c] = "active"
  /\ \E s \in Settled : status' = [status EXCEPT ![c] = s]
  /\ UNCHANGED alive

\* The process stops or dies.  It may have been about to settle an active
\* run or to start a new one.
Stop ==
  /\ alive' = FALSE
  /\ status' \in [Convs -> Status]
  /\ \A c \in Convs :
       \/ status'[c] = status[c]
       \/ status[c] = "active" /\ status'[c] \in Settled
       \/ status[c] # "absent" /\ status'[c] = "interrupted"

Restart ==
  /\ ~alive
  /\ \A c \in Convs : status[c] # "active"
  /\ alive' = TRUE
  /\ UNCHANGED status

Next ==
  \/ \E c \in Convs : Create(c) \/ Start(c) \/ Settle(c)
  \/ Stop
  \/ Restart

Spec == Init /\ [][Next]_<<alive, status>>
=============================================================================
