--------------------------- MODULE MessageHistory ---------------------------
(***************************************************************************)
(* The message history of the coordinator: the agent loop that extends it  *)
(* (src/src/core/agent.py), the compaction that shortens it                *)
(* (src/src/core/context.py), the checkpoint that saves it and the resume  *)
(* that replays it (src/src/coordinator/checkpoint.py, orchestrator.py),   *)
(* and the follow-up of a desktop conversation (src/src/sdk/               *)
(* conversations.py), which writes into the saved file.                    *)
(*                                                                         *)
(* A provider refuses a history in which a tool call has no result right   *)
(* after it, or a result no call.  The tool calls of a turn are one call   *)
(* here: the loop executes all of them before it appends all results as    *)
(* one message.  A step ends where the coroutine awaits; "top" is the head *)
(* of the loop, where only the death of the process can come in between.   *)
(* A cancelled run saves no messages, so it is a death as well.            *)
(***************************************************************************)
EXTENDS Naturals, Sequences

CONSTANTS
  MaxTurns,       \* config.max_turns
  KeepRecent,     \* config.compact_keep_recent
  LlmAttempts,    \* config.llm_retry_attempts
  RecoveryLimit,  \* continuations of a cut-off output in a row (3)
  NudgeLimit,     \* nudges of a premature stop in a row (3)
  NativeCalls,    \* the provider keeps calls in its own format
  MaxCalls,       \* bound: turns that call tools
  MaxStarts,      \* bound: processes started on this history
  MaxNotes        \* bound: messages the user sends to a running agent

ASSUME HistoryAssumption ==
  /\ MaxTurns \in Nat \ {0}
  /\ KeepRecent \in Nat
  /\ LlmAttempts \in Nat \ {0}
  /\ {RecoveryLimit, NudgeLimit, MaxCalls, MaxStarts, MaxNotes} \subseteq Nat
  /\ NativeCalls \in BOOLEAN

VARIABLES
  at,        \* where the run stands
  messages,  \* agent.messages
  saved,     \* messages.jsonl
  run,       \* the counters of the loop
  started,   \* idea_tree.json exists: the next run is a resume
  calls,     \* tool-calling turns so far, the last one's id
  starts,    \* processes so far
  notes,     \* user notes so far
  ran,       \* history: calls whose results reached the history
  gone,      \* history: those compaction has removed from it
  lost       \* history: those a process died with

vars == <<at, messages, saved, run, started, calls, starts, notes, ran, gone, lost>>

history == <<ran, gone, lost>>

-----------------------------------------------------------------------------
(* Messages *)

\* What is special about a message: output cut off by the token limit, what
\* was before it removed, a follow-up from the desktop, a resume nudge.
Mark == {"cut", "seam", "followUp", "nudge"}

Message == [role : {"user", "assistant"}, call : Nat, answer : Nat,
            marks : SUBSET Mark]

User(marks) == [role |-> "user", call |-> 0, answer |-> 0, marks |-> marks]
Results(c) == [role |-> "user", call |-> 0, answer |-> c, marks |-> {}]
Assistant(c, marks) ==
  [role |-> "assistant", call |-> c, answer |-> 0, marks |-> marks]

Answers(ms) == {ms[i].answer : i \in DOMAIN ms} \ {0}

Last(ms) == ms[Len(ms)]

WithMark(ms, i, mark) == [ms EXCEPT ![i].marks = @ \cup {mark}]

Answered(ms, i) == i < Len(ms) /\ ms[i + 1].answer = ms[i].call
Called(ms, i) == i > 1 /\ ms[i - 1].call = ms[i].answer

-----------------------------------------------------------------------------
(* Compaction *)

\* messages[-n:], with what it no longer follows marked; messages[-0:] is all.
Recent(ms, n) ==
  LET from == IF n \in 1 .. Len(ms) THEN Len(ms) - n + 1 ELSE 1
  IN WithMark(SubSeq(ms, from, Len(ms)), 1, "seam")

\* _summarize_old_messages: the summary with its acknowledgement, and the
\* recent messages; when the summary fails, the newer half.
Summarized(ms) ==
  <<User({}), Assistant(0, {})>> \o Recent(ms, KeepRecent)

NewerHalf(ms) == Recent(ms, Len(ms) - Len(ms) \div 2)

\* The emergency truncation of maybe_compact.
Truncated(ms) ==
  SubSeq(ms, 1, IF Len(ms) < 2 THEN Len(ms) ELSE 2)
    \o Recent(ms, KeepRecent \div 2)

\* Layer 4 returns a history this short as it is, without asking the model.
TooShort(ms) == Len(ms) <= KeepRecent

-----------------------------------------------------------------------------
(* Resuming *)

\* Seeded fault: no seal.
FaultySealed(ms) == ms

\* seal_interrupted_tail knows calls as tool_use blocks, not as the
\* function_call items of the Responses API.
Sealed(ms) ==
  IF Last(ms).call # 0 /\ ~NativeCalls
    THEN Append(ms, Results(Last(ms).call)) ELSE ms

\* Seeded fault: the nudge is only ever folded in.
FaultyNudgedTail(ms) ==
  IF Last(ms).role = "user" THEN WithMark(ms, Len(ms), "nudge") ELSE ms

\* _append_resume_nudge: folded into a trailing user turn.
Nudged(ms) ==
  IF Last(ms).role = "user" THEN WithMark(ms, Len(ms), "nudge")
                            ELSE Append(ms, User({"nudge"}))

-----------------------------------------------------------------------------
NoRun == [turn |-> 0, attempt |-> 0, nudges |-> 0, recoveries |-> 0]

Init ==
  /\ at = "down"
  /\ messages = << >>
  /\ saved = << >>
  /\ run = NoRun
  /\ started = FALSE
  /\ calls = 0
  /\ starts = 0
  /\ notes = 0
  /\ ran = {}
  /\ gone = {}
  /\ lost = {}

\* A process begins the loop with this history.
Begin(ms) ==
  /\ at' = "top"
  /\ messages' = ms
  /\ run' = [NoRun EXCEPT !.turn = 1]
  /\ starts' = IF at = "down" THEN starts + 1 ELSE starts

\* A fresh run: refused where a tree exists, and it creates one.
Start ==
  /\ at = "down" /\ starts < MaxStarts
  /\ ~started
  /\ started' = TRUE
  /\ Begin(<<User({})>>)
  /\ UNCHANGED <<saved, calls, notes, history>>

\* The desktop appends the message of a follow-up run to the saved history,
\* whatever that ends with, before it resumes it.
FollowUp ==
  /\ at = "down" /\ starts < MaxStarts
  /\ started
  /\ saved' = Append(saved, User({"followUp"}))
  /\ at' = "opened"
  /\ starts' = starts + 1
  /\ UNCHANGED <<messages, run, started, calls, notes, history>>

\* CoordinatorOrchestrator.run with resume: replay, seal, nudge; without a
\* saved history the initial prompt.
Resume ==
  /\ \/ at = "opened"
     \/ at = "down" /\ starts < MaxStarts
  /\ started
  /\ Begin(IF saved = << >> THEN <<User({})>> ELSE Nudged(Sealed(saved)))
  /\ gone' = gone \ Answers(saved)
  /\ UNCHANGED <<saved, started, calls, notes, ran, lost>>

-----------------------------------------------------------------------------
(* The head of a turn *)

\* Seeded fault: the history is saved when the run ends, not at each turn.
FaultyAskModel(ms) ==
  /\ at' = "model"
  /\ messages' = ms
  /\ run' = [run EXCEPT !.attempt = 1]
  /\ gone' = gone \cup (Answers(messages) \ Answers(ms))
  /\ UNCHANGED saved

\* The checkpoint hook saves what the model is then asked with.
AskModel(ms) ==
  /\ at' = "model"
  /\ messages' = ms
  /\ saved' = ms
  /\ run' = [run EXCEPT !.attempt = 1]
  /\ gone' = gone \cup (Answers(messages) \ Answers(ms))

\* Notes of the user are appended; then the history is small enough, or is
\* once tool results are shortened (layers 1 to 3, which keep every block), or
\* it is summarised, or it is too short for that and truncated.
BeginTurn ==
  /\ at = "top"
  /\ \E noted \in BOOLEAN :
       LET ms == IF noted THEN Append(messages, User({})) ELSE messages
       IN /\ noted => notes < MaxNotes
          /\ notes' = IF noted THEN notes + 1 ELSE notes
          /\ \/ AskModel(ms)
             \/ TooShort(ms) /\ AskModel(Truncated(ms))
             \/ /\ ~TooShort(ms)
                /\ at' = "summarizing"
                /\ messages' = ms
                /\ UNCHANGED <<saved, run, gone>>
  /\ UNCHANGED <<started, calls, starts, ran, lost>>

Compacted == {Summarized(messages), NewerHalf(messages)}

\* The summary of a turn's head came or failed; it may still be too long.
SummaryDone ==
  /\ at = "summarizing" /\ run.attempt = 0
  /\ \E ms \in Compacted : AskModel(ms) \/ AskModel(Truncated(ms))
  /\ UNCHANGED <<started, calls, starts, notes, ran, lost>>

-----------------------------------------------------------------------------
(* The model's answer *)

\* The loop goes on with the next turn, or has had its last.
NextTurn(r) ==
  /\ at' = IF run.turn < MaxTurns THEN "top" ELSE "returned"
  /\ run' = [r EXCEPT !.turn = IF @ < MaxTurns THEN @ + 1 ELSE @,
                      !.attempt = 0]

\* An output may call tools.
MayCall(c) == c \in {0, calls + 1} /\ c <= MaxCalls

\* Cut off by the token limit: the model is asked to go on, calls in the
\* output are not executed.
CutOff ==
  /\ at = "model" /\ run.recoveries < RecoveryLimit
  /\ \E c \in {0, calls + 1} :
       /\ MayCall(c)
       /\ messages' = messages \o <<Assistant(c, {"cut"}), User({})>>
       /\ calls' = IF c = 0 THEN calls ELSE c
  /\ NextTurn([run EXCEPT !.recoveries = @ + 1])
  /\ UNCHANGED <<saved, started, starts, notes, history>>

\* The counter of cut-offs in a row, for an output that is one beyond the
\* limit or is none.
Recoveries == {0} \cup {r \in {run.recoveries} : r >= RecoveryLimit}

CallTools ==
  /\ at = "model" /\ MayCall(calls + 1)
  /\ messages' = Append(messages, Assistant(calls + 1, {}))
  /\ calls' = calls + 1
  /\ at' = "tools"
  /\ \E r \in Recoveries :
       run' = [run EXCEPT !.recoveries = r, !.nudges = 0]
  /\ UNCHANGED <<saved, started, starts, notes, history>>

\* Text that announces work instead of calling a tool.
Premature ==
  /\ at = "model" /\ run.nudges < NudgeLimit /\ run.turn < MaxTurns
  /\ messages' = messages \o <<Assistant(0, {}), User({})>>
  /\ \E r \in Recoveries :
       NextTurn([run EXCEPT !.recoveries = r, !.nudges = @ + 1])
  /\ UNCHANGED <<saved, started, calls, starts, notes, history>>

FinalAnswer ==
  /\ at = "model"
  /\ messages' = Append(messages, Assistant(0, {}))
  /\ at' = "returned"
  /\ UNCHANGED <<saved, run, started, calls, starts, notes, history>>

\* _execute_tools has run every call of the turn.
ToolsDone ==
  /\ at = "tools"
  /\ messages' = Append(messages, Results(calls))
  /\ ran' = ran \cup {calls}
  /\ NextTurn(run)
  /\ UNCHANGED <<saved, started, calls, starts, notes, gone, lost>>

-----------------------------------------------------------------------------
(* Errors of the model: _call_llm_with_recovery *)

\* Seeded fault: the attempts are counted anew after the second.
FaultyLlmRetry ==
  /\ at = "model" /\ run.attempt < LlmAttempts
  /\ run' = [run EXCEPT !.attempt = IF @ = 2 THEN 1 ELSE @ + 1]
  /\ UNCHANGED <<at, messages, saved, started, calls, starts, notes, history>>

\* A transient error, another one the first time, or a context too long for
\* the first time (layers 1 to 3 keep every block).
LlmRetry ==
  /\ at = "model" /\ run.attempt < LlmAttempts
  /\ run' = [run EXCEPT !.attempt = @ + 1]
  /\ UNCHANGED <<at, messages, saved, started, calls, starts, notes, history>>

\* A context too long for the second time: layer 4, saved at the next turn.
LlmSummarize ==
  /\ at = "model" /\ run.attempt = 2 /\ ~TooShort(messages)
  /\ at' = "summarizing"
  /\ UNCHANGED <<messages, saved, run, started, calls, starts, notes, history>>

RetrySummarized ==
  /\ at = "summarizing" /\ run.attempt = 2
  /\ \E ms \in Compacted :
       /\ messages' = ms
       /\ gone' = gone \cup (Answers(messages) \ Answers(ms))
  /\ at' = IF run.attempt < LlmAttempts THEN "model" ELSE "returned"
  /\ run' = [run EXCEPT !.attempt = IF @ < LlmAttempts THEN @ + 1 ELSE @]
  /\ UNCHANGED <<saved, started, calls, starts, notes, ran, lost>>

\* No attempt is left; an error that is not transient has two.
LlmFailed ==
  /\ at = "model"
  /\ run.attempt >= 2 \/ run.attempt = LlmAttempts
  /\ at' = "returned"
  /\ UNCHANGED <<messages, saved, run, started, calls, starts, notes, history>>

-----------------------------------------------------------------------------
(* The end of a run *)

\* config.time_budget: wait_for cancels the agent at its await, the run goes on
\* to its end.
EmergencyTimeout ==
  /\ at \in {"summarizing", "model", "tools"}
  /\ at' = "returned"
  /\ UNCHANGED <<messages, saved, run, started, calls, starts, notes, history>>

\* The shutdown checkpoint, after the background searches.
Finish ==
  /\ at = "returned"
  /\ saved' = messages
  /\ at' = "down"
  /\ messages' = << >>
  /\ run' = NoRun
  /\ UNCHANGED <<started, calls, starts, notes, history>>

\* A kill or a cancelled run: the results of a turn that no checkpoint has
\* seen are lost.
Killed ==
  /\ at # "down"
  /\ lost' = IF at \in {"top", "summarizing", "returned"} /\ calls \in ran
               THEN lost \cup {calls} ELSE lost
  /\ at' = "down"
  /\ messages' = << >>
  /\ run' = NoRun
  /\ UNCHANGED <<saved, started, calls, starts, notes, ran, gone>>

Loop ==
  \/ BeginTurn \/ SummaryDone
  \/ CutOff \/ CallTools \/ Premature \/ FinalAnswer \/ ToolsDone
  \/ LlmRetry \/ LlmSummarize \/ RetrySummarized \/ LlmFailed
  \/ Finish

Next == Start \/ FollowUp \/ Resume \/ Loop \/ EmergencyTimeout \/ Killed

\* The provider answers or fails, tools return, searches are flushed.  Nothing
\* is assumed of a time budget, which a run need not have.
Fairness == WF_vars(Loop)

Spec == Init /\ [][Next]_vars /\ Fairness

-----------------------------------------------------------------------------
(* Properties *)

TypeOK ==
  /\ at \in {"down", "opened", "top", "summarizing", "model", "tools", "returned"}
  /\ messages \in Seq(Message)
  /\ saved \in Seq(Message)
  /\ run \in [turn : 0..MaxTurns, attempt : 0..LlmAttempts,
              nudges : 0..NudgeLimit, recoveries : 0..RecoveryLimit]
  /\ started \in BOOLEAN
  /\ calls \in 0..MaxCalls
  /\ starts \in 0..MaxStarts
  /\ notes \in 0..MaxNotes
  /\ {ran, gone, lost} \subseteq SUBSET (1..calls)

\* When the model is asked, every tool call has its results right after it,
\* through interruptions, resumes and retries; a call is left open by the
\* token limit, a compaction or a desktop follow-up behind it, or by the seal
\* when the provider keeps calls in its own format, and by nothing else.  And
\* every result follows its call, but for the first message a compaction kept.
CallsAnswered ==
  at = "model" =>
    \A i \in DOMAIN messages :
      /\ messages[i].call # 0 /\ ~Answered(messages, i) =>
           \/ "cut" \in messages[i].marks
           \/ /\ i < Len(messages)
              /\ \/ {"seam", "followUp"} \cap messages[i + 1].marks # {}
                 \/ NativeCalls /\ "nudge" \in messages[i + 1].marks
      /\ messages[i].answer # 0 =>
           Called(messages, i) \/ "seam" \in messages[i].marks

\* The model is always asked with a history that ends on a user turn.
EndsOnUser ==
  at = "model" => messages # << >> /\ Last(messages).role = "user"

\* What tools did is in the history the next request sends, in this process
\* or a later one, unless compaction dropped it or the process died before
\* the turn's results were saved.
NothingForgotten ==
  at = "model" => ran \subseteq Answers(messages) \cup gone \cup lost

\* Every run ends: with an answer, an error, its last turn or an interruption.
RunEnds == at = "top" ~> at = "down"

\* What one would expect of a replayed history: a call that was interrupted
\* gets a result.  With NativeCalls it is not so (README, "Seen in the models").
TailIsSealed ==
  [][Resume /\ saved # << >> /\ Last(saved).call # 0 =>
       Answered(messages', Len(saved))]_vars
=============================================================================
