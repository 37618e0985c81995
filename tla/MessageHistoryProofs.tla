------------------------ MODULE MessageHistoryProofs ------------------------
(***************************************************************************)
(* What the message history keeps, for any limits and however many turns,  *)
(* processes and compactions: the provider is never asked with a call that *)
(* lost its result, the history it is asked with ends on a user turn, and  *)
(* no result is forgotten that was not compacted away or lost in a crash.  *)
(*                                                                         *)
(* The proofs follow a history through what is done to it: a message that  *)
(* is appended, a mark that is set, the part a compaction keeps, the       *)
(* seal and the nudge of a resume.  An open call may stand at the end of   *)
(* a history at any time, and at its end only; Fits is that, Closed says   *)
(* that there is none.                                                     *)
(***************************************************************************)
EXTENDS MessageHistory, TLAPS, SequenceTheorems

\* The messages of a history in which n turns have called tools.
Upto(n) ==
  {m \in Message : /\ m.call <= n /\ m.answer <= n
                   /\ m.call # 0 => m.role = "assistant"}

\* A call before the end is answered or excused, a result follows its call.
CallFits(ms, i) ==
  ms[i].call # 0 /\ i < Len(ms) =>
    \/ ms[i + 1].answer = ms[i].call
    \/ "cut" \in ms[i].marks
    \/ {"seam", "followUp"} \cap ms[i + 1].marks # {}
    \/ NativeCalls /\ "nudge" \in ms[i + 1].marks

AnswerFits(ms, i) ==
  ms[i].answer # 0 => Called(ms, i) \/ "seam" \in ms[i].marks

Fits(ms) == \A i \in DOMAIN ms : CallFits(ms, i) /\ AnswerFits(ms, i)

Closed(ms) ==
  ms # << >> => Last(ms).call = 0 \/ "cut" \in Last(ms).marks

\* The model may be asked with it, as it is or once it is compacted.
Askable(ms) ==
  /\ Fits(ms) /\ Closed(ms)
  /\ ms # << >> /\ Last(ms).role = "user"

InLoop == {"top", "summarizing", "model"}

Phases ==
  /\ ~started => at = "down" /\ calls = 0
  /\ at = "top" => run.attempt = 0
  /\ at = "tools" =>
       /\ calls # 0
       /\ messages # << >> /\ Last(messages).call = calls

Histories ==
  /\ messages \in Seq(Upto(calls)) /\ saved \in Seq(Upto(calls))
  /\ Fits(messages) /\ Fits(saved)
  /\ at \in InLoop => Askable(messages)

\* The results of the last turn, while no checkpoint has seen them.
Unsaved ==
  IF at \in {"top", "returned"} \/ (at = "summarizing" /\ run.attempt = 0)
    THEN {calls} ELSE {}

Remembered ==
  /\ at \notin {"down", "opened"} =>
       ran \subseteq Answers(messages) \cup gone \cup lost
  /\ ran \subseteq Answers(saved) \cup gone \cup lost \cup Unsaved

HInv == TypeOK /\ Phases /\ Histories /\ Remembered
-----------------------------------------------------------------------------
(* Messages and histories *)

\* What a message of such a history is.
LEMMA UptoParts ==
  ASSUME NEW n \in Nat, NEW ms \in Seq(Upto(n)), NEW i \in DOMAIN ms
  PROVE  /\ ms[i] \in Message
         /\ ms[i].call \in 0 .. n /\ ms[i].answer \in 0 .. n
         /\ ms[i].call # 0 => ms[i].role = "assistant"
         /\ ms[i].marks \in SUBSET Mark
  <1>1. ms[i] \in Upto(n)
    OBVIOUS
  <1> QED BY <1>1 DEF Upto, Message

\* A history stays one when more turns have called tools.
LEMMA UptoGrows ==
  ASSUME NEW n \in Nat, NEW k \in Nat, n <= k
  PROVE  Upto(n) \subseteq Upto(k) /\ Seq(Upto(n)) \subseteq Seq(Upto(k))
  <1>1. Upto(n) \subseteq Upto(k)
    BY DEF Upto, Message
  <1> QED BY <1>1

\* The messages the code writes are messages.
LEMMA MessageForms ==
  ASSUME NEW n \in Nat, NEW c \in 0 .. n, NEW marks \in SUBSET Mark
  PROVE  /\ User(marks) \in Upto(n) /\ Results(c) \in Upto(n)
         /\ Assistant(c, marks) \in Upto(n)
  BY DEF Upto, Message, User, Results, Assistant

\* Only calls that were made are answered.
LEMMA AnswersUpto ==
  ASSUME NEW n \in Nat, NEW ms \in Seq(Upto(n))
  PROVE  Answers(ms) \subseteq 1 .. n
  <1>1. \A i \in DOMAIN ms : ms[i].answer \in 0 .. n
    BY UptoParts
  <1> QED BY <1>1 DEF Answers

\* What is answered after an append.
LEMMA AppendAnswers ==
  ASSUME NEW n \in Nat, NEW ms \in Seq(Upto(n)), NEW m \in Upto(n)
  PROVE  Answers(Append(ms, m)) = Answers(ms) \cup ({m.answer} \ {0})
  <1> DEFINE ns == Append(ms, m)
  <1>1. /\ Len(ms) \in Nat /\ DOMAIN ms = 1 .. Len(ms)
        /\ DOMAIN ns = 1 .. Len(ms) + 1
        /\ ns[Len(ms) + 1] = m /\ \A i \in 1 .. Len(ms) : ns[i] = ms[i]
    OBVIOUS
  <1> HIDE DEF ns
  <1>2. {ns[i].answer : i \in DOMAIN ns} =
          {ms[i].answer : i \in DOMAIN ms} \cup {m.answer}
    BY <1>1
  <1> QED BY <1>2 DEF Answers, ns

\* What is appended: it closes the call before it, or excuses it.
LEMMA AppendFits ==
  ASSUME NEW n \in Nat, NEW ms \in Seq(Upto(n)), NEW m \in Upto(n), Fits(ms),
         \/ Closed(ms)
         \/ m.answer = Last(ms).call
         \/ "followUp" \in m.marks
         \/ NativeCalls /\ "nudge" \in m.marks,
         m.answer # 0 => ms # << >> /\ Last(ms).call = m.answer
  PROVE  /\ Append(ms, m) \in Seq(Upto(n)) /\ Append(ms, m) # << >>
         /\ Last(Append(ms, m)) = m
         /\ Fits(Append(ms, m))
         /\ m.call = 0 \/ "cut" \in m.marks => Closed(Append(ms, m))
  <1> DEFINE ns == Append(ms, m)
             l == Len(ms)
  <1>1. /\ l \in Nat /\ DOMAIN ms = 1 .. l
        /\ DOMAIN ns = 1 .. l + 1 /\ Len(ns) = l + 1
        /\ ns[l + 1] = m /\ \A i \in 1 .. l : ns[i] = ms[i]
        /\ ns \in Seq(Upto(n)) /\ ns # << >>
        /\ ms # << >> <=> l # 0
    OBVIOUS
  <1>2. Last(ns) = m
    BY <1>1 DEF Last
  <1> HIDE DEF ns
  <1>3. ms # << >> => Last(ms) = ms[l]
    BY DEF Last
  <1> HIDE DEF l
  <1>4. Fits(ns)
    <2> SUFFICES ASSUME NEW i \in 1 .. l + 1
                 PROVE  CallFits(ns, i) /\ AnswerFits(ns, i)
      BY <1>1 DEF Fits
    <2>1. CASE i < l
      <3>1. /\ i \in DOMAIN ms /\ ns[i] = ms[i] /\ ns[i + 1] = ms[i + 1]
            /\ i > 1 => ns[i - 1] = ms[i - 1]
        BY <1>1, <2>1
      <3>2. CallFits(ms, i) /\ AnswerFits(ms, i)
        BY <3>1 DEF Fits
      <3>3. i < Len(ms) /\ i < Len(ns)
        BY <1>1, <2>1 DEF l
      <3> QED BY <3>1, <3>2, <3>3 DEF CallFits, AnswerFits, Called
    <2>2. CASE i = l
      <3>1. /\ i \in DOMAIN ms /\ ns[i] = ms[i] /\ ns[i + 1] = m
            /\ ms # << >> /\ Last(ms) = ms[i]
            /\ i > 1 => ns[i - 1] = ms[i - 1]
        BY <1>1, <1>3, <2>2
      <3>2. AnswerFits(ms, i)
        BY <3>1 DEF Fits
      <3>3. AnswerFits(ns, i)
        BY <3>1, <3>2 DEF AnswerFits, Called
      <3>4. CallFits(ns, i)
        BY <3>1 DEF CallFits, Closed
      <3> QED BY <3>3, <3>4
    <2>3. CASE i = l + 1
      <3>1. ns[i] = m /\ ~(i < Len(ns))
        BY <1>1, <2>3
      <3>2. CallFits(ns, i)
        BY <3>1 DEF CallFits
      <3>3. m.answer # 0 => i > 1 /\ ns[i - 1] = Last(ms)
        BY <1>1, <1>3, <2>3
      <3>4. AnswerFits(ns, i)
        BY <3>1, <3>3 DEF AnswerFits, Called
      <3> QED BY <3>2, <3>4
    <2> QED BY <1>1, <2>1, <2>2, <2>3
  <1> QED BY <1>1, <1>2, <1>4 DEF Closed, ns

\* ns is ms with marks added.
Marked(ms, ns) ==
  /\ Len(ns) = Len(ms)
  /\ \A i \in DOMAIN ms :
       /\ ns[i].role = ms[i].role
       /\ ns[i].call = ms[i].call /\ ns[i].answer = ms[i].answer
       /\ ms[i].marks \subseteq ns[i].marks

\* A mark is set on one message, and the rest of it stays.
LEMMA MarkEffect ==
  ASSUME NEW n \in Nat, NEW ms \in Seq(Upto(n)), NEW k \in DOMAIN ms,
         NEW mark \in Mark
  PROVE  /\ WithMark(ms, k, mark) \in Seq(Upto(n))
         /\ Marked(ms, WithMark(ms, k, mark))
         /\ mark \in WithMark(ms, k, mark)[k].marks
  <1> DEFINE m == [ms[k] EXCEPT !.marks = @ \cup {mark}]
             ns == [ms EXCEPT ![k] = m]
  <1>1. /\ ms[k] \in Message
        /\ ms[k].call \in 0 .. n /\ ms[k].answer \in 0 .. n
        /\ ms[k].call # 0 => ms[k].role = "assistant"
    BY UptoParts
  <1>2. /\ m \in Message /\ m.role = ms[k].role /\ m.call = ms[k].call
        /\ m.answer = ms[k].answer /\ m.marks = ms[k].marks \cup {mark}
    BY <1>1 DEF Message
  <1>3. WithMark(ms, k, mark) = ns
    BY DEF WithMark
  <1> HIDE DEF m
  <1>4. m \in Upto(n)
    BY <1>1, <1>2 DEF Upto
  <1>5. /\ ns \in Seq(Upto(n)) /\ Len(ns) = Len(ms)
        /\ ns[k] = m /\ \A i \in DOMAIN ms : i # k => ns[i] = ms[i]
    BY <1>4
  <1> HIDE DEF ns
  <1> QED BY <1>2, <1>3, <1>5 DEF Marked

\* Marks that are added excuse more, never less.
LEMMA MarkedKeeps ==
  ASSUME NEW n \in Nat, NEW ms \in Seq(Upto(n)), NEW ns \in Seq(Upto(n)),
         Marked(ms, ns)
  PROVE  /\ Fits(ms) => Fits(ns)
         /\ Closed(ms) => Closed(ns)
         /\ ms # << >> => ns # << >> /\ Last(ns).role = Last(ms).role
         /\ Answers(ns) = Answers(ms)
  <1>1. /\ Len(ms) \in Nat /\ Len(ns) = Len(ms)
        /\ DOMAIN ms = 1 .. Len(ms) /\ DOMAIN ns = 1 .. Len(ms)
        /\ ms # << >> <=> Len(ms) # 0
        /\ ns # << >> <=> Len(ms) # 0
    BY DEF Marked
  <1>2. \A i \in 1 .. Len(ms) :
          /\ ns[i].role = ms[i].role
          /\ ns[i].call = ms[i].call /\ ns[i].answer = ms[i].answer
          /\ ms[i].marks \subseteq ns[i].marks
    BY <1>1 DEF Marked
  <1>3. ASSUME Fits(ms), NEW i \in 1 .. Len(ms)
        PROVE  CallFits(ns, i) /\ AnswerFits(ns, i)
    <2>1. CallFits(ms, i) /\ AnswerFits(ms, i)
      BY <1>1, <1>3 DEF Fits
    <2>2. i < Len(ms) => i + 1 \in 1 .. Len(ms)
      BY <1>1
    <2>3. i > 1 => i - 1 \in 1 .. Len(ms)
      BY <1>1
    <2>4. CallFits(ns, i)
      BY <1>1, <1>2, <2>1, <2>2 DEF CallFits
    <2>5. AnswerFits(ns, i)
      BY <1>1, <1>2, <2>1, <2>3 DEF AnswerFits, Called
    <2> QED BY <2>4, <2>5
  <1>4. Fits(ms) => Fits(ns)
    BY <1>1, <1>3 DEF Fits
  <1>5. ms # << >> =>
          /\ Last(ns).role = Last(ms).role /\ Last(ns).call = Last(ms).call
          /\ Last(ms).marks \subseteq Last(ns).marks
    <2> SUFFICES ASSUME ms # << >>
                 PROVE  Len(ms) \in 1 .. Len(ms)
      BY <1>1, <1>2 DEF Last
    <2> QED BY <1>1
  <1>6. Answers(ns) = Answers(ms)
    BY <1>1, <1>2 DEF Answers
  <1> QED BY <1>1, <1>4, <1>5, <1>6 DEF Closed

-----------------------------------------------------------------------------
(* Parts of a history *)

\* The front of a history fits.
LEMMA PrefixFits ==
  ASSUME NEW n \in Nat, NEW ms \in Seq(Upto(n)), Fits(ms), NEW k \in 0 .. Len(ms)
  PROVE  SubSeq(ms, 1, k) \in Seq(Upto(n)) /\ Fits(SubSeq(ms, 1, k))
  <1> DEFINE ns == SubSeq(ms, 1, k)
  <1>1. /\ ns \in Seq(Upto(n)) /\ Len(ns) = k /\ DOMAIN ns = 1 .. k
        /\ \A i \in 1 .. k : ns[i] = ms[i]
        /\ k \in Nat /\ k <= Len(ms) /\ DOMAIN ms = 1 .. Len(ms) /\ Len(ms) \in Nat
    OBVIOUS
  <1> HIDE DEF ns
  <1>2. ASSUME NEW i \in 1 .. k
        PROVE  CallFits(ns, i) /\ AnswerFits(ns, i)
    <2>1. /\ i \in DOMAIN ms /\ ns[i] = ms[i]
          /\ i < k => ns[i + 1] = ms[i + 1] /\ i < Len(ms)
          /\ i > 1 => ns[i - 1] = ms[i - 1]
      BY <1>1, <1>2
    <2>2. CallFits(ms, i) /\ AnswerFits(ms, i)
      BY <2>1 DEF Fits
    <2> QED BY <1>1, <2>1, <2>2 DEF CallFits, AnswerFits, Called
  <1> QED BY <1>1, <1>2 DEF Fits, ns

\* The last messages of a history, the first of them marked as what follows
\* nothing any more.
LEMMA SeamFits ==
  ASSUME NEW n \in Nat, NEW ms \in Seq(Upto(n)), Askable(ms),
         NEW k \in 1 .. Len(ms)
  PROVE  LET ns == WithMark(SubSeq(ms, k, Len(ms)), 1, "seam")
         IN  /\ ns \in Seq(Upto(n)) /\ Askable(ns)
             /\ "seam" \in ns[1].marks
  <1> DEFINE l == Len(ms)
             s == SubSeq(ms, k, l)
             ns == WithMark(s, 1, "seam")
  <1>1. /\ l \in Nat /\ l > 0 /\ DOMAIN ms = 1 .. l /\ k \in Nat
    BY DEF Askable
  <1>2. /\ s \in Seq(Upto(n)) /\ Len(s) = l - k + 1
        /\ DOMAIN s = 1 .. l - k + 1
        /\ \A i \in 1 .. l - k + 1 : s[i] = ms[k + i - 1]
    BY <1>1
  <1> HIDE DEF s
  <1>3. 1 \in DOMAIN s /\ "seam" \in Mark
    BY <1>1, <1>2 DEF Mark
  <1>4. /\ ns \in Seq(Upto(n)) /\ Marked(s, ns) /\ "seam" \in ns[1].marks
    BY <1>2, <1>3, MarkEffect
  <1> HIDE DEF ns
  <1>5. ns # << >> /\ Len(ns) = l - k + 1 /\ DOMAIN ns = 1 .. l - k + 1
    BY <1>1, <1>2, <1>4 DEF Marked
  <1>6. \A i \in 1 .. l - k + 1 :
          /\ ns[i].role = ms[k + i - 1].role
          /\ ns[i].call = ms[k + i - 1].call
          /\ ns[i].answer = ms[k + i - 1].answer
          /\ ms[k + i - 1].marks \subseteq ns[i].marks
    BY <1>2, <1>4 DEF Marked
  <1>7. ASSUME NEW i \in 1 .. l - k + 1
        PROVE  CallFits(ns, i) /\ AnswerFits(ns, i)
    <2> DEFINE j == k + i - 1
    <2>1. /\ j \in 1 .. l /\ i \in Int /\ j \in Int
          /\ i < l - k + 1 => j < l /\ i + 1 \in 1 .. l - k + 1
                             /\ k + (i + 1) - 1 = j + 1
          /\ i > 1 => j > 1 /\ i - 1 \in 1 .. l - k + 1
                     /\ k + (i - 1) - 1 = j - 1
      BY <1>1
    <2>2. /\ ns[i].call = ms[j].call /\ ns[i].answer = ms[j].answer
          /\ ms[j].marks \subseteq ns[i].marks
          /\ i < l - k + 1 => /\ ns[i + 1].answer = ms[j + 1].answer
                             /\ ms[j + 1].marks \subseteq ns[i + 1].marks
          /\ i > 1 => ns[i - 1].call = ms[j - 1].call
      BY <1>6, <2>1
    <2> HIDE DEF j
    <2>3. CallFits(ms, j) /\ AnswerFits(ms, j)
      BY <1>1, <2>1 DEF Askable, Fits
    <2>4. CallFits(ns, i)
      BY <1>5, <2>1, <2>2, <2>3 DEF CallFits
    <2>5. CASE i = 1
      BY <1>4, <2>4, <2>5 DEF AnswerFits
    <2>6. CASE i > 1
      BY <2>1, <2>2, <2>3, <2>4, <2>6 DEF AnswerFits, Called
    <2> QED BY <1>7, <2>5, <2>6
  <1>8. /\ Last(ns).role = Last(ms).role /\ Last(ns).call = Last(ms).call
        /\ Last(ms).marks \subseteq Last(ns).marks
    <2>1. l - k + 1 \in 1 .. l - k + 1 /\ k + (l - k + 1) - 1 = l
      BY <1>1
    <2>2. Last(ns) = ns[l - k + 1] /\ Last(ms) = ms[l]
      BY <1>5 DEF Last
    <2> QED BY <1>6, <2>1, <2>2
  <1>9. ms # << >> /\ Closed(ms) /\ Last(ms).role = "user"
    BY DEF Askable
  <1>10. Askable(ns)
    BY <1>5, <1>7, <1>8, <1>9 DEF Askable, Fits, Closed
  <1> QED BY <1>4, <1>10 DEF ns, s

\* The messages a compaction keeps can be asked with.
LEMMA RecentAskable ==
  ASSUME NEW n \in Nat, NEW ms \in Seq(Upto(n)), Askable(ms),
         NEW k \in Nat
  PROVE  /\ Recent(ms, k) \in Seq(Upto(n)) /\ Askable(Recent(ms, k))
         /\ "seam" \in Recent(ms, k)[1].marks
  <1> DEFINE f == IF k \in 1 .. Len(ms) THEN Len(ms) - k + 1 ELSE 1
  <1>1. f \in 1 .. Len(ms)
    <2>1. Len(ms) \in Nat /\ Len(ms) # 0
      BY DEF Askable
    <2> QED BY <2>1
  <1>2. Recent(ms, k) = WithMark(SubSeq(ms, f, Len(ms)), 1, "seam")
    BY DEF Recent
  <1> HIDE DEF f
  <1> QED BY <1>1, <1>2, SeamFits

\* What a compaction puts before the messages it keeps.
LEMMA JoinAskable ==
  ASSUME NEW n \in Nat, NEW p \in Seq(Upto(n)), NEW q \in Seq(Upto(n)),
         Fits(p), Askable(q), "seam" \in q[1].marks
  PROVE  p \o q \in Seq(Upto(n)) /\ Askable(p \o q)
  <1> DEFINE ns == p \o q
             a == Len(p)
             b == Len(q)
  <1>1. /\ a \in Nat /\ b \in Nat /\ b > 0 /\ Len(p) = a /\ Len(q) = b
        /\ DOMAIN p = 1 .. a /\ DOMAIN q = 1 .. b
    BY DEF Askable
  <1>2. /\ ns \in Seq(Upto(n)) /\ Len(ns) = a + b /\ DOMAIN ns = 1 .. a + b
        /\ \A i \in 1 .. a : ns[i] = p[i]
        /\ \A i \in 1 .. b : ns[a + i] = q[i]
    OBVIOUS
  <1> HIDE DEF ns, a, b
  <1>3. ns # << >> /\ Last(ns) = Last(q)
    <2>1. b \in 1 .. b
      BY <1>1
    <2> QED BY <1>1, <1>2, <2>1 DEF Last
  <1>4. ASSUME NEW i \in 1 .. a + b
        PROVE  CallFits(ns, i) /\ AnswerFits(ns, i)
    <2>1. CASE i <= a
      <3>1. /\ i \in DOMAIN p /\ ns[i] = p[i]
            /\ i < a => ns[i + 1] = p[i + 1]
            /\ i > 1 => ns[i - 1] = p[i - 1]
            /\ ns[a + 1] = q[1]
        BY <1>1, <1>2, <2>1
      <3>2. CallFits(p, i) /\ AnswerFits(p, i)
        BY <3>1 DEF Fits
      <3>3. AnswerFits(ns, i)
        BY <3>1, <3>2 DEF AnswerFits, Called
      <3>4. CASE i < a
        BY <1>1, <3>1, <3>2, <3>3, <3>4 DEF CallFits
      <3>5. CASE i = a
        <4>1. ns[i + 1] = q[1]
          BY <3>1, <3>5
        <4> QED BY <3>3, <4>1 DEF CallFits
      <3> QED BY <1>1, <2>1, <3>3, <3>4, <3>5
    <2>2. CASE i > a
      <3>1. PICK j \in 1 .. b : i = a + j
        <4>1. i - a \in 1 .. b /\ i = a + (i - a)
          BY <1>1, <2>2
        <4> QED BY <4>1
      <3>2. /\ ns[i] = q[j]
            /\ j < b => ns[i + 1] = q[j + 1]
            /\ j > 1 => ns[i - 1] = q[j - 1] /\ i > 1
            /\ i < a + b => j < b
        <4>1. ns[a + j] = q[j]
          BY <1>2
        <4>2. j < b => j + 1 \in 1 .. b /\ a + (j + 1) = i + 1
          BY <1>1, <3>1
        <4>3. j > 1 => j - 1 \in 1 .. b /\ a + (j - 1) = i - 1 /\ i > 1
          BY <1>1, <3>1
        <4>4. i < a + b => j < b
          BY <1>1, <3>1
        <4>5. j < b => ns[a + (j + 1)] = q[j + 1]
          BY <1>2, <4>2
        <4>6. j > 1 => ns[a + (j - 1)] = q[j - 1]
          BY <1>2, <4>3
        <4> QED BY <3>1, <4>1, <4>2, <4>3, <4>4, <4>5, <4>6
      <3>3. CallFits(q, j) /\ AnswerFits(q, j)
        BY <1>1 DEF Askable, Fits
      <3>4. CallFits(ns, i)
        BY <1>1, <1>2, <3>2, <3>3 DEF CallFits
      <3>5. j > 1 \/ j = 1
        OBVIOUS
      <3>6. AnswerFits(ns, i)
        BY <3>2, <3>3, <3>5 DEF AnswerFits, Called
      <3> QED BY <3>4, <3>6
    <2> QED BY <1>1, <2>1, <2>2
  <1>5. Closed(q) /\ q # << >> /\ Last(q).role = "user"
    BY DEF Askable
  <1>6. Askable(ns)
    BY <1>2, <1>3, <1>4, <1>5 DEF Askable, Fits, Closed
  <1> QED BY <1>2, <1>6 DEF ns

-----------------------------------------------------------------------------
(* Compaction *)

\* Nothing is open in an empty history.
LEMMA EmptyFits == Fits(<< >>) /\ Closed(<< >>)
  BY DEF Fits, Closed

\* A summary in place of the older messages leaves no call open.
LEMMA SummarizedAskable ==
  ASSUME NEW n \in Nat, NEW ms \in Seq(Upto(n)), Askable(ms)
  PROVE  Summarized(ms) \in Seq(Upto(n)) /\ Askable(Summarized(ms))
  <1> DEFINE p == <<User({}), Assistant(0, {})>>
             q == Recent(ms, KeepRecent)
  <1>1. q \in Seq(Upto(n)) /\ Askable(q) /\ "seam" \in q[1].marks
    BY RecentAskable, HistoryAssumption
  <1>2. User({}) \in Upto(n) /\ Assistant(0, {}) \in Upto(n)
    BY MessageForms
  <1>3. p \in Seq(Upto(n)) /\ \A i \in DOMAIN p : p[i].call = 0 /\ p[i].answer = 0
    BY <1>2 DEF User, Assistant
  <1> HIDE DEF p
  <1>4. Fits(p)
    BY <1>3 DEF Fits, CallFits, AnswerFits
  <1>5. Summarized(ms) = p \o q
    BY DEF Summarized, p
  <1> HIDE DEF q
  <1> QED BY <1>1, <1>3, <1>4, <1>5, JoinAskable

\* Nor does dropping the older half.
LEMMA NewerHalfAskable ==
  ASSUME NEW n \in Nat, NEW ms \in Seq(Upto(n)), Askable(ms)
  PROVE  NewerHalf(ms) \in Seq(Upto(n)) /\ Askable(NewerHalf(ms))
  <1>1. Len(ms) - Len(ms) \div 2 \in Nat
    <2>1. Len(ms) \in Nat /\ Len(ms) > 0
      BY DEF Askable
    <2> QED BY <2>1
  <1> QED BY <1>1, RecentAskable DEF NewerHalf

\* Nor does the emergency truncation, though it may repeat messages.
LEMMA TruncatedAskable ==
  ASSUME NEW n \in Nat, NEW ms \in Seq(Upto(n)), Askable(ms)
  PROVE  Truncated(ms) \in Seq(Upto(n)) /\ Askable(Truncated(ms))
  <1> DEFINE k == IF Len(ms) < 2 THEN Len(ms) ELSE 2
             p == SubSeq(ms, 1, k)
             q == Recent(ms, KeepRecent \div 2)
  <1>1. KeepRecent \div 2 \in Nat
    BY HistoryAssumption
  <1>2. q \in Seq(Upto(n)) /\ Askable(q) /\ "seam" \in q[1].marks
    BY <1>1, RecentAskable
  <1>3. k \in 0 .. Len(ms)
    <2>1. Len(ms) \in Nat
      OBVIOUS
    <2> QED BY <2>1
  <1> HIDE DEF k
  <1>4. p \in Seq(Upto(n)) /\ Fits(p)
    BY <1>3, PrefixFits DEF Askable
  <1>5. Truncated(ms) = p \o q
    BY DEF Truncated, k
  <1> HIDE DEF p, q
  <1> QED BY <1>2, <1>4, <1>5, JoinAskable

-----------------------------------------------------------------------------
(* Resuming *)

\* A saved history, sealed and nudged, can be asked with: its last call is
\* answered, or excused by the nudge.
LEMMA SealedFits ==
  ASSUME NEW n \in Nat, NEW ms \in Seq(Upto(n)), ms # << >>, Fits(ms)
  PROVE  LET ss == Sealed(ms)
         IN  /\ ss \in Seq(Upto(n)) /\ ss # << >> /\ Fits(ss)
             /\ Last(ss).role = "user" \/ ~NativeCalls => Closed(ss)
             /\ Answers(ms) \subseteq Answers(ss)
  <1> DEFINE m == Results(Last(ms).call)
  <1>1. /\ Last(ms).call \in 0 .. n
        /\ Last(ms).call # 0 => Last(ms).role = "assistant"
    <2>1. Len(ms) \in DOMAIN ms
      OBVIOUS
    <2> QED BY <2>1, UptoParts DEF Last
  <1>2. m \in Upto(n) /\ m.answer = Last(ms).call /\ m.call = 0
    BY <1>1, MessageForms DEF Results
  <1> HIDE DEF m
  <1>3. CASE Last(ms).call # 0 /\ ~NativeCalls
    <2>1. Sealed(ms) = Append(ms, m)
      BY <1>3 DEF Sealed, m
    <2>2. /\ Append(ms, m) \in Seq(Upto(n)) /\ Append(ms, m) # << >>
          /\ Fits(Append(ms, m)) /\ Closed(Append(ms, m))
      BY <1>2, AppendFits
    <2>3. Answers(ms) \subseteq Answers(Append(ms, m))
      BY <1>2, AppendAnswers
    <2> QED BY <2>1, <2>2, <2>3
  <1>4. CASE Last(ms).call = 0 \/ NativeCalls
    <2>1. Sealed(ms) = ms
      BY <1>4 DEF Sealed
    <2>2. Last(ms).role = "user" \/ ~NativeCalls => Closed(ms)
      BY <1>1, <1>4 DEF Closed
    <2> QED BY <2>1, <2>2
  <1> QED BY <1>3, <1>4

\* The nudge ends a resumed history on the user, merged into a user message or
\* appended to one of the model.
LEMMA NudgedAskable ==
  ASSUME NEW n \in Nat, NEW ms \in Seq(Upto(n)), ms # << >>, Fits(ms),
         Last(ms).role = "user" \/ ~NativeCalls => Closed(ms)
  PROVE  /\ Nudged(ms) \in Seq(Upto(n)) /\ Askable(Nudged(ms))
         /\ Answers(ms) \subseteq Answers(Nudged(ms))
  <1>1. "nudge" \in Mark /\ {"nudge"} \in SUBSET Mark
    BY DEF Mark
  <1>2. CASE Last(ms).role = "user"
    <2> DEFINE ns == WithMark(ms, Len(ms), "nudge")
    <2>1. Len(ms) \in DOMAIN ms
      OBVIOUS
    <2>2. ns \in Seq(Upto(n)) /\ Marked(ms, ns)
      BY <1>1, <2>1, MarkEffect
    <2>3. Nudged(ms) = ns
      BY <1>2 DEF Nudged
    <2> HIDE DEF ns
    <2> QED BY <1>2, <2>2, <2>3, MarkedKeeps DEF Askable
  <1>3. CASE Last(ms).role # "user"
    <2> DEFINE m == User({"nudge"})
    <2>1. /\ m \in Upto(n) /\ m.call = 0 /\ m.answer = 0
          /\ m.role = "user" /\ "nudge" \in m.marks
      BY <1>1, MessageForms DEF User
    <2>2. Nudged(ms) = Append(ms, m)
      BY <1>3 DEF Nudged
    <2> HIDE DEF m
    <2>3. /\ Append(ms, m) \in Seq(Upto(n)) /\ Append(ms, m) # << >>
          /\ Fits(Append(ms, m)) /\ Closed(Append(ms, m))
          /\ Last(Append(ms, m)) = m
      BY <2>1, AppendFits, HistoryAssumption
    <2>4. Answers(ms) \subseteq Answers(Append(ms, m))
      BY <2>1, AppendAnswers
    <2> QED BY <2>1, <2>2, <2>3, <2>4 DEF Askable
  <1> QED BY <1>2, <1>3

-----------------------------------------------------------------------------
(* The steps *)

RunState == [turn : 0 .. MaxTurns, attempt : 0 .. LlmAttempts,
             nudges : 0 .. NudgeLimit, recoveries : 0 .. RecoveryLimit]

\* The counters of a run, from the type invariant.
LEMMA RunParts ==
  ASSUME TypeOK
  PROVE  /\ run \in RunState
         /\ run.turn \in 0 .. MaxTurns /\ run.attempt \in 0 .. LlmAttempts
         /\ run.nudges \in 0 .. NudgeLimit
         /\ run.recoveries \in 0 .. RecoveryLimit
         /\ calls \in Nat /\ MaxTurns \in Nat \ {0}
         /\ LlmAttempts \in Nat \ {0} /\ MaxCalls \in Nat
         /\ RecoveryLimit \in Nat /\ NudgeLimit \in Nat
  BY HistoryAssumption DEF TypeOK, RunState

\* A run with one counter replaced is a run.
LEMMA RunWith ==
  ASSUME NEW r \in RunState
  PROVE  /\ \A x \in 0 .. MaxTurns : [r EXCEPT !.turn = x] \in RunState
         /\ \A x \in 0 .. LlmAttempts : [r EXCEPT !.attempt = x] \in RunState
         /\ \A x \in 0 .. NudgeLimit : [r EXCEPT !.nudges = x] \in RunState
         /\ \A x \in 0 .. RecoveryLimit : [r EXCEPT !.recoveries = x] \in RunState
  BY DEF RunState

\* The counters before a run.
LEMMA NoRunState == NoRun \in RunState /\ NoRun.attempt = 0
  BY HistoryAssumption DEF NoRun, RunState

\* A history is a list of messages.
LEMMA UptoHistory ==
  ASSUME NEW n \in Nat, NEW ms \in Seq(Upto(n))
  PROVE  ms \in Seq(Message)
  <1>1. Upto(n) \subseteq Message
    BY DEF Upto
  <1> QED BY <1>1

\* The first user message of a fresh history.
LEMMA FirstPrompt ==
  ASSUME NEW n \in Nat
  PROVE  <<User({})>> \in Seq(Upto(n)) /\ Askable(<<User({})>>)
  <1> DEFINE ms == <<User({})>>
             m == User({})
  <1>1. m \in Upto(n) /\ m.call = 0 /\ m.answer = 0 /\ m.role = "user"
    BY MessageForms DEF User
  <1> HIDE DEF m
  <1>2. /\ <<m>> \in Seq(Upto(n)) /\ <<m>> # << >>
        /\ Last(<<m>>) = m /\ DOMAIN <<m>> = {1} /\ <<m>>[1] = m
    BY <1>1 DEF Last
  <1>3. Askable(<<m>>)
    BY <1>1, <1>2 DEF Askable, Fits, Closed, CallFits, AnswerFits
  <1> QED BY <1>2, <1>3 DEF m

\* Nothing has run and nothing is saved in the initial state.
LEMMA InitH == Init => HInv
  <1> SUFFICES ASSUME Init PROVE HInv
    OBVIOUS
  <1>1. \A S : << >> \in Seq(S)
    OBVIOUS
  <1>2. TypeOK
    <2>1. messages \in Seq(Message) /\ saved \in Seq(Message)
      BY <1>1 DEF Init
    <2>2. calls \in 0 .. MaxCalls /\ starts \in 0 .. MaxStarts
          /\ notes \in 0 .. MaxNotes
      BY HistoryAssumption DEF Init
    <2>3. run \in RunState
      BY NoRunState DEF Init
    <2>4. {ran, gone, lost} \subseteq SUBSET (1 .. calls)
      BY DEF Init
    <2>5. started \in BOOLEAN /\ at = "down"
      BY DEF Init
    <2> QED BY <2>1, <2>2, <2>3, <2>4, <2>5 DEF TypeOK, RunState
  <1>3. Phases /\ Remembered
    BY DEF Init, Phases, Remembered
  <1>4. Histories
    BY <1>1, EmptyFits DEF Init, Histories, InLoop
  <1> QED BY <1>2, <1>3, <1>4 DEF HInv

\* A process begins with a history that knows everything the saved one knew.
LEMMA BeginH ==
  ASSUME HInv, at \in {"down", "opened"}, at = "down" => starts < MaxStarts,
         NEW ms \in Seq(Upto(calls)), Askable(ms), Begin(ms), started' = TRUE,
         UNCHANGED <<saved, calls, notes, ran, lost>>,
         gone' \subseteq gone,
         ran \subseteq Answers(ms) \cup gone' \cup lost,
         ran \subseteq Answers(saved) \cup gone' \cup lost
  PROVE  HInv'
  <1>1. /\ at' = "top" /\ messages' = ms /\ run' = [NoRun EXCEPT !.turn = 1]
        /\ starts' \in 0 .. MaxStarts
    BY HistoryAssumption DEF Begin, HInv, TypeOK
  <1>2. run' \in RunState /\ run'.attempt = 0
    BY <1>1, HistoryAssumption DEF NoRun, RunState
  <1>3. TypeOK'
    BY <1>1, <1>2, UptoHistory, RunParts DEF HInv, TypeOK, RunState
  <1>4. Phases'
    BY <1>1, <1>2 DEF Phases
  <1>5. Histories'
    BY <1>1 DEF HInv, Histories, Askable
  <1>6. Remembered'
    BY <1>1 DEF Remembered, Unsaved
  <1> QED BY <1>3, <1>4, <1>5, <1>6 DEF HInv

\* What the invariant says of the histories, calls and results, in one place.
LEMMA Known ==
  ASSUME HInv
  PROVE  /\ calls \in Nat /\ calls <= MaxCalls
         /\ messages \in Seq(Upto(calls)) /\ saved \in Seq(Upto(calls))
         /\ Fits(messages) /\ Fits(saved)
         /\ Answers(messages) \subseteq 1 .. calls
         /\ Answers(saved) \subseteq 1 .. calls
         /\ at \in InLoop => Askable(messages)
         /\ at # "down" => started = TRUE
  <1>1. calls \in Nat /\ calls <= MaxCalls
    BY HistoryAssumption DEF HInv, TypeOK
  <1>2. messages \in Seq(Upto(calls)) /\ saved \in Seq(Upto(calls))
    BY DEF HInv, Histories
  <1>3. at # "down" => started = TRUE
    BY DEF HInv, TypeOK, Phases
  <1>4. /\ Answers(messages) \subseteq 1 .. calls
        /\ Answers(saved) \subseteq 1 .. calls
    BY <1>1, <1>2, AnswersUpto
  <1>5. /\ Fits(messages) /\ Fits(saved)
        /\ at \in InLoop => Askable(messages)
    BY DEF HInv, Histories
  <1> QED BY <1>1, <1>2, <1>3, <1>4, <1>5

\* A fresh run begins with the task, in a project without a tree.
LEMMA StartH == ASSUME HInv, Start PROVE HInv'
  <1>1. /\ at = "down" /\ starts < MaxStarts /\ started' = TRUE
        /\ Begin(<<User({})>>)
        /\ UNCHANGED <<saved, calls, notes, ran, gone, lost>>
    BY DEF Start, history
  <1>2. calls = 0 /\ ran = {}
    <2>1. ~started
      BY DEF Start
    <2>2. calls = 0
      BY <2>1 DEF HInv, Phases
    <2> QED BY <2>2 DEF HInv, TypeOK
  <1>3. <<User({})>> \in Seq(Upto(calls)) /\ Askable(<<User({})>>)
    BY Known, FirstPrompt
  <1> QED BY <1>1, <1>2, <1>3, BeginH

\* A resume seals and nudges what was saved, or begins with the task when
\* nothing was.
LEMMA ResumeH == ASSUME HInv, Resume PROVE HInv'
  <1> DEFINE ms == IF saved = << >> THEN <<User({})>> ELSE Nudged(Sealed(saved))
  <1>1. /\ at \in {"down", "opened"} /\ (at = "down" => starts < MaxStarts)
        /\ Begin(ms) /\ gone' = gone \ Answers(saved)
        /\ UNCHANGED <<saved, started, calls, notes, ran, lost>>
    BY DEF Resume
  <1>2. started' = TRUE
    BY DEF Resume, HInv, TypeOK
  <1>3. ms \in Seq(Upto(calls)) /\ Askable(ms) /\ Answers(saved) \subseteq Answers(ms)
    <2>1. CASE saved = << >>
      <3>1. Answers(saved) = {}
        BY <2>1 DEF Answers
      <3> QED BY <2>1, <3>1, Known, FirstPrompt
    <2>2. CASE saved # << >>
      <3> DEFINE ss == Sealed(saved)
      <3>1. /\ ss \in Seq(Upto(calls)) /\ ss # << >> /\ Fits(ss)
            /\ Last(ss).role = "user" \/ ~NativeCalls => Closed(ss)
            /\ Answers(saved) \subseteq Answers(ss)
        BY <2>2, Known, SealedFits
      <3> HIDE DEF ss
      <3>2. /\ Nudged(ss) \in Seq(Upto(calls)) /\ Askable(Nudged(ss))
            /\ Answers(ss) \subseteq Answers(Nudged(ss))
        BY <3>1, Known, NudgedAskable
      <3> QED BY <2>2, <3>1, <3>2 DEF ss
    <2> QED BY <2>1, <2>2
  <1> HIDE DEF ms
  <1>4. ran \subseteq Answers(saved) \cup gone \cup lost
    BY <1>1 DEF HInv, Remembered, Unsaved
  <1> QED BY <1>1, <1>2, <1>3, <1>4, BeginH

\* A follow-up is appended to the saved file, whatever that ends with.
LEMMA FollowUpH == ASSUME HInv, FollowUp PROVE HInv'
  <1> DEFINE m == User({"followUp"})
  <1>1. /\ at = "down" /\ at' = "opened" /\ started = TRUE
        /\ saved' = Append(saved, m) /\ starts' = starts + 1
        /\ starts < MaxStarts
        /\ UNCHANGED <<messages, run, started, calls, notes, ran, gone, lost>>
    BY DEF FollowUp, history, HInv, TypeOK
  <1>2. m \in Upto(calls) /\ m.answer = 0 /\ "followUp" \in m.marks
    BY Known, MessageForms DEF User, Mark
  <1> HIDE DEF m
  <1>3. calls \in Nat /\ saved \in Seq(Upto(calls)) /\ Fits(saved)
    BY Known
  <1>4. saved' \in Seq(Upto(calls)) /\ Fits(saved')
    BY <1>1, <1>2, <1>3, AppendFits
  <1>5. Answers(saved') = Answers(saved)
    <2>1. Answers(Append(saved, m)) = Answers(saved) \cup ({m.answer} \ {0})
      BY <1>2, <1>3, AppendAnswers
    <2>2. {m.answer} \ {0} = {}
      BY <1>2
    <2> QED BY <1>1, <2>1, <2>2
  <1>6. TypeOK'
    <2>1. saved' \in Seq(Message)
      BY <1>4, <1>3, UptoHistory
    <2>2. starts' \in 0 .. MaxStarts
      BY <1>1, HistoryAssumption DEF HInv, TypeOK
    <2> QED BY <1>1, <2>1, <2>2 DEF HInv, TypeOK
  <1>7. Phases' /\ Histories'
    BY <1>1, <1>4, Known DEF Phases, Histories, InLoop
  <1>8. Remembered'
    BY <1>1, <1>5 DEF HInv, Remembered, Unsaved
  <1> QED BY <1>6, <1>7, <1>8 DEF HInv

-----------------------------------------------------------------------------
(* The head of a turn *)

\* The history is saved, then the model is asked with it.
LEMMA AskModelH ==
  ASSUME HInv, at \in {"top", "summarizing"}, NEW ms \in Seq(Upto(calls)),
         Askable(ms), AskModel(ms),
         UNCHANGED <<started, calls, starts, ran, lost>>,
         notes' \in 0 .. MaxNotes
  PROVE  HInv'
  <1>1. /\ at' = "model" /\ messages' = ms /\ saved' = ms
        /\ run' = [run EXCEPT !.attempt = 1]
        /\ gone' = gone \cup (Answers(messages) \ Answers(ms))
    BY DEF AskModel
  <1>2. run' \in RunState
    BY <1>1, RunParts DEF HInv, RunState
  <1>3. gone' \in SUBSET (1 .. calls)
    BY <1>1, Known DEF HInv, TypeOK
  <1>4. TypeOK'
    BY <1>1, <1>2, <1>3, Known, UptoHistory DEF HInv, TypeOK, RunState
  <1>5. Phases'
    BY <1>1, Known DEF Phases
  <1>6. Histories'
    BY <1>1 DEF Histories, Askable
  <1>7. Remembered'
    BY <1>1 DEF HInv, Remembered, Unsaved
  <1> QED BY <1>4, <1>5, <1>6, <1>7 DEF HInv

\* A note of the user leaves the history askable.
LEMMA NotedAskable ==
  ASSUME NEW n \in Nat, NEW ms \in Seq(Upto(n)), Askable(ms)
  PROVE  /\ Append(ms, User({})) \in Seq(Upto(n))
         /\ Askable(Append(ms, User({})))
         /\ Answers(Append(ms, User({}))) = Answers(ms)
  <1> DEFINE m == User({})
  <1>1. /\ m \in Upto(n) /\ m.call = 0 /\ m.answer = 0 /\ m.role = "user"
    BY MessageForms DEF User
  <1> HIDE DEF m
  <1>2. Fits(ms) /\ Closed(ms)
    BY DEF Askable
  <1>3. /\ Append(ms, m) \in Seq(Upto(n)) /\ Append(ms, m) # << >>
        /\ Fits(Append(ms, m)) /\ Closed(Append(ms, m))
        /\ Last(Append(ms, m)) = m
    BY <1>1, <1>2, AppendFits
  <1>4. Answers(Append(ms, m)) = Answers(ms)
    <2>1. Answers(Append(ms, m)) = Answers(ms) \cup ({m.answer} \ {0})
      BY <1>1, AppendAnswers
    <2>2. {m.answer} \ {0} = {}
      BY <1>1
    <2> QED BY <2>1, <2>2
  <1> QED BY <1>1, <1>3, <1>4 DEF Askable, m

\* The head of a turn: notes, and the choice to compact or to ask.
LEMMA BeginTurnH == ASSUME HInv, BeginTurn PROVE HInv'
  <1>1. PICK noted \in BOOLEAN :
          LET ms == IF noted THEN Append(messages, User({})) ELSE messages
          IN /\ noted => notes < MaxNotes
             /\ notes' = IF noted THEN notes + 1 ELSE notes
             /\ \/ AskModel(ms)
                \/ TooShort(ms) /\ AskModel(Truncated(ms))
                \/ /\ ~TooShort(ms)
                   /\ at' = "summarizing"
                   /\ messages' = ms
                   /\ UNCHANGED <<saved, run, gone>>
    BY DEF BeginTurn
  <1> DEFINE ms == IF noted THEN Append(messages, User({})) ELSE messages
  <1>2. /\ at = "top" /\ UNCHANGED <<started, calls, starts, ran, lost>>
    BY DEF BeginTurn
  <1>3. notes' \in 0 .. MaxNotes
    BY <1>1, HistoryAssumption DEF HInv, TypeOK
  <1>4. ms \in Seq(Upto(calls)) /\ Askable(ms) /\ Answers(ms) = Answers(messages)
    BY <1>2, Known, NotedAskable DEF InLoop
  <1>5. \/ AskModel(ms) \/ AskModel(Truncated(ms))
        \/ /\ at' = "summarizing" /\ messages' = ms
           /\ UNCHANGED <<saved, run, gone>>
    BY <1>1
  <1> HIDE DEF ms
  <1>6. CASE AskModel(ms)
    BY <1>2, <1>3, <1>4, <1>6, AskModelH
  <1>7. CASE AskModel(Truncated(ms))
    BY <1>2, <1>3, <1>4, <1>7, Known, TruncatedAskable, AskModelH
  <1>8. CASE at' = "summarizing" /\ messages' = ms /\ UNCHANGED <<saved, run, gone>>
    <2>1. TypeOK'
      BY <1>2, <1>3, <1>4, <1>8, Known, UptoHistory DEF HInv, TypeOK
    <2>2. Phases'
      BY <1>2, <1>8, Known DEF Phases
    <2>3. Histories'
      BY <1>2, <1>4, <1>8, Known DEF HInv, Histories, Askable
    <2>4. Remembered'
      BY <1>2, <1>4, <1>8 DEF HInv, Phases, Remembered, Unsaved
    <2> QED BY <2>1, <2>2, <2>3, <2>4 DEF HInv
  <1> QED BY <1>5, <1>6, <1>7, <1>8

\* Both outcomes of a compaction can be asked with.
LEMMA CompactedAskable ==
  ASSUME HInv, Askable(messages), NEW ms \in Compacted
  PROVE  ms \in Seq(Upto(calls)) /\ Askable(ms)
  BY Known, SummarizedAskable, NewerHalfAskable DEF Compacted

\* The rest of the head of a turn after the summary was awaited.
LEMMA SummaryDoneH == ASSUME HInv, SummaryDone PROVE HInv'
  <1>1. PICK ms \in Compacted : AskModel(ms) \/ AskModel(Truncated(ms))
    BY DEF SummaryDone
  <1>2. /\ at = "summarizing"
        /\ UNCHANGED <<started, calls, starts, notes, ran, lost>>
        /\ notes' \in 0 .. MaxNotes
    BY DEF SummaryDone, HInv, TypeOK
  <1>3. ms \in Seq(Upto(calls)) /\ Askable(ms)
    BY <1>2, Known, CompactedAskable DEF InLoop
  <1>4. Truncated(ms) \in Seq(Upto(calls)) /\ Askable(Truncated(ms))
    BY <1>3, Known, TruncatedAskable
  <1> QED BY <1>1, <1>2, <1>3, <1>4, AskModelH

-----------------------------------------------------------------------------
(* The model's answer *)

\* The model says something, calling tools or not.
LEMMA AssistantFits ==
  ASSUME NEW n \in Nat, NEW ms \in Seq(Upto(n)), Askable(ms),
         NEW c \in 0 .. n, NEW marks \in SUBSET Mark
  PROVE  LET ns == Append(ms, Assistant(c, marks))
         IN  /\ ns \in Seq(Upto(n)) /\ ns # << >> /\ Fits(ns)
             /\ Last(ns).call = c
             /\ c = 0 \/ "cut" \in marks => Closed(ns)
             /\ Answers(ns) = Answers(ms)
  <1> DEFINE m == Assistant(c, marks)
  <1>1. /\ m \in Upto(n) /\ m.call = c /\ m.answer = 0 /\ m.marks = marks
    BY MessageForms DEF Assistant
  <1> HIDE DEF m
  <1>2. Fits(ms) /\ Closed(ms)
    BY DEF Askable
  <1>3. /\ Append(ms, m) \in Seq(Upto(n)) /\ Append(ms, m) # << >>
        /\ Fits(Append(ms, m)) /\ Last(Append(ms, m)) = m
        /\ m.call = 0 \/ "cut" \in m.marks => Closed(Append(ms, m))
    BY <1>1, <1>2, AppendFits
  <1>4. Answers(Append(ms, m)) = Answers(ms)
    <2>1. Answers(Append(ms, m)) = Answers(ms) \cup ({m.answer} \ {0})
      BY <1>1, AppendAnswers
    <2>2. {m.answer} \ {0} = {}
      BY <1>1
    <2> QED BY <2>1, <2>2
  <1> QED BY <1>1, <1>3, <1>4 DEF m

\* It is asked to go on.
LEMMA PromptedAskable ==
  ASSUME NEW n \in Nat, NEW ms \in Seq(Upto(n)), Askable(ms),
         NEW c \in 0 .. n, NEW marks \in SUBSET Mark, c = 0 \/ "cut" \in marks
  PROVE  LET ns == ms \o <<Assistant(c, marks), User({})>>
         IN  /\ ns \in Seq(Upto(n)) /\ Askable(ns)
             /\ Answers(ns) = Answers(ms)
  <1> DEFINE m == Assistant(c, marks)
             u == User({})
             s == Append(ms, m)
  <1>1. /\ s \in Seq(Upto(n)) /\ s # << >> /\ Fits(s) /\ Closed(s)
        /\ Answers(s) = Answers(ms)
    BY AssistantFits
  <1>2. /\ u \in Upto(n) /\ u.call = 0 /\ u.answer = 0 /\ u.role = "user"
    BY MessageForms DEF User
  <1>3. m \in Upto(n)
    BY MessageForms
  <1> HIDE DEF m, u
  <1>4. ms \o <<m, u>> = Append(s, u)
    BY <1>2, <1>3
  <1> HIDE DEF s
  <1>5. /\ Append(s, u) \in Seq(Upto(n)) /\ Append(s, u) # << >>
        /\ Fits(Append(s, u)) /\ Closed(Append(s, u))
        /\ Last(Append(s, u)) = u
    BY <1>1, <1>2, AppendFits
  <1>6. Answers(Append(s, u)) = Answers(s)
    <2>1. Answers(Append(s, u)) = Answers(s) \cup ({u.answer} \ {0})
      BY <1>1, <1>2, AppendAnswers
    <2>2. {u.answer} \ {0} = {}
      BY <1>2
    <2> QED BY <2>1, <2>2
  <1> QED BY <1>1, <1>2, <1>4, <1>5, <1>6 DEF Askable, m, u

\* The next turn, or the end when there is none left.
LEMMA NextTurnState ==
  ASSUME TypeOK, NEW r \in RunState, r.turn = run.turn, NextTurn(r)
  PROVE  /\ run' \in RunState /\ run'.attempt = 0
         /\ at' \in {"top", "returned"}
  <1>1. run.turn \in 0 .. MaxTurns /\ MaxTurns \in Nat /\ LlmAttempts \in Nat
    BY RunParts
  <1> DEFINE turn == IF r.turn < MaxTurns THEN r.turn + 1 ELSE r.turn
  <1>2. turn \in 0 .. MaxTurns
    BY <1>1
  <1>3. run' = [[r EXCEPT !.turn = turn] EXCEPT !.attempt = 0]
    BY DEF NextTurn
  <1> HIDE DEF turn
  <1>4. [r EXCEPT !.turn = turn] \in RunState
    BY <1>2, RunWith
  <1>5. run' \in RunState
    <2>1. 0 \in 0 .. LlmAttempts
      BY <1>1
    <2> DEFINE q == [r EXCEPT !.turn = turn]
    <2>2. q \in RunState /\ run' = [q EXCEPT !.attempt = 0]
      BY <1>3, <1>4
    <2> HIDE DEF q
    <2> QED BY <2>1, <2>2, RunWith
  <1>6. run'.attempt = 0
    BY <1>3, <1>4 DEF RunState
  <1> QED BY <1>5, <1>6 DEF NextTurn

\* What the loop does with an answer of the model.
LEMMA OutputH ==
  ASSUME HInv, at = "model",
         UNCHANGED <<saved, started, starts, notes, ran, gone, lost>>,
         calls' \in {calls, calls + 1}, calls' <= MaxCalls,
         messages' \in Seq(Upto(calls')), Fits(messages'),
         Answers(messages) \subseteq Answers(messages'),
         run' \in RunState, at' \in {"top", "tools", "returned"},
         at' = "top" => run'.attempt = 0 /\ Askable(messages'),
         at' = "tools" =>
           /\ calls' # 0
           /\ messages' # << >> /\ Last(messages').call = calls'
  PROVE  HInv'
  <1>1. /\ calls \in Nat /\ calls' \in Nat /\ calls <= calls'
        /\ calls' \in 0 .. MaxCalls
    BY Known, HistoryAssumption
  <1>2. saved' \in Seq(Upto(calls')) /\ Fits(saved')
    BY <1>1, Known, UptoGrows
  <1>3. {ran', gone', lost'} \subseteq SUBSET (1 .. calls')
    <2>1. {ran, gone, lost} \subseteq SUBSET (1 .. calls)
      BY DEF HInv, TypeOK
    <2>2. 1 .. calls \subseteq 1 .. calls'
      BY <1>1
    <2> QED BY <2>1, <2>2
  <1>4. TypeOK'
    <2>1. messages' \in Seq(Message) /\ saved' \in Seq(Message)
      BY <1>1, <1>2, UptoHistory
    <2> QED BY <1>1, <1>3, <2>1 DEF HInv, TypeOK, RunState
  <1>5. Phases'
    BY Known DEF Phases
  <1>6. Histories'
    BY <1>2 DEF Histories, InLoop
  <1>7. Remembered'
    BY DEF HInv, Remembered, Unsaved
  <1> QED BY <1>4, <1>5, <1>6, <1>7 DEF HInv

\* An answer cut off by the token limit: the model is asked to go on.
LEMMA CutOffH == ASSUME HInv, CutOff PROVE HInv'
  <1>1. PICK c \in {0, calls + 1} :
          /\ MayCall(c)
          /\ messages' = messages \o <<Assistant(c, {"cut"}), User({})>>
          /\ calls' = IF c = 0 THEN calls ELSE c
    BY DEF CutOff
  <1>2. /\ at = "model" /\ run.recoveries < RecoveryLimit
        /\ NextTurn([run EXCEPT !.recoveries = @ + 1])
        /\ UNCHANGED <<saved, started, starts, notes, ran, gone, lost>>
    BY DEF CutOff, history
  <1>3. /\ calls \in Nat /\ calls' \in Nat /\ calls <= calls' /\ c \in 0 .. calls'
        /\ calls' \in {calls, calls + 1} /\ calls' <= MaxCalls
    BY <1>1, Known DEF MayCall
  <1>4. messages \in Seq(Upto(calls')) /\ Askable(messages)
    BY <1>2, <1>3, Known, UptoGrows DEF InLoop
  <1>5. /\ messages' \in Seq(Upto(calls')) /\ Askable(messages')
        /\ Answers(messages') = Answers(messages)
    <2>1. {"cut"} \in SUBSET Mark /\ "cut" \in {"cut"}
      BY DEF Mark
    <2> QED BY <1>1, <1>3, <1>4, <2>1, PromptedAskable
  <1>6. /\ run' \in RunState /\ run'.attempt = 0 /\ at' \in {"top", "returned"}
    <2>1. TypeOK
      BY DEF HInv
    <2>2. /\ [run EXCEPT !.recoveries = @ + 1] \in RunState
          /\ [run EXCEPT !.recoveries = @ + 1].turn = run.turn
      BY <1>2, <2>1, RunParts DEF RunState
    <2> QED BY <1>2, <2>1, <2>2, NextTurnState
  <1> QED BY <1>2, <1>3, <1>5, <1>6, OutputH DEF Askable

\* Continuations are counted up to their limit.
LEMMA RecoveriesType ==
  ASSUME TypeOK, NEW r \in Recoveries
  PROVE  r \in 0 .. RecoveryLimit
  BY RunParts DEF Recoveries

\* An answer that calls tools leaves its call open, at the end.
LEMMA CallToolsH == ASSUME HInv, CallTools PROVE HInv'
  <1>1. PICK r \in Recoveries : run' = [run EXCEPT !.recoveries = r, !.nudges = 0]
    BY DEF CallTools
  <1>2. /\ at = "model" /\ MayCall(calls + 1)
        /\ messages' = Append(messages, Assistant(calls + 1, {}))
        /\ calls' = calls + 1 /\ at' = "tools"
        /\ UNCHANGED <<saved, started, starts, notes, ran, gone, lost>>
    BY DEF CallTools, history
  <1>3. /\ calls \in Nat /\ calls' \in Nat /\ calls <= calls'
        /\ calls' \in 0 .. calls' /\ calls' # 0 /\ calls' <= MaxCalls
    BY <1>2, Known DEF MayCall
  <1>4. messages \in Seq(Upto(calls')) /\ Askable(messages)
    BY <1>2, <1>3, Known, UptoGrows DEF InLoop
  <1>5. /\ messages' \in Seq(Upto(calls')) /\ messages' # << >> /\ Fits(messages')
        /\ Last(messages').call = calls'
        /\ Answers(messages') = Answers(messages)
    <2>1. messages' = Append(messages, Assistant(calls', {}))
      BY <1>2
    <2>2. {} \in SUBSET Mark
      OBVIOUS
    <2> QED BY <1>3, <1>4, <2>1, <2>2, AssistantFits
  <1>6. run' \in RunState
    <2>1. TypeOK /\ r \in 0 .. RecoveryLimit
      BY RecoveriesType DEF HInv
    <2>2. [run EXCEPT !.recoveries = r] \in RunState
      BY <2>1, RunParts, RunWith
    <2>3. run' = [[run EXCEPT !.recoveries = r] EXCEPT !.nudges = 0]
      BY <1>1
    <2>4. 0 \in 0 .. NudgeLimit
      BY HistoryAssumption
    <2> QED BY <2>2, <2>3, <2>4, RunWith
  <1> QED BY <1>2, <1>3, <1>5, <1>6, OutputH

\* An answer that ends too early: the model is asked to go on.
LEMMA PrematureH == ASSUME HInv, Premature PROVE HInv'
  <1>1. PICK r \in Recoveries :
          NextTurn([run EXCEPT !.recoveries = r, !.nudges = @ + 1])
    BY DEF Premature
  <1>2. /\ at = "model" /\ run.nudges < NudgeLimit
        /\ messages' = messages \o <<Assistant(0, {}), User({})>>
        /\ UNCHANGED <<saved, started, calls, starts, notes, ran, gone, lost>>
    BY DEF Premature, history
  <1>3. calls \in Nat /\ 0 \in 0 .. calls /\ calls <= MaxCalls
    BY Known
  <1>4. messages \in Seq(Upto(calls)) /\ Askable(messages)
    BY <1>2, Known DEF InLoop
  <1>5. /\ messages' \in Seq(Upto(calls)) /\ Askable(messages')
        /\ Answers(messages') = Answers(messages)
    <2>1. {} \in SUBSET Mark
      OBVIOUS
    <2> QED BY <1>2, <1>3, <1>4, <2>1, PromptedAskable
  <1>6. /\ run' \in RunState /\ run'.attempt = 0 /\ at' \in {"top", "returned"}
    <2> DEFINE q == [run EXCEPT !.recoveries = r, !.nudges = @ + 1]
    <2>1. TypeOK /\ r \in 0 .. RecoveryLimit
      BY RecoveriesType DEF HInv
    <2>2. q \in RunState /\ q.turn = run.turn
      <3>1. [run EXCEPT !.recoveries = r] \in RunState
        BY <2>1, RunParts DEF RunState
      <3>2. q = [[run EXCEPT !.recoveries = r] EXCEPT !.nudges = run.nudges + 1]
        BY <2>1, RunParts DEF RunState
      <3>3. run.nudges + 1 \in 0 .. NudgeLimit
        BY <1>2, <2>1, RunParts
      <3> HIDE DEF q
      <3> QED BY <3>1, <3>2, <3>3, <2>1, RunParts DEF RunState
    <2> HIDE DEF q
    <2>3. NextTurn(q)
      BY <1>1 DEF q
    <2> QED BY <2>1, <2>2, <2>3, NextTurnState
  <1> QED BY <1>2, <1>3, <1>5, <1>6, OutputH DEF Askable

\* An answer that ends the run.
LEMMA FinalAnswerH == ASSUME HInv, FinalAnswer PROVE HInv'
  <1>1. /\ at = "model" /\ at' = "returned"
        /\ messages' = Append(messages, Assistant(0, {}))
        /\ UNCHANGED <<saved, run, started, calls, starts, notes, ran, gone, lost>>
    BY DEF FinalAnswer, history
  <1>2. calls \in Nat /\ 0 \in 0 .. calls /\ calls <= MaxCalls
    BY Known
  <1>3. messages \in Seq(Upto(calls)) /\ Askable(messages)
    BY <1>1, Known DEF InLoop
  <1>4. /\ messages' \in Seq(Upto(calls)) /\ Fits(messages')
        /\ Answers(messages') = Answers(messages)
    <2>1. {} \in SUBSET Mark
      OBVIOUS
    <2> QED BY <1>1, <1>2, <1>3, <2>1, AssistantFits
  <1>5. run' \in RunState
    BY <1>1, RunParts DEF HInv
  <1> QED BY <1>1, <1>2, <1>4, <1>5, OutputH

\* The results of a turn close its call.
LEMMA ToolsDoneH == ASSUME HInv, ToolsDone PROVE HInv'
  <1> DEFINE m == Results(calls)
  <1>1. /\ at = "tools" /\ messages' = Append(messages, m)
        /\ ran' = ran \cup {calls} /\ NextTurn(run)
        /\ UNCHANGED <<saved, started, calls, starts, notes, gone, lost>>
    BY DEF ToolsDone
  <1>2. /\ calls \in Nat /\ calls # 0 /\ calls \in 0 .. calls
        /\ messages # << >> /\ Last(messages).call = calls
        /\ messages \in Seq(Upto(calls)) /\ Fits(messages)
    <2>1. calls # 0 /\ messages # << >> /\ Last(messages).call = calls
      BY <1>1 DEF HInv, Phases
    <2> QED BY <2>1, Known
  <1>3. /\ m \in Upto(calls) /\ m.answer = calls /\ m.call = 0 /\ m.role = "user"
    BY <1>2, MessageForms DEF Results
  <1> HIDE DEF m
  <1>4. /\ messages' \in Seq(Upto(calls)) /\ messages' # << >>
        /\ Last(messages') = m /\ Fits(messages') /\ Closed(messages')
    BY <1>1, <1>2, <1>3, AppendFits
  <1>5. Answers(messages') = Answers(messages) \cup {calls}
    <2>1. Answers(messages') = Answers(messages) \cup ({m.answer} \ {0})
      BY <1>1, <1>2, <1>3, AppendAnswers
    <2>2. {m.answer} \ {0} = {calls}
      BY <1>2, <1>3
    <2> QED BY <2>1, <2>2
  <1>6. /\ run' \in RunState /\ run'.attempt = 0 /\ at' \in {"top", "returned"}
    BY <1>1, RunParts, NextTurnState DEF HInv
  <1>7. TypeOK'
    <2>1. messages' \in Seq(Message)
      BY <1>2, <1>4, UptoHistory
    <2>2. ran' \subseteq 1 .. calls
      BY <1>1, <1>2 DEF HInv, TypeOK
    <2> QED BY <1>1, <1>6, <2>1, <2>2 DEF HInv, TypeOK, RunState
  <1>8. Phases'
    BY <1>1, <1>6, Known DEF Phases
  <1>9. Histories'
    BY <1>1, <1>3, <1>4, Known DEF Histories, Askable
  <1>10. Remembered'
    BY <1>1, <1>5, <1>6 DEF HInv, Remembered, Unsaved
  <1> QED BY <1>7, <1>8, <1>9, <1>10 DEF HInv

-----------------------------------------------------------------------------
(* Errors of the model, and the end of a run *)

\* Steps that leave both histories and the results alone.
LEMMA QuietH ==
  ASSUME HInv, at \notin {"down", "opened"},
         UNCHANGED <<messages, saved, started, calls, starts, notes, ran, gone, lost>>,
         run' \in RunState,
         \/ at' = "model" /\ at = "model"
         \/ at' = "summarizing" /\ at = "model" /\ run'.attempt # 0
         \/ at' = "returned"
  PROVE  HInv'
  <1>1. TypeOK'
    BY DEF HInv, TypeOK, RunState
  <1>2. Phases'
    BY Known DEF Phases
  <1>3. Histories'
    BY Known DEF Histories, InLoop
  <1>4. Remembered'
    BY DEF HInv, Remembered, Unsaved
  <1> QED BY <1>1, <1>2, <1>3, <1>4 DEF HInv

\* Errors of the model and the emergency timeout touch no history.
LEMMA ErrorsH ==
  ASSUME HInv, LlmRetry \/ LlmSummarize \/ LlmFailed \/ EmergencyTimeout
  PROVE  HInv'
  <1>1. run \in RunState
    BY RunParts DEF HInv
  <1>2. CASE LlmRetry
    <2>1. run.attempt + 1 \in 0 .. LlmAttempts
      BY <1>2, RunParts DEF LlmRetry, HInv
    <2>2. run' = [run EXCEPT !.attempt = run.attempt + 1]
      BY <1>2 DEF LlmRetry
    <2>3. run' \in RunState
      BY <1>1, <2>1, <2>2, RunWith
    <2> QED BY <1>2, <2>3, QuietH DEF LlmRetry, history
  <1>3. CASE LlmSummarize
    BY <1>1, <1>3, QuietH DEF LlmSummarize, history
  <1>4. CASE LlmFailed
    BY <1>1, <1>4, QuietH DEF LlmFailed, history
  <1>5. CASE EmergencyTimeout
    BY <1>1, <1>5, QuietH DEF EmergencyTimeout, history
  <1> QED BY <1>2, <1>3, <1>4, <1>5

\* A history that was too long is compacted and asked with again.
LEMMA RetrySummarizedH == ASSUME HInv, RetrySummarized PROVE HInv'
  <1>1. PICK ms \in Compacted :
          /\ messages' = ms
          /\ gone' = gone \cup (Answers(messages) \ Answers(ms))
    BY DEF RetrySummarized
  <1>2. /\ at = "summarizing" /\ run.attempt = 2 /\ at' \in {"model", "returned"}
        /\ UNCHANGED <<saved, started, calls, starts, notes, ran, lost>>
    BY DEF RetrySummarized
  <1>3. ms \in Seq(Upto(calls)) /\ Askable(ms)
    BY <1>2, Known, CompactedAskable DEF InLoop
  <1>4. run' \in RunState
    <2>1. /\ run \in RunState /\ run.attempt \in 0 .. LlmAttempts
          /\ LlmAttempts \in Nat
      BY RunParts DEF HInv
    <2>2. \E x \in 0 .. LlmAttempts : run' = [run EXCEPT !.attempt = x]
      <3> DEFINE x == IF run.attempt < LlmAttempts THEN run.attempt + 1
                                                  ELSE run.attempt
      <3>1. x \in 0 .. LlmAttempts
        BY <2>1
      <3>2. run' = [run EXCEPT !.attempt = x]
        BY DEF RetrySummarized
      <3> HIDE DEF x
      <3> QED BY <3>1, <3>2
    <2> QED BY <2>1, <2>2, RunWith
  <1>5. gone' \in SUBSET (1 .. calls)
    BY <1>1, Known DEF HInv, TypeOK
  <1>6. TypeOK'
    <2>1. messages' \in Seq(Message)
      BY <1>1, <1>3, Known, UptoHistory
    <2> QED BY <1>2, <1>4, <1>5, <2>1 DEF HInv, TypeOK, RunState
  <1>7. Phases'
    BY <1>2, Known DEF Phases
  <1>8. Histories'
    BY <1>1, <1>2, <1>3, Known DEF Histories, Askable
  <1>9. Remembered'
    BY <1>1, <1>2 DEF HInv, Remembered, Unsaved
  <1> QED BY <1>6, <1>7, <1>8, <1>9 DEF HInv

\* The checkpoint at the end saves everything.
LEMMA FinishH == ASSUME HInv, Finish PROVE HInv'
  <1>1. /\ at = "returned" /\ saved' = messages /\ at' = "down"
        /\ messages' = << >> /\ run' = NoRun
        /\ UNCHANGED <<started, calls, starts, notes, ran, gone, lost>>
    BY DEF Finish, history
  <1>2. messages' \in Seq(Upto(calls)) /\ Fits(messages')
    BY <1>1, EmptyFits
  <1>3. TypeOK'
    <2>1. messages' \in Seq(Message) /\ saved' \in Seq(Message)
      BY <1>1 DEF HInv, TypeOK
    <2> QED BY <1>1, <2>1, NoRunState DEF HInv, TypeOK, RunState
  <1>4. Phases'
    BY <1>1, Known DEF Phases
  <1>5. Histories'
    BY <1>1, <1>2, Known DEF Histories, InLoop
  <1>6. Remembered'
    BY <1>1 DEF HInv, Remembered, Unsaved
  <1> QED BY <1>3, <1>4, <1>5, <1>6 DEF HInv

\* What no checkpoint has seen is lost with the process.
LEMMA KilledH == ASSUME HInv, Killed PROVE HInv'
  <1>1. /\ at # "down" /\ at' = "down"
        /\ messages' = << >> /\ run' = NoRun
        /\ lost' = IF at \in {"top", "summarizing", "returned"} /\ calls \in ran
                     THEN lost \cup {calls} ELSE lost
        /\ UNCHANGED <<saved, started, calls, starts, notes, ran, gone>>
    BY DEF Killed
  <1>2. messages' \in Seq(Upto(calls)) /\ Fits(messages')
    BY <1>1, EmptyFits
  <1>3. TypeOK'
    <2>1. messages' \in Seq(Message) /\ saved' \in Seq(Message)
      BY <1>1 DEF HInv, TypeOK
    <2>2. lost' \in SUBSET (1 .. calls)
      BY <1>1 DEF HInv, TypeOK
    <2> QED BY <1>1, <2>1, <2>2, NoRunState DEF HInv, TypeOK, RunState
  <1>4. Phases'
    BY <1>1, Known DEF Phases
  <1>5. Histories'
    BY <1>1, <1>2, Known DEF Histories, InLoop
  <1>6. Remembered'
    BY <1>1 DEF HInv, Remembered, Unsaved
  <1> QED BY <1>3, <1>4, <1>5, <1>6 DEF HInv

\* A step that changes nothing keeps the invariant.
LEMMA StutterH == ASSUME HInv, UNCHANGED vars PROVE HInv'
  BY DEF vars, HInv, TypeOK, Phases, Histories, Remembered, Unsaved, InLoop

\* HInv is an inductive invariant: no turn, compaction, error, crash, resume
\* or follow-up leaves it.
THEOREM HInductive == Spec => []HInv
  <1>1. HInv /\ [Next]_vars => HInv'
    <2> SUFFICES ASSUME HInv, [Next]_vars PROVE HInv'
      OBVIOUS
    <2>1. CASE Start \/ FollowUp \/ Resume
      BY <2>1, StartH, FollowUpH, ResumeH
    <2>2. CASE BeginTurn \/ SummaryDone
      BY <2>2, BeginTurnH, SummaryDoneH
    <2>3. CASE CutOff \/ CallTools \/ Premature \/ FinalAnswer \/ ToolsDone
      BY <2>3, CutOffH, CallToolsH, PrematureH, FinalAnswerH, ToolsDoneH
    <2>4. CASE LlmRetry \/ LlmSummarize \/ LlmFailed \/ EmergencyTimeout
      BY <2>4, ErrorsH
    <2>5. CASE RetrySummarized \/ Finish \/ Killed
      BY <2>5, RetrySummarizedH, FinishH, KilledH
    <2>6. CASE UNCHANGED vars
      BY <2>6, StutterH
    <2> QED BY <2>1, <2>2, <2>3, <2>4, <2>5, <2>6 DEF Next, Loop
  <1> QED BY <1>1, InitH, PTL DEF Spec

\* Messages are well formed, and every counter of the loop stays within its
\* limit: turns, attempts, nudges and continuations.
THEOREM TypeCorrect == Spec => []TypeOK
  <1>1. HInv => TypeOK
    BY DEF HInv
  <1> QED BY <1>1, HInductive, PTL

\* The model is never asked with a call that lost its results, or results that
\* lost their call, other than where a compaction, a follow-up, the token limit
\* or the seal of a native history cut between them.
THEOREM CallsStayAnswered == Spec => []CallsAnswered
  <1>1. HInv => CallsAnswered
    <2> SUFFICES ASSUME HInv, at = "model", NEW i \in DOMAIN messages
                 PROVE  /\ messages[i].call # 0 /\ ~Answered(messages, i) =>
                             \/ "cut" \in messages[i].marks
                             \/ /\ i < Len(messages)
                                /\ \/ {"seam", "followUp"}
                                         \cap messages[i + 1].marks # {}
                                   \/ /\ NativeCalls
                                      /\ "nudge" \in messages[i + 1].marks
                        /\ messages[i].answer # 0 =>
                             Called(messages, i) \/ "seam" \in messages[i].marks
      BY DEF CallsAnswered
    <2>1. messages \in Seq(Upto(calls)) /\ Askable(messages)
      BY Known DEF InLoop
    <2>2. CallFits(messages, i) /\ AnswerFits(messages, i)
      BY <2>1 DEF Askable, Fits
    <2>3. CASE i < Len(messages)
      BY <2>2, <2>3 DEF CallFits, AnswerFits, Answered
    <2>4. CASE i = Len(messages)
      <3>1. messages[i].call = 0 \/ "cut" \in messages[i].marks
        BY <2>1, <2>4 DEF Askable, Closed, Last
      <3> QED BY <2>2, <3>1 DEF AnswerFits
    <2>5. i < Len(messages) \/ i = Len(messages)
      BY <2>1
    <2> QED BY <2>3, <2>4, <2>5
  <1> QED BY <1>1, HInductive, PTL

\* The model is always asked with a history that ends on a user turn, whatever
\* was compacted, sealed, nudged or appended before.
THEOREM AlwaysEndsOnUser == Spec => []EndsOnUser
  <1>1. HInv => EndsOnUser
    BY Known DEF EndsOnUser, InLoop, Askable
  <1> QED BY <1>1, HInductive, PTL

\* A result that reached the history is in what the next request sends, in this
\* process or a later one, or was compacted away, or was lost with a process
\* that died before it was saved.
THEOREM NothingIsForgotten == Spec => []NothingForgotten
  <1>1. HInv => NothingForgotten
    BY DEF HInv, Remembered, NothingForgotten
  <1> QED BY <1>1, HInductive, PTL
=============================================================================
