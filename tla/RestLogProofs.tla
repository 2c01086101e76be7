---------------------------- MODULE RestLogProofs -----------------------------
(***************************************************************************)
(* Proofs about RestLog on its own, for any threads, lines and level.      *)
(***************************************************************************)
EXTENDS RestLog, SequenceTheorems, TLAPS

-----------------------------------------------------------------------------
(* The inductive invariant *)

MaybeLine == Lines \cup {<<>>}
LineSeq == Seq(Lines)

WriterType == [at : {"out", "lock", "push", "unlock"}, line : MaybeLine, found : LineSeq]

QueueTypeOK ==
    /\ messages \in Seq(Lines) /\ batch \in Seq(Lines)
    /\ sent \in Seq(Lines) /\ written \in Seq(Lines)
    /\ arrived \subseteq Lines /\ lost \subseteq Lines
    /\ locked \in BOOLEAN /\ stray \in BOOLEAN
    /\ run \in {"unborn", "test", "collect", "send", "unlock"}

WritersTypeOK ==
    /\ writer \in [Threads -> WriterType]
    /\ \A t \in Threads : writer[t].at # "out" => writer[t].line \in Lines

\* Thread t has taken the mutex in Write.
Inside(t) == writer[t].at \in {"push", "unlock"}

\* The mutex keeps one thread in the queue, which is as that thread found it.
Exclusive ==
    /\ locked <=> (run = "collect" \/ \E t \in Threads : Inside(t))
    /\ \A t, u \in Threads : Inside(t) /\ Inside(u) => t = u
    /\ run = "collect" => \A t \in Threads : ~Inside(t)
    /\ \A t \in Threads : writer[t].at = "push" => writer[t].found = messages

\* The batch is empty but between Collect and Sending.
BatchSent == run # "send" => batch = <<>>

IInv == QueueTypeOK /\ WritersTypeOK /\ BatchSent /\ (~stray => Exclusive) /\ LinesInOrder

-----------------------------------------------------------------------------
LEMMA TypeFollows == QueueTypeOK /\ WritersTypeOK => RestLogTypeOK
  BY DEF QueueTypeOK, WritersTypeOK, RestLogTypeOK, WriterType, LineSeq

LEMMA LineSets == <<>> \in MaybeLine /\ Lines \subseteq MaybeLine /\ <<>> \in LineSeq
<1>1. <<>> \in LineSeq
  BY DEF LineSeq
<1> QED BY <1>1 DEF MaybeLine

\* What is put behind the last of two sequences is put behind both.
LEMMA AppendBehind ==
    ASSUME NEW a \in Seq(Lines), NEW b \in Seq(Lines), NEW x \in Lines
    PROVE  Append(a \o b, x) = a \o Append(b, x)
<1>1. <<x>> \in Seq(Lines) /\ a \o b \in Seq(Lines)
  BY ConcatProperties
<1>2. Append(a \o b, x) = (a \o b) \o <<x>> /\ Append(b, x) = b \o <<x>>
  BY <1>1, AppendIsConcat
<1> QED BY <1>1, <1>2, ConcatAssociative

LEMMA InitInv == RestLogInit => IInv
<1> SUFFICES ASSUME RestLogInit PROVE IInv
  OBVIOUS
<1> USE DEF RestLogInit
<1>1. QueueTypeOK
  <2>1. <<>> \in Seq(Lines)
    OBVIOUS
  <2> QED BY <2>1 DEF QueueTypeOK
<1>2. WritersTypeOK
  <2>1. [at |-> "out", line |-> <<>>, found |-> <<>>] \in WriterType
    BY LineSets DEF WriterType
  <2> QED BY <2>1 DEF WritersTypeOK
<1>3. BatchSent /\ LinesInOrder
  BY DEF BatchSent, LinesInOrder
<1>4. Exclusive
  BY DEF Exclusive, Inside
<1> QED BY <1>1, <1>2, <1>3, <1>4 DEF IInv

-----------------------------------------------------------------------------
(* The writers *)

LEMMA LogInv ==
    ASSUME NEW t \in Threads, NEW level \in FATAL..DEBUG, NEW text \in Texts,
           IInv, Log(t, level, text)
    PROVE  IInv'
<1> USE DEF IInv, Log
<1>1. CASE run = "unborn" \/ level > RestLevel
  BY <1>1 DEF QueueTypeOK, WritersTypeOK, BatchSent, Exclusive, Inside, LinesInOrder
<1>2. CASE ~(run = "unborn" \/ level > RestLevel)
  <2>1. <<level, text>> \in Lines
    BY DEF Lines
  <2>2. writer' = [writer EXCEPT ![t] =
                     [at |-> "lock", line |-> <<level, text>>, found |-> <<>>]]
    BY <1>2
  <2>3. QueueTypeOK' /\ BatchSent' /\ LinesInOrder'
    BY DEF QueueTypeOK, BatchSent, LinesInOrder
  <2>4. WritersTypeOK'
    <3>1. [at |-> "lock", line |-> <<level, text>>, found |-> <<>>] \in WriterType
      BY <2>1, LineSets DEF WriterType
    <3> QED BY <2>1, <2>2, <3>1 DEF WritersTypeOK
  <2>5. ASSUME ~stray PROVE Exclusive'
    <3>1. \A u \in Threads : u # t => writer'[u] = writer[u]
      BY <2>2 DEF WritersTypeOK
    <3>2. ~Inside(t) /\ writer'[t].at = "lock"
      BY <2>2 DEF WritersTypeOK, Inside, Returned
    <3>3. \A u \in Threads : Inside(u)' <=> Inside(u)
      BY <3>1, <3>2 DEF Inside
    <3> QED BY <2>5, <3>1, <3>2, <3>3 DEF Exclusive
  <2> QED BY <2>3, <2>4, <2>5
<1> QED BY <1>1, <1>2

LEMMA LockInv == ASSUME NEW t \in Threads, IInv, Lock(t) PROVE IInv'
<1> USE DEF IInv, Lock
<1>1. /\ \A u \in Threads : u # t => writer'[u] = writer[u]
      /\ writer'[t] = [writer[t] EXCEPT !.at = "push", !.found = messages]
  BY DEF WritersTypeOK
<1>2. QueueTypeOK' /\ BatchSent' /\ LinesInOrder'
  BY DEF QueueTypeOK, BatchSent, LinesInOrder
<1>3. WritersTypeOK'
  <2>1. messages \in LineSeq
    BY DEF QueueTypeOK, LineSeq
  <2>2. writer'[t] \in WriterType /\ writer[t].line \in Lines /\ writer'[t].line = writer[t].line
    BY <1>1, <2>1 DEF WritersTypeOK, WriterType
  <2> QED BY <1>1, <2>2 DEF WritersTypeOK
<1>4. ASSUME ~stray PROVE Exclusive'
  <2>1. writer'[t].at = "push" /\ writer'[t].found = messages
    BY <1>1 DEF WritersTypeOK, WriterType
  <2> QED BY <1>1, <1>4, <2>1 DEF Exclusive, Inside
<1> QED BY <1>2, <1>3, <1>4

LEMMA PushInv == ASSUME NEW t \in Threads, IInv, Push(t) PROVE IInv'
<1> USE DEF IInv, Push
<1>1. /\ \A u \in Threads : u # t => writer'[u] = writer[u]
      /\ writer'[t] = [writer[t] EXCEPT !.at = "unlock", !.found = <<>>]
  BY DEF WritersTypeOK
<1>2. writer[t].line \in Lines /\ writer[t].found \in Seq(Lines)
  BY DEF WritersTypeOK, WriterType, LineSeq
<1>3. QueueTypeOK' /\ BatchSent'
  BY <1>2 DEF QueueTypeOK, BatchSent
<1>4. WritersTypeOK'
  <2>1. writer'[t] \in WriterType /\ writer'[t].line = writer[t].line
    BY <1>1, LineSets DEF WritersTypeOK, WriterType
  <2> QED BY <1>1, <1>2, <2>1 DEF WritersTypeOK
<1>5. ASSUME ~stray PROVE Exclusive'
  <2>1. writer'[t].at = "unlock"
    BY <1>1 DEF WritersTypeOK, WriterType
  <2> QED BY <1>1, <1>5, <2>1 DEF Exclusive, Inside
<1>6. ASSUME ~stray PROVE written' = (sent \o batch \o messages)'
  <2>1. messages' = Append(messages, writer[t].line)
    BY <1>6 DEF Exclusive
  <2>2. written' = Append(sent \o batch \o messages, writer[t].line)
    BY <1>6 DEF LinesInOrder
  <2>3. DEFINE before == sent \o batch
  <2>4. before \in Seq(Lines) /\ messages \in Seq(Lines) /\ sent' \o batch' = before
    BY DEF QueueTypeOK
  <2> HIDE DEF before
  <2>6. Append(before \o messages, writer[t].line) = before \o Append(messages, writer[t].line)
    BY <1>2, <2>4, AppendBehind, Zenon
  <2>7. written' = Append(before \o messages, writer[t].line)
    BY <2>2 DEF before
  <2> QED BY <2>1, <2>4, <2>6, <2>7
<1> QED BY <1>3, <1>4, <1>5, <1>6 DEF LinesInOrder

LEMMA UnlockInv == ASSUME NEW t \in Threads, IInv, Unlock(t) PROVE IInv'
<1> USE DEF IInv, Unlock
<1>1. /\ \A u \in Threads : u # t => writer'[u] = writer[u]
      /\ writer'[t] = [writer[t] EXCEPT !.at = "out", !.line = <<>>]
  BY DEF WritersTypeOK
<1>2. QueueTypeOK' /\ BatchSent' /\ LinesInOrder'
  BY DEF QueueTypeOK, BatchSent, LinesInOrder
<1>3. WritersTypeOK'
  <2>1. writer'[t] = [at |-> "out", line |-> <<>>, found |-> writer[t].found]
    BY DEF WritersTypeOK, WriterType
  <2>2. writer[t].found \in LineSeq
    BY DEF WritersTypeOK, WriterType
  <2>3. writer'[t] \in WriterType /\ writer'[t].at = "out"
    <3>1. "out" \in {"out", "lock", "push", "unlock"} /\ <<>> \in MaybeLine
      BY LineSets
    <3>2. [at |-> "out", line |-> <<>>, found |-> writer[t].found] \in WriterType
      BY <2>2, <3>1 DEF WriterType
    <3> QED BY <2>1, <3>2
  <2> QED BY <1>1, <2>3 DEF WritersTypeOK
<1>4. ASSUME ~stray PROVE Exclusive'
  <2>1. writer'[t].at = "out"
    BY <1>1 DEF WritersTypeOK, WriterType
  <2> QED BY <1>1, <1>4, <2>1 DEF Exclusive, Inside
<1> QED BY <1>2, <1>3, <1>4

-----------------------------------------------------------------------------
(* run() *)

LEMMA RunInv == ASSUME IInv, Run PROVE IInv'
<1> USE DEF IInv
<1>1. CASE TryLock
  BY <1>1 DEF TryLock, QueueTypeOK, WritersTypeOK, BatchSent, Exclusive, Inside, LinesInOrder
<1>2. CASE TryLockFails
  BY <1>2 DEF TryLockFails, QueueTypeOK, WritersTypeOK, BatchSent, Exclusive, Inside, LinesInOrder
<1>3. CASE Collect
  <2> USE <1>3 DEF Collect
  <2>1. QueueTypeOK' /\ WritersTypeOK' /\ BatchSent'
    BY DEF QueueTypeOK, WritersTypeOK, BatchSent
  <2>2. ASSUME ~stray PROVE Exclusive'
    BY <2>2 DEF Exclusive, Inside
  <2>3. ASSUME ~stray PROVE written' = (sent \o batch \o messages)'
    <3>1. batch = <<>> /\ written = sent \o batch \o messages
      BY <2>3 DEF BatchSent, LinesInOrder
    <3> QED BY <3>1 DEF QueueTypeOK
  <2> QED BY <2>1, <2>2, <2>3 DEF LinesInOrder
<1>4. CASE Sending
  <2> USE <1>4 DEF Sending
  <2>0. Range(batch) \subseteq Lines
    <3>1. \A k \in DOMAIN batch : batch[k] \in Lines
      BY DEF QueueTypeOK
    <3> QED BY <3>1 DEF Range
  <2>1. QueueTypeOK' /\ WritersTypeOK' /\ BatchSent'
    <3>1. arrived' \subseteq Lines /\ lost' \subseteq Lines
      BY <2>0 DEF QueueTypeOK
    <3>2. sent' \in Seq(Lines) /\ batch' \in Seq(Lines)
      BY DEF QueueTypeOK
    <3> QED BY <3>1, <3>2 DEF QueueTypeOK, WritersTypeOK, BatchSent
  <2>2. ASSUME ~stray PROVE Exclusive'
    BY <2>2 DEF Exclusive, Inside
  <2>3. ASSUME ~stray PROVE written' = (sent \o batch \o messages)'
    BY <2>3 DEF LinesInOrder, QueueTypeOK
  <2> QED BY <2>1, <2>2, <2>3 DEF LinesInOrder
<1>5. CASE UnlockAnyway
  BY <1>5 DEF UnlockAnyway, QueueTypeOK, WritersTypeOK, BatchSent, Exclusive, Inside, LinesInOrder
<1> QED BY <1>1, <1>2, <1>3, <1>4, <1>5 DEF Run

LEMMA StepInv == ASSUME IInv, [RestLogNext]_restVars PROVE IInv'
<1>1. CASE Run
  BY <1>1, RunInv
<1>2. ASSUME NEW t \in Threads, Write(t) PROVE IInv'
  BY <1>2, LockInv, PushInv, UnlockInv DEF Write
<1>3. CASE Connect
  BY <1>3 DEF Connect, IInv, QueueTypeOK, WritersTypeOK, BatchSent, Exclusive, Inside, LinesInOrder
<1>4. ASSUME NEW t \in Threads, NEW level \in FATAL..DEBUG, NEW text \in Texts,
             Log(t, level, text)
      PROVE  IInv'
  BY <1>4, LogInv
<1>5. CASE UNCHANGED restVars
  BY <1>5 DEF restVars, IInv, QueueTypeOK, WritersTypeOK, BatchSent, Exclusive, Inside, LinesInOrder
<1> QED BY <1>1, <1>2, <1>3, <1>4, <1>5 DEF RestLogNext, RestLogStep

LEMMA InvHolds == RestLogSpec => []IInv
BY InitInv, StepInv, PTL DEF RestLogSpec

-----------------------------------------------------------------------------
\* The type invariant of the log destination (restLoggerDestination.cpp).
THEOREM RestLogTypeCorrect == RestLogSpec => []RestLogTypeOK
<1>1. IInv => RestLogTypeOK
  BY TypeFollows DEF IInv
<1> QED BY <1>1, InvHolds, PTL

\* As long as run() has not unlocked a mutex it did not take, no line is lost,
\* doubled or overtaken between Write and the post, for any number of threads.
THEOREM RestLogKeepsOrder == RestLogSpec => []LinesInOrder
<1>1. IInv => LinesInOrder
  BY DEF IInv
<1> QED BY <1>1, InvHolds, PTL
=============================================================================
