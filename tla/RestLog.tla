------------------------------ MODULE RestLog --------------------------------
(***************************************************************************)
(* src/src/restLoggerDestination.cpp, the log destination that posts its   *)
(* lines to the IHM, and the filter of src/misc/logging.cpp before it.     *)
(*                                                                         *)
(* A thread that logs a line stays inside Write, from Log to the step back *)
(* to "out".  Write puts the line in the queue messages under queue_mutex; *)
(* the thread run() takes the lines out, several at a time.                *)
(*                                                                         *)
(* The queue is read and written in two steps, so that two threads inside  *)
(* at once can undo each other's work, as they can in a std::queue.        *)
(***************************************************************************)
EXTENDS Naturals, Sequences, Functions, SequencesExt

CONSTANTS
    Threads,     \* the threads that log
    Texts,       \* what a line can say
    RestLevel    \* the level in the settings (logger.rest.level)

FATAL == 1
WARN == 2
INFO == 3
DEBUG == 4

Lines == (FATAL..DEBUG) \X Texts

ASSUME RestLevelAssumption == RestLevel \in 0..DEBUG

VARIABLES
    messages,    \* the queue
    locked,      \* queue_mutex
    writer,      \* each thread's place in Write, its line, the queue it found
    run,         \* where run() is
    batch,       \* the lines run() has taken and not yet sent
    sent,        \* history: every line given to Sending, in order
    arrived, lost, \* history: the lines of the posts that reached the IHM, and of those
                 \* that failed
    written,     \* history: every line pushed, in order
    stray        \* history: run() has unlocked the mutex of another thread

restVars == <<messages, locked, writer, run, batch, sent, arrived, lost, written, stray>>

RestLogInit ==
    /\ messages = <<>> /\ locked = FALSE
    /\ writer = [t \in Threads |-> [at |-> "out", line |-> <<>>, found |-> <<>>]]
    /\ run = "unborn" /\ batch = <<>>
    /\ sent = <<>> /\ arrived = {} /\ lost = {} /\ written = <<>> /\ stray = FALSE

\* The thread has returned from Write.
Returned(t) == writer[t].at = "out"

\* LogLine::Write calls Write of every destination; a line above the level of
\* this one, or written before it is connected, goes no further.
Log(t, level, text) ==
    /\ Returned(t)
    /\ writer' = IF run = "unborn" \/ level > RestLevel THEN writer
                 ELSE [writer EXCEPT ![t] =
                         [at |-> "lock", line |-> <<level, text>>, found |-> <<>>]]
    /\ UNCHANGED <<messages, locked, run, batch, sent, arrived, lost, written, stray>>

\* Master::InitRestLog: the thread is started and the destination connected.
Connect ==
    /\ run = "unborn" /\ run' = "test"
    /\ UNCHANGED <<messages, locked, writer, batch, sent, arrived, lost, written, stray>>

\* Mutant: the queue is used without its mutex.
LockNothing(t) ==
    /\ writer[t].at = "lock"
    /\ writer' = [writer EXCEPT ![t].at = "push", ![t].found = messages]
    /\ UNCHANGED <<messages, locked, run, batch, sent, arrived, lost, written, stray>>

Lock(t) ==
    /\ writer[t].at = "lock" /\ ~locked
    /\ locked' = TRUE
    /\ writer' = [writer EXCEPT ![t].at = "push", ![t].found = messages]
    /\ UNCHANGED <<messages, run, batch, sent, arrived, lost, written, stray>>

Push(t) ==
    /\ writer[t].at = "push"
    /\ messages' = Append(writer[t].found, writer[t].line)
    /\ written' = Append(written, writer[t].line)
    /\ writer' = [writer EXCEPT ![t].at = "unlock", ![t].found = <<>>]
    /\ UNCHANGED <<locked, run, batch, sent, arrived, lost, stray>>

Unlock(t) ==
    /\ writer[t].at = "unlock"
    /\ locked' = FALSE
    /\ writer' = [writer EXCEPT ![t].at = "out", ![t].line = <<>>]
    /\ UNCHANGED <<messages, run, batch, sent, arrived, lost, written, stray>>

-----------------------------------------------------------------------------
(* run().                                                                  *)

\* messages.empty() and try_lock: anything in the queue, and the mutex free.
TryLock ==
    /\ run = "test" /\ messages # <<>> /\ ~locked
    /\ locked' = TRUE /\ run' = "collect"
    /\ UNCHANGED <<messages, writer, batch, sent, arrived, lost, written, stray>>

TryLockFails ==
    /\ run = "test" /\ (messages = <<>> \/ locked)
    /\ run' = "unlock"
    /\ UNCHANGED <<messages, locked, writer, batch, sent, arrived, lost, written, stray>>

\* The lines that are there, and unlock.
Collect ==
    /\ run = "collect"
    /\ batch' = messages /\ messages' = <<>>
    /\ locked' = FALSE /\ run' = "send"
    /\ UNCHANGED <<writer, sent, arrived, lost, written, stray>>

\* Sending: one post for the whole batch.  Without memory or a handle of curl there is
\* none, a failure is only printed, and the lines are gone.
Sending ==
    /\ run = "send"
    /\ sent' = sent \o batch /\ batch' = <<>>
    /\ \/ arrived' = arrived \cup Range(batch) /\ UNCHANGED lost
       \/ lost' = lost \cup Range(batch) /\ UNCHANGED arrived
    /\ run' = "test"
    /\ UNCHANGED <<messages, locked, writer, written, stray>>

\* The unlock after the loop, whether or not try_lock took the mutex: if it is
\* locked here, another thread holds it.  Then a pause, and all over again.
UnlockAnyway ==
    /\ run = "unlock"
    /\ stray' = (stray \/ locked)
    /\ locked' = FALSE /\ run' = "test"
    /\ UNCHANGED <<messages, writer, batch, sent, arrived, lost, written>>

Run == TryLock \/ TryLockFails \/ Collect \/ Sending \/ UnlockAnyway

Write(t) == Lock(t) \/ Push(t) \/ Unlock(t)

RestLogStep == Run \/ \E t \in Threads : Write(t)

\* The component on its own: any thread may log anything at any time.
RestLogNext ==
    \/ RestLogStep
    \/ Connect
    \/ \E t \in Threads, level \in FATAL..DEBUG, text \in Texts : Log(t, level, text)

RestLogSpec == RestLogInit /\ [][RestLogNext]_restVars

-----------------------------------------------------------------------------
(* Properties.                                                             *)

RestLogTypeOK ==
    /\ messages \in Seq(Lines) /\ batch \in Seq(Lines)
    /\ sent \in Seq(Lines) /\ written \in Seq(Lines)
    /\ arrived \subseteq Lines /\ lost \subseteq Lines
    /\ locked \in BOOLEAN /\ stray \in BOOLEAN
    /\ run \in {"unborn", "test", "collect", "send", "unlock"}
    /\ \A t \in Threads :
         /\ writer[t].at \in {"out", "lock", "push", "unlock"}
         /\ writer[t].at # "out" => writer[t].line \in Lines
         /\ writer[t].found \in Seq(Lines)

\* As long as run() has not unlocked a mutex it did not take, every line pushed was
\* given to Sending, is about to be, or is in the queue: once, and in the order it was
\* pushed.
LinesInOrder == ~stray => written = sent \o batch \o messages
=============================================================================
