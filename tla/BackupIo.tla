------------------------------ MODULE BackupIo ------------------------------
(***************************************************************************)
(* A backup operation started from Node: sealBackupObjectV1 and            *)
(* openBackupObjectV1 of kchat-napi.                                       *)
(*                                                                         *)
(* The operation runs on a thread of its own.  Whenever it needs a chunk,  *)
(* or has one to write, it queues a call of a JavaScript function and      *)
(* waits, in turns of 20 ms, for that function's promise to be answered    *)
(* over a channel made for this one call, for cancellation, or for the     *)
(* environment to be closed.  Its outcome settles the promise the caller   *)
(* holds.  Which calls it makes, and in which order, is BackupObject's     *)
(* business: here the operation makes any of them and then ends.           *)
(***************************************************************************)
EXTENDS Integers, FiniteSets

CONSTANTS
    MaxCalls    \* bound on the callbacks one operation makes

ASSUME CallsAssumption == MaxCalls \in Nat

VARIABLES
    tpc,        \* where the kchat-backup-io thread is
    made,       \* callbacks made so far; the last is the one it waits for
    writes,     \* those of them that write a chunk
    queue,      \* calls on their way to the JavaScript thread
    unsettled,  \* calls whose promise the application has not settled
    answers,    \* the answer in each call's channel
    cancelled,  \* BackupCancellation
    closed,     \* the environment is closing: calls are no longer delivered
    result,     \* what compute() returned
    promise,    \* the promise the caller holds
    struck      \* (history) cancel() came while the thread was waiting

ioVars == <<tpc, made, writes, queue, unsettled, answers, cancelled, closed,
            result, promise, struck>>

Calls == 1 .. MaxCalls
NoAnswer == "no_answer"

IoInit ==
    /\ tpc = "none"
    /\ made = 0 /\ writes = {}
    /\ queue = {} /\ unsettled = {}
    /\ answers = [c \in Calls |-> NoAnswer]
    /\ cancelled = FALSE /\ closed = FALSE
    /\ result = "none" /\ promise = "none"
    /\ struck = FALSE

\* The exported function: a cancelled token is refused at once, and so is
\* an operation whose thread cannot be started.
Start ==
    /\ tpc = "none" /\ promise = "none" /\ ~closed
    /\ \/ /\ ~cancelled
          /\ tpc' = "run" /\ promise' = "pending"
       \/ promise' = "thrown" /\ UNCHANGED tpc
    /\ UNCHANGED <<made, writes, queue, unsettled, answers, cancelled, closed, result, struck>>

(* The thread.                                                             *)

End(r) == tpc' = "settle" /\ result' = r

\* read_chunk or write_chunk: the call is queued, unless cancelled, closing, or
\* the queue of one call is full.
CallBack(write) ==
    /\ tpc = "run" /\ made < MaxCalls
    /\ IF cancelled
       THEN End("cancelled") /\ UNCHANGED <<made, writes, queue>>
       ELSE IF closed \/ queue # {}
       THEN End("io_error") /\ UNCHANGED <<made, writes, queue>>
       ELSE /\ tpc' = "wait"
            /\ made' = made + 1
            /\ writes' = IF write THEN writes \cup {made + 1} ELSE writes
            /\ queue' = queue \cup {made + 1}
            /\ UNCHANGED result
    /\ UNCHANGED <<unsettled, answers, cancelled, closed, promise, struck>>

\* Wrong version: cancellation is only noticed between two answers.
WaitForAnswer ==
    /\ tpc = "wait" /\ answers[made] # NoAnswer
    /\ IF cancelled THEN End("cancelled")
       ELSE IF answers[made] = "ok" THEN tpc' = "run" /\ UNCHANGED result
       ELSE End(answers[made])
    /\ UNCHANGED <<made, writes, queue, unsettled, answers, cancelled, closed, promise, struck>>

\* Wrong version: an answer counts although the operation was cancelled.
WaitAnswerFirst ==
    /\ tpc = "wait"
    /\ \/ /\ answers[made] # NoAnswer
          /\ IF answers[made] = "ok" THEN tpc' = "run" /\ UNCHANGED result
             ELSE End(answers[made])
       \/ cancelled /\ End("cancelled")
       \/ closed /\ End("io_error")
    /\ UNCHANGED <<made, writes, queue, unsettled, answers, cancelled, closed, promise, struck>>

\* Wrong version: the call is not waited for.
WaitNot ==
    /\ tpc = "wait"
    /\ IF cancelled THEN End("cancelled") ELSE tpc' = "run" /\ UNCHANGED result
    /\ UNCHANGED <<made, writes, queue, unsettled, answers, cancelled, closed, promise, struck>>

\* wait_for_callback: each turn looks at the flag, the environment and the
\* channel, and at the flag again when an answer has come.
wait_for_callback ==
    /\ tpc = "wait"
    /\ \/ cancelled /\ End("cancelled")
       \/ closed /\ End("io_error")
       \/ /\ ~cancelled /\ answers[made] # NoAnswer
          /\ IF answers[made] = "ok" THEN tpc' = "run" /\ UNCHANGED result
             ELSE End(answers[made])
    /\ UNCHANGED <<made, writes, queue, unsettled, answers, cancelled, closed, promise, struck>>

\* The core returns: done, or with an error of its own; a panic is caught.
CoreReturns ==
    /\ tpc = "run"
    /\ \E r \in {"ok", "core_error", "invalid_state"} : End(r)
    /\ UNCHANGED <<made, writes, queue, unsettled, answers, cancelled, closed, promise, struck>>

\* The operation is cancelled when it looks at the flag on its own account.
CoreSeesCancel ==
    /\ tpc = "run" /\ cancelled
    /\ End("cancelled")
    /\ UNCHANGED <<made, writes, queue, unsettled, answers, cancelled, closed, promise, struck>>

(* The JavaScript thread.                                                  *)

\* Only the first answer finds room in the channel.
Answer(c, a) ==
    answers' = [answers EXCEPT ![c] = IF @ = NoAnswer THEN a ELSE @]

\* The queued function is called: it returns a promise, or throws.
Invoke(c) ==
    /\ c \in queue /\ ~closed
    /\ queue' = queue \ {c}
    /\ \/ unsettled' = unsettled \cup {c} /\ UNCHANGED answers
       \/ Answer(c, "io_error") /\ UNCHANGED unsettled
    /\ UNCHANGED <<tpc, made, writes, cancelled, closed, result, promise, struck>>

\* The promise is fulfilled, with a chunk that may be longer than asked for,
\* or rejected, or dropped without either, which closes the channel.
SettleCall(c) ==
    /\ c \in unsettled /\ ~closed
    /\ unsettled' = unsettled \ {c}
    /\ \/ \E a \in {"ok", "io_error"} : Answer(c, a)
       \/ c \notin writes /\ Answer(c, "invalid_state")
    /\ UNCHANGED <<tpc, made, writes, queue, cancelled, closed, result, promise, struck>>

cancel ==
    /\ ~cancelled
    /\ cancelled' = TRUE
    /\ struck' = (tpc = "wait")
    /\ UNCHANGED <<tpc, made, writes, queue, unsettled, answers, closed, result, promise>>

CloseEnvironment ==
    /\ ~closed
    /\ closed' = TRUE
    /\ queue' = {}
    /\ UNCHANGED <<tpc, made, writes, unsettled, answers, cancelled, result, promise, struck>>

\* deferred.resolve: task.resolve or task.reject runs on the JavaScript thread.
Settle ==
    /\ tpc = "settle"
    /\ tpc' = "ended"
    /\ promise' = IF closed THEN promise
                  ELSE IF result = "ok" THEN "resolved" ELSE "rejected"
    /\ UNCHANGED <<made, writes, queue, unsettled, answers, cancelled, closed, result, struck>>

ThreadStep ==
    \/ \E write \in BOOLEAN : CallBack(write)
    \/ wait_for_callback \/ CoreReturns \/ CoreSeesCancel

IoNext ==
    \/ Start \/ ThreadStep \/ Settle
    \/ \E c \in Calls : Invoke(c) \/ SettleCall(c)
    \/ cancel \/ CloseEnvironment

IoSpec == IoInit /\ [][IoNext]_ioVars

\* The thread runs and the event loop settles the caller's promise; whether
\* the application ever answers a callback is up to the application.
IoFairSpec == IoSpec /\ WF_ioVars(ThreadStep) /\ WF_ioVars(Settle)

-----------------------------------------------------------------------------
\* Every variable keeps the shape the code gives it.
TypeOK ==
    /\ tpc \in {"none", "run", "wait", "settle", "ended"}
    /\ made \in 0 .. MaxCalls /\ writes \subseteq Calls
    /\ queue \subseteq Calls /\ unsettled \subseteq Calls
    /\ answers \in [Calls -> {NoAnswer, "ok", "io_error", "invalid_state"}]
    /\ cancelled \in BOOLEAN /\ closed \in BOOLEAN /\ struck \in BOOLEAN
    /\ result \in {"none", "ok", "io_error", "core_error", "invalid_state", "cancelled"}
    /\ promise \in {"none", "thrown", "pending", "resolved", "rejected"}

\* The promise is resolved only when the application has acknowledged every
\* chunk that was given to it: metadata never describes an unwritten object.
ResolvedIsWritten == promise = "resolved" => \A c \in writes : answers[c] = "ok"

\* The functions' queues have room for one call: it is always free when the
\* next call is made, so no healthy operation fails because it is full.
QueueHasRoom == tpc = "run" => queue = {}

\* cancel() during a callback always wins over the callback's answer.
CancelWins == struck => result # "ok"

\* A cancelled operation ends and its promise is settled, although the
\* application may never answer the callback it is waiting for; a closing
\* environment ends it as well.
CancelSettles ==
    (cancelled \/ closed) /\ tpc # "none" ~> tpc = "ended" /\ (promise # "pending" \/ closed)
=============================================================================
