------------------------- MODULE TranscriptionQueue -------------------------
(***************************************************************************)
(* domains/session/transcription_queue: a bounded FIFO of jobs shared by   *)
(* the owner thread, which enqueues, cancels, drains and shuts down, and   *)
(* one worker thread, which transcribes.  A step is what one thread does   *)
(* under one acquisition of mutex_, or one call made outside it, so every  *)
(* interleaving of the two threads at lock boundaries is a behaviour.      *)
(* The condition variable is the guard of the worker's wait: notify_one    *)
(* and notify_all follow every change that can make the predicate true.    *)
(***************************************************************************)
EXTENDS Naturals, Sequences, SessionIds

CONSTANTS Capacity    \* capacity_

ASSUME QueueAssumption == Capacity \in Nat \ {0}

VARIABLES pending,      \* pending_: ids of the waiting jobs, oldest first
          started,      \* started_: ids begun and not yet drained
          completed,    \* completed_: results not yet drained
          busy,         \* busy_
          stopping,     \* stopping_
          registered,   \* on_activity_ holds a callback
          abort,        \* SpeechBackend's abort_requested_
          wpc,          \* where the worker is in run()
          job,          \* run()'s local job
          result,       \* run()'s local result: a transcript (TRUE) or an error
          callback,     \* notify_activity()'s local copy is non-empty
          shut,         \* how far the owner is in shutdown()
          dropped,      \* shutdown()'s local list of dropped ids
          told          \* history: what the owner was last told about each job

sharedVars == <<pending, started, completed, busy, stopping, registered>>
workerVars == <<wpc, job, result, callback>>
ownerVars  == <<shut, dropped, told>>
queueVars  == <<sharedVars, abort, workerVars, ownerVars>>

Result == [id : Sessions, ok : BOOLEAN]

\* run(): waiting on wake_; in notify_activity() before and after the copy of
\* the callback, for the start and for the end of a job; inside transcribe();
\* about to store its result; returned.
WorkerPlaces ==
    {"wait", "copyStart", "callStart", "transcribe", "store", "copyEnd", "callEnd", "exited"}

\* The fields of the queue, the locals of run() and shutdown() and the history.
QueueTypeOK ==
    /\ pending \in Seq(Sessions)
    /\ started \in Seq(Sessions)
    /\ completed \in Seq(Result)
    /\ busy \in BOOLEAN /\ stopping \in BOOLEAN /\ registered \in BOOLEAN
    /\ abort \in BOOLEAN
    /\ wpc \in WorkerPlaces
    /\ job \in Sessions \cup {NoSession}
    /\ result \in BOOLEAN
    /\ callback \in BOOLEAN
    /\ shut \in {"no", "abort", "join", "down"}
    /\ dropped \in Seq(Sessions)
    /\ told \in [Sessions -> {"nothing", "queued", "cancelled", "dropped", "ok", "error"}]

QueueInit ==
    /\ pending = <<>> /\ started = <<>> /\ completed = <<>>
    /\ busy = FALSE /\ stopping = FALSE /\ registered = FALSE
    /\ abort = FALSE
    /\ wpc = "wait" /\ job = NoSession /\ result = FALSE /\ callback = FALSE
    /\ shut = "no" /\ dropped = <<>>
    /\ told = [j \in Sessions |-> "nothing"]

-----------------------------------------------------------------------------
(* The owner thread.  It is one thread, so no call overlaps its shutdown(). *)

OwnerFree == shut \in {"no", "down"}

\* has_capacity(), and the refusal test of try_enqueue().
HasCapacity == ~stopping /\ Len(pending) < Capacity

\* Fault: the running job is not counted.
OutstandingPendingOnly == Len(pending)

\* The value try_enqueue() returns, 0 when nothing is queued or running; also
\* outstanding_count().
Outstanding == Len(pending) + (IF busy THEN 1 ELSE 0)

\* try_enqueue() of an accepted job; a refused call (~HasCapacity) changes nothing.
TryEnqueue(j) ==
    /\ OwnerFree
    /\ HasCapacity
    /\ pending' = Append(pending, j)
    /\ told' = [told EXCEPT ![j] = "queued"]
    /\ UNCHANGED <<started, completed, busy, stopping, registered, abort, workerVars, shut, dropped>>

\* Fault: the front job is erased instead of the one asked for.
CancelPendingFront(j) ==
    /\ OwnerFree
    /\ \E i \in DOMAIN pending : pending[i] = j
    /\ pending' = Tail(pending)
    /\ told' = [told EXCEPT ![j] = "cancelled"]
    /\ UNCHANGED <<started, completed, busy, stopping, registered, abort, workerVars, shut, dropped>>

\* cancel_pending() that finds its job; when it does not, it changes nothing.
CancelPending(j) ==
    /\ OwnerFree
    /\ \E i \in DOMAIN pending :
          /\ pending[i] = j
          /\ \A k \in 1 .. i - 1 : pending[k] # j
          /\ pending' = SubSeq(pending, 1, i - 1) \o SubSeq(pending, i + 1, Len(pending))
    /\ told' = [told EXCEPT ![j] = "cancelled"]
    /\ UNCHANGED <<started, completed, busy, stopping, registered, abort, workerVars, shut, dropped>>

DrainStarted ==
    /\ OwnerFree
    /\ started' = <<>>
    /\ UNCHANGED <<pending, completed, busy, stopping, registered, abort, workerVars, ownerVars>>

\* The owner is told the result of every job in completed_.
DrainCompleted ==
    /\ OwnerFree
    /\ completed' = <<>>
    /\ told' = [j \in Sessions |->
                   IF \E i \in DOMAIN completed : completed[i] = [id |-> j, ok |-> TRUE] THEN "ok"
                   ELSE IF \E i \in DOMAIN completed : completed[i].id = j THEN "error"
                   ELSE told[j]]
    /\ UNCHANGED <<pending, started, busy, stopping, registered, abort, workerVars, shut, dropped>>

SetActivityCallback(present) ==
    /\ OwnerFree
    /\ registered' = present
    /\ UNCHANGED <<pending, started, completed, busy, stopping, abort, workerVars, ownerVars>>

\* shutdown(): the locked part, the abort request, and the join.  The
\* destructor calls it again; then nothing is pending, stopping_ and the abort
\* flag are already set and the thread is no longer joinable, so the second call
\* changes nothing and is no step.
ShutdownLocked ==
    /\ shut = "no"
    /\ stopping' = TRUE
    /\ dropped' = pending
    /\ pending' = <<>>
    /\ shut' = "abort"
    /\ UNCHANGED <<started, completed, busy, registered, abort, workerVars, told>>

\* Fault: shutdown() joins without requesting the abort.
ShutdownAbortForgotten ==
    /\ shut = "abort"
    /\ shut' = "join"
    /\ UNCHANGED <<sharedVars, abort, workerVars, dropped, told>>

ShutdownAbort ==
    /\ shut = "abort"
    /\ abort' = TRUE
    /\ shut' = "join"
    /\ UNCHANGED <<sharedVars, workerVars, dropped, told>>

\* Fault: shutdown() does not return the dropped ids.
ShutdownJoinSilent ==
    /\ shut = "join"
    /\ wpc = "exited"
    /\ shut' = "down"
    /\ dropped' = <<>>
    /\ UNCHANGED <<told, sharedVars, abort, workerVars>>

ShutdownJoin ==
    /\ shut = "join"
    /\ wpc = "exited"
    /\ shut' = "down"
    /\ dropped' = <<>>
    /\ told' = [j \in Sessions |-> IF \E i \in DOMAIN dropped : dropped[i] = j THEN "dropped" ELSE told[j]]
    /\ UNCHANGED <<sharedVars, abort, workerVars>>

-----------------------------------------------------------------------------
(* The worker thread: run(). *)

RunExit ==
    /\ wpc = "wait"
    /\ stopping
    /\ wpc' = "exited"
    /\ UNCHANGED <<sharedVars, abort, job, result, callback, ownerVars>>

\* Fault: the newest job is taken first.
RunTakeNewest ==
    /\ wpc = "wait"
    /\ ~stopping
    /\ pending # <<>>
    /\ abort' = FALSE
    /\ job' = pending[Len(pending)]
    /\ pending' = SubSeq(pending, 1, Len(pending) - 1)
    /\ busy' = TRUE
    /\ started' = Append(started, pending[Len(pending)])
    /\ wpc' = "copyStart"
    /\ UNCHANGED <<completed, stopping, registered, result, callback, ownerVars>>

RunTake ==
    /\ wpc = "wait"
    /\ ~stopping
    /\ pending # <<>>
    /\ abort' = FALSE
    /\ job' = Head(pending)
    /\ pending' = Tail(pending)
    /\ busy' = TRUE
    /\ started' = Append(started, Head(pending))
    /\ wpc' = "copyStart"
    /\ UNCHANGED <<completed, stopping, registered, result, callback, ownerVars>>

\* Fault: clear_abort() is called outside the lock that tested stopping_.
NotifyCopyClearsAbort ==
    /\ wpc \in {"copyStart", "copyEnd"}
    /\ abort' = (abort /\ wpc = "copyEnd")
    /\ callback' = registered
    /\ wpc' = IF wpc = "copyStart" THEN "callStart" ELSE "callEnd"
    /\ UNCHANGED <<sharedVars, job, result, ownerVars>>

\* notify_activity(): copy under the lock, call outside it.  What the callback
\* does is the business of whoever registered it.
NotifyCopy ==
    /\ wpc \in {"copyStart", "copyEnd"}
    /\ callback' = registered
    /\ wpc' = IF wpc = "copyStart" THEN "callStart" ELSE "callEnd"
    /\ UNCHANGED <<sharedVars, abort, job, result, ownerVars>>

NotifyCall ==
    /\ wpc \in {"callStart", "callEnd"}
    /\ callback' = FALSE
    /\ wpc' = IF wpc = "callStart" THEN "transcribe" ELSE "wait"
    /\ job' = IF wpc = "callStart" THEN job ELSE NoSession
    /\ UNCHANGED <<sharedVars, abort, result, ownerVars>>

\* transcribe() returns.  Whisper polls the abort flag while it runs and
\* transcribe() tests it afterwards: once it is set, the only result is an error.
Transcribed(ok) ==
    /\ wpc = "transcribe"
    /\ ok => ~abort
    /\ result' = ok
    /\ wpc' = "store"
    /\ UNCHANGED <<sharedVars, abort, job, callback, ownerVars>>

\* Fault: results are stored newest first.
StoreResultInFront ==
    /\ wpc = "store"
    /\ busy' = FALSE
    /\ completed' = <<[id |-> job, ok |-> result]>> \o completed
    /\ result' = FALSE
    /\ wpc' = "copyEnd"
    /\ UNCHANGED <<pending, started, stopping, registered, abort, job, callback, ownerVars>>

StoreResult ==
    /\ wpc = "store"
    /\ busy' = FALSE
    /\ completed' = Append(completed, [id |-> job, ok |-> result])
    /\ result' = FALSE                                        \* moved from
    /\ wpc' = "copyEnd"
    /\ UNCHANGED <<pending, started, stopping, registered, abort, job, callback, ownerVars>>

Worker ==
    \/ RunExit \/ RunTake \/ NotifyCopy \/ NotifyCall
    \/ \E ok \in BOOLEAN : Transcribed(ok)
    \/ StoreResult

Owner ==
    \/ \E j \in Sessions : told[j] = "nothing" /\ TryEnqueue(j)   \* session ids are never reused
    \/ \E j \in Sessions : CancelPending(j)
    \/ DrainStarted \/ DrainCompleted
    \/ \E present \in BOOLEAN : SetActivityCallback(present)
    \/ ShutdownLocked \/ ShutdownAbort \/ ShutdownJoin

QueueNext == Owner \/ Worker

QueueSpec == QueueInit /\ [][QueueNext]_queueVars

\* The threads are scheduled, so each keeps stepping while it can.  A
\* transcription that was not aborted is not assumed to end.
WorkerFairness ==
    /\ WF_queueVars(RunExit \/ RunTake \/ NotifyCopy \/ NotifyCall \/ StoreResult)
    /\ WF_queueVars(abort /\ Transcribed(FALSE))

ShutdownFairness == WF_queueVars(ShutdownAbort \/ ShutdownJoin)

QueueStopSpec == QueueSpec /\ WorkerFairness /\ ShutdownFairness

\* The owner's loop drains again and again, and Whisper ends sooner or later.
ResultsFlow == WF_queueVars(DrainCompleted) /\ WF_queueVars(\E ok \in BOOLEAN : Transcribed(ok))

-----------------------------------------------------------------------------
(* Properties *)

\* The worker has taken a job and not yet stored its result.
Running == wpc \in {"copyStart", "callStart", "transcribe", "store"}

Waiting  == {pending[i] : i \in DOMAIN pending}
Finished == {completed[i].id : i \in DOMAIN completed}
Doomed   == {dropped[i] : i \in DOMAIN dropped}
InHand   == IF Running THEN {job} ELSE {}

\* The abort that shutdown() requests is never erased by the worker: from the
\* request until the worker has left, the flag stays set, whatever job was on
\* its way in (the argument in the comments of shutdown() and run()).
AbortStands == shut \in {"join", "down"} => abort

\* Callbacks stop with shutdown(): once it has returned the worker is gone, so
\* it neither copies nor calls the activity callback again, and it has left no
\* job behind that the owner has not been given an outcome or a result for.
ShutdownIsFinal ==
    shut = "down" =>
        /\ wpc = "exited"
        /\ \A j \in Sessions : told[j] = "queued" => j \in Finished

\* No job is lost, duplicated or run twice: the jobs whose acceptance is the
\* last the owner heard of them are in exactly one place each, and every other
\* job is nowhere, through cancellations, drains and a shutdown at any point.
JobsAccounted ==
    /\ {j \in Sessions : told[j] = "queued"} = Waiting \cup InHand \cup Finished \cup Doomed
    /\ Waiting \cap InHand = {} /\ Waiting \cap Finished = {} /\ Waiting \cap Doomed = {}
    /\ InHand \cap Finished = {} /\ InHand \cap Doomed = {} /\ Finished \cap Doomed = {}
    /\ \A i, k \in DOMAIN pending : pending[i] = pending[k] => i = k
    /\ \A i, k \in DOMAIN completed : completed[i].id = completed[k].id => i = k
    /\ \A i, k \in DOMAIN dropped : dropped[i] = dropped[k] => i = k

\* outstanding_count() is zero only while the worker is outside the backend: the
\* check the Live Transcriber makes before it calls the backend itself.
IdleMeansBackendFree == Outstanding = 0 => ~Running

\* Only the owner's own try_enqueue() makes an idle count positive again, so the
\* check is still good when the Live Transcriber acts on it.
IdleEndsByOwner == [][Outstanding = 0 => Outstanding' = 0 \/ \E j \in Sessions : TryEnqueue(j)]_queueVars

\* The refinement mapping: the status a job has in the ledger.
LedgerStatus(j) ==
    IF told[j] = "nothing" THEN "new"
    ELSE IF told[j] # "queued" THEN told[j]
    ELSE IF j \in Waiting THEN "waiting"
    ELSE IF j \in Doomed THEN "dropped"
    ELSE IF j \in InHand THEN "running"
    ELSE "finished"

Ledger == INSTANCE JobLedger WITH
              Jobs <- Sessions,
              line <- pending,
              status <- [j \in Sessions |-> LedgerStatus(j)],
              open <- ~stopping

\* The queue implements the abstract ledger: jobs run in the order they were
\* accepted, one at a time, none starts once shutdown() has begun, and each ends
\* exactly once, as finished, cancelled or dropped.
ImplementsLedger == Ledger!LedgerSpec

\* As long as the owner drains and transcriptions end, every accepted job is
\* eventually answered: with its result, its cancellation or its drop.
EveryJobAnswered == ResultsFlow => \A j \in Sessions : told[j] = "queued" ~> told[j] # "queued"
=============================================================================
