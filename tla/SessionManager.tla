--------------------------- MODULE SessionManager ---------------------------
(***************************************************************************)
(* domains/session/session_manager over the recording manager and the      *)
(* transcription queue.  The controlling thread calls one operation at a   *)
(* time, in any order; the worker and the audio thread run underneath it.  *)
(* An operation is split where another thread can observe or change what   *)
(* it shares: around the device, and at each acquisition of the queue's    *)
(* lock.  A call that is refused at once (wrong state, full queue, unknown *)
(* job) changes nothing and is no step.  Publishing is synchronous, so an  *)
(* event is recorded in the step that publishes it; errors without a       *)
(* session id are not recorded.                                            *)
(***************************************************************************)
EXTENDS TranscriptionQueue, RecordingManager

VARIABLES state,           \* state_: "Idle", "Recording" or "Error"
          active,          \* active_session_'s id
          phase,           \* active_session_'s SessionState
          nextId,          \* next_session_id_
          lastCompleted,   \* last_completed_
          lastFailed,      \* last_failed_
          call,            \* the operation in progress
          results,         \* poll_completed()'s local results
          events           \* history: the events published about each session

sessionVars == <<state, active, phase, nextId, lastCompleted, lastFailed, call, results, events>>
managedVars == <<queueVars, recordingVars, sessionVars>>

\* Session ids are the values of a counter; it runs while it stays in Sessions.
ASSUME CounterAssumption == Sessions \subseteq Nat \ {0}

SessionStates == {"Created", "Recording", "Processing", "Completed", "Failed"}

\* "enqueue" and "poll" are stop_session() and poll_completed() between two locks.
Calls == {"none", "start", "stop", "enqueue", "cancel", "poll", "shutdown"}

EventKinds ==
    {"RecordingStarted", "RecordingFinished", "TranscriptionQueued", "TranscriptionStarted",
     "TranscriptionCompleted", "SessionCancelled", "audio error", "queue error", "speech error"}

\* The fields of SessionManager over those of the queue and the recording manager.
SessionTypeOK ==
    /\ QueueTypeOK
    /\ RecordingTypeOK
    /\ state \in {"Idle", "Recording", "Error"}
    /\ active \in Sessions \cup {NoSession}
    /\ phase \in SessionStates
    /\ nextId \in Nat \ {0}
    /\ lastCompleted \in Sessions \cup {NoSession}
    /\ lastFailed \in Sessions \cup {NoSession}
    /\ call \in Calls
    /\ results \in Seq(Result)
    /\ events \in [Sessions -> Seq(EventKinds)]

SessionInit ==
    /\ QueueInit
    /\ RecordingInit
    /\ state = "Idle" /\ active = NoSession /\ phase = "Created"
    /\ nextId = 1
    /\ lastCompleted = NoSession /\ lastFailed = NoSession
    /\ call = "none"
    /\ results = <<>>
    /\ events = [s \in Sessions |-> <<>>]

-----------------------------------------------------------------------------
(* Session and ServiceState *)

\* can_transition(SessionState, SessionState) and try_transition(), which leaves
\* the session as it is when the transition is not allowed.
SessionMoves ==
    {<<"Created", "Recording">>, <<"Recording", "Processing">>, <<"Recording", "Failed">>,
     <<"Processing", "Completed">>, <<"Processing", "Failed">>}

TryTransition(from, to) == IF <<from, to>> \in SessionMoves THEN to ELSE from

Publish(s, kinds) == events' = [events EXCEPT ![s] = @ \o kinds]

-----------------------------------------------------------------------------
(* start_session() *)

\* Fault: start_session() does not look at the queue.
CanStartWithoutRoom == call = "none" /\ state = "Idle" /\ ~stopping /\ nextId \in Sessions

CanStart == call = "none" /\ state = "Idle" /\ HasCapacity /\ nextId \in Sessions

\* The device cannot be opened: the id is discarded and the service stays Idle.
StartSessionFails ==
    /\ CanStart
    /\ RecordFails
    /\ nextId' = nextId + 1
    /\ UNCHANGED <<queueVars, state, active, phase, lastCompleted, lastFailed, call, results, events>>

\* Fault: the id is not consumed.
StartSessionReusesId ==
    /\ CanStart
    /\ RecordStreams(nextId)
    /\ call' = "start"
    /\ UNCHANGED <<queueVars, state, active, phase, nextId, lastCompleted, lastFailed, results, events>>

StartSessionStreams ==
    /\ CanStart
    /\ RecordStreams(nextId)
    /\ nextId' = nextId + 1
    /\ call' = "start"
    /\ UNCHANGED <<queueVars, state, active, phase, lastCompleted, lastFailed, results, events>>

StartSessionReturns ==
    /\ call = "start"
    /\ RecordReturns
    /\ active' = opening
    /\ phase' = TryTransition("Created", "Recording")
    /\ state' = "Recording"
    /\ call' = "none"
    /\ Publish(opening, <<"RecordingStarted">>)
    /\ UNCHANGED <<queueVars, nextId, lastCompleted, lastFailed, results>>

-----------------------------------------------------------------------------
(* stop_session() *)

StopSessionReads ==
    /\ call = "none"
    /\ state = "Recording"
    /\ StopReads
    /\ call' = "stop"
    /\ UNCHANGED <<queueVars, state, active, phase, nextId, lastCompleted, lastFailed, results, events>>

\* The device had been lost: fail("audio").
StopSessionLost ==
    /\ call = "stop"
    /\ lost
    /\ StopReturns
    /\ phase' = TryTransition(phase, "Failed")
    /\ state' = "Error"
    /\ call' = "none"
    /\ Publish(active, <<"audio error">>)
    /\ UNCHANGED <<queueVars, active, nextId, lastCompleted, lastFailed, results>>

StopSessionTakes ==
    /\ call = "stop"
    /\ ~lost
    /\ StopReturns
    /\ phase' = TryTransition(phase, "Processing")
    /\ call' = "enqueue"
    /\ Publish(recording, <<"RecordingFinished">>)
    /\ UNCHANGED <<queueVars, state, active, nextId, lastCompleted, lastFailed, results>>

StopSessionQueues ==
    /\ call = "enqueue"
    /\ TryEnqueue(active)
    /\ Publish(active, <<"TranscriptionQueued">>)
    /\ active' = NoSession
    /\ phase' = "Created"
    /\ state' = "Idle"
    /\ call' = "none"
    /\ UNCHANGED <<recordingVars, nextId, lastCompleted, lastFailed, results>>

\* try_enqueue() refuses: the recording is lost, fail("queue").
StopSessionRefused ==
    /\ call = "enqueue"
    /\ ~HasCapacity
    /\ phase' = TryTransition(phase, "Failed")
    /\ state' = "Error"
    /\ call' = "none"
    /\ Publish(active, <<"queue error">>)
    /\ UNCHANGED <<queueVars, recordingVars, active, nextId, lastCompleted, lastFailed, results>>

-----------------------------------------------------------------------------
(* cancel_session() and cancel_job() *)

\* Fault: the active session is kept.
ForgetNot ==
    /\ phase' = "Created"
    /\ state' = "Idle"
    /\ call' = "none"
    /\ UNCHANGED active

Forget ==
    /\ active' = NoSession
    /\ phase' = "Created"
    /\ state' = "Idle"
    /\ call' = "none"

CancelSessionReads ==
    /\ call = "none"
    /\ state = "Recording"
    /\ StopReads
    /\ call' = "cancel"
    /\ UNCHANGED <<queueVars, state, active, phase, nextId, lastCompleted, lastFailed, results, events>>

\* The recording is stopped, which publishes RecordingFinished unless the device
\* had been lost, and then discarded.
CancelSessionStops ==
    /\ call = "cancel"
    /\ StopReturns
    /\ Forget
    /\ Publish(active, IF lost THEN <<"SessionCancelled">>
                               ELSE <<"RecordingFinished", "SessionCancelled">>)
    /\ UNCHANGED <<queueVars, nextId, lastCompleted, lastFailed, results>>

CancelSessionAcknowledges ==
    /\ call = "none"
    /\ state = "Error"
    /\ Forget
    /\ Publish(active, <<"SessionCancelled">>)
    /\ UNCHANGED <<queueVars, recordingVars, nextId, lastCompleted, lastFailed, results>>

CancelJob(s) ==
    /\ call = "none"
    /\ CancelPending(s)
    /\ Publish(s, <<"SessionCancelled">>)
    /\ UNCHANGED <<recordingVars, state, active, phase, nextId, lastCompleted, lastFailed, call, results>>

-----------------------------------------------------------------------------
(* poll_completed(): results are drained before starts, and published after. *)

PollDrains ==
    /\ call = "none"
    /\ DrainCompleted
    /\ results' = completed
    /\ call' = "poll"
    /\ UNCHANGED <<recordingVars, state, active, phase, nextId, lastCompleted, lastFailed, events>>

\* The last of the results with this outcome, or what was recorded before.
LastWith(ok, before) ==
    IF \E i \in DOMAIN results : results[i].ok = ok
      THEN results[CHOOSE i \in DOMAIN results :
                      /\ results[i].ok = ok
                      /\ \A k \in DOMAIN results : k > i => results[k].ok # ok].id
      ELSE before

\* Fault: results are published before the starts.
OutcomeFirst(s, begun) ==
    (IF \E i \in DOMAIN results : results[i] = [id |-> s, ok |-> TRUE]
       THEN <<"TranscriptionCompleted">> ELSE <<>>)
      \o (IF \E i \in DOMAIN results : results[i] = [id |-> s, ok |-> FALSE]
            THEN <<"speech error">> ELSE <<>>)
      \o (IF \E i \in DOMAIN begun : begun[i] = s THEN <<"TranscriptionStarted">> ELSE <<>>)

\* What publishing the starts `begun` and then the results says about s.
Outcome(s, begun) ==
    (IF \E i \in DOMAIN begun : begun[i] = s THEN <<"TranscriptionStarted">> ELSE <<>>)
      \o (IF \E i \in DOMAIN results : results[i] = [id |-> s, ok |-> TRUE]
            THEN <<"TranscriptionCompleted">> ELSE <<>>)
      \o (IF \E i \in DOMAIN results : results[i] = [id |-> s, ok |-> FALSE]
            THEN <<"speech error">> ELSE <<>>)

PollPublishes ==
    /\ call = "poll"
    /\ DrainStarted
    /\ events' = [s \in Sessions |-> events[s] \o Outcome(s, started)]
    /\ lastCompleted' = LastWith(TRUE, lastCompleted)
    /\ lastFailed' = LastWith(FALSE, lastFailed)
    /\ results' = <<>>
    /\ call' = "none"
    /\ UNCHANGED <<recordingVars, state, active, phase, nextId>>

-----------------------------------------------------------------------------
(* set_activity_callback() and shutdown() *)

SetCallback(present) ==
    /\ call = "none"
    /\ SetActivityCallback(present)
    /\ UNCHANGED <<recordingVars, sessionVars>>

ShutdownBegins ==
    /\ call = "none"
    /\ ShutdownLocked
    /\ call' = "shutdown"
    /\ UNCHANGED <<recordingVars, state, active, phase, nextId, lastCompleted, lastFailed, results, events>>

ShutdownRequestsAbort ==
    /\ ShutdownAbort
    /\ UNCHANGED <<recordingVars, sessionVars>>

\* Fault: the jobs dropped at shutdown are not reported.
ShutdownReportsNothing ==
    /\ ShutdownJoin
    /\ call' = "none"
    /\ UNCHANGED <<recordingVars, state, active, phase, nextId, lastCompleted, lastFailed, results, events>>

ShutdownReports ==
    /\ ShutdownJoin
    /\ events' = [s \in Sessions |->
                     IF s \in Doomed THEN Append(events[s], "queue error") ELSE events[s]]
    /\ call' = "none"
    /\ UNCHANGED <<recordingVars, state, active, phase, nextId, lastCompleted, lastFailed, results>>

-----------------------------------------------------------------------------
(* The threads *)

AudioThread ==
    /\ \/ OnSamples
       \/ (HardwareGone \/ HandleNotification) /\ UNCHANGED managerVars
    /\ UNCHANGED <<queueVars, sessionVars>>

WorkerThread == Worker /\ UNCHANGED <<recordingVars, sessionVars>>

ShutdownSteps == ShutdownBegins \/ ShutdownRequestsAbort \/ ShutdownReports

ControllingThread ==
    \/ StartSessionFails \/ StartSessionStreams \/ StartSessionReturns
    \/ StopSessionReads \/ StopSessionLost \/ StopSessionTakes
    \/ StopSessionQueues \/ StopSessionRefused
    \/ CancelSessionReads \/ CancelSessionStops \/ CancelSessionAcknowledges
    \/ \E s \in Sessions : CancelJob(s)
    \/ PollDrains \/ PollPublishes
    \/ \E present \in BOOLEAN : SetCallback(present)
    \/ ShutdownSteps

SessionNext == ControllingThread \/ WorkerThread \/ AudioThread

SessionSpec == SessionInit /\ [][SessionNext]_managedVars

-----------------------------------------------------------------------------
(* Properties *)

\* Every life a session may have in the eyes of a subscriber.
Lives ==
    {<<"RecordingStarted", "RecordingFinished">> \o rest : rest \in
        {<<"TranscriptionQueued", "TranscriptionStarted", "TranscriptionCompleted">>,
         <<"TranscriptionQueued", "TranscriptionStarted", "speech error">>,
         <<"TranscriptionQueued", "SessionCancelled">>,
         <<"TranscriptionQueued", "queue error">>,
         <<"queue error", "SessionCancelled">>,
         <<"SessionCancelled">>}}
      \cup {<<"RecordingStarted", "audio error", "SessionCancelled">>,
            <<"RecordingStarted", "SessionCancelled">>}

\* What is published about a session always reads as the beginning of one of
\* those lives: its start comes before its outcome (speech/events.hpp), it has at
\* most one outcome, nothing follows an outcome or a cancellation, and nothing is
\* said of a session that never recorded; however the worker, the audio thread
\* and the calls interleave.
PublishedLivesAreLegal ==
    \A s \in Sessions : \E life \in Lives :
        /\ Len(events[s]) <= Len(life)
        /\ events[s] = SubSeq(life, 1, Len(events[s]))

\* stop_session() loses a finished recording to a full queue only once the queue
\* was shut down: the capacity start_session() saw is still there, since this
\* thread is the only producer (the comment in stop_session()).
RefusedOnlyAtShutdown == call = "enqueue" /\ ~HasCapacity => stopping

\* Between calls the three places that know about capture agree: the service
\* state, the active session and the recording manager.
CaptureViewsAgree ==
    call = "none" =>
        /\ state = "Idle" <=> active = NoSession
        /\ state = "Recording" <=> recording # NoSession
        /\ state = "Recording" => active = recording /\ phase = "Recording"
        /\ state = "Error" => phase = "Failed"

\* Results are published in the order the sessions were recorded: a drained or
\* waiting result is of a later session than every one published or ahead of it,
\* so last_completed_ and last_failed_ never move back.
ResultsInOrder ==
    LET undelivered == results \o completed
    IN  /\ \A i, k \in DOMAIN undelivered : i < k => undelivered[i].id < undelivered[k].id
        /\ \A i \in DOMAIN undelivered : \A s \in {lastCompleted, lastFailed} \ {NoSession} :
               s < undelivered[i].id

\* Under the session manager the queue is used as its own specification
\* assumes: one producer, ids never reused, nothing called during shutdown().
UsesQueueProperly == QueueSpec
=============================================================================
