------------------------------- MODULE Daemon -------------------------------
(***************************************************************************)
(* app/main: the composition root.  The main thread starts the IPC         *)
(* service, then loops over poll_once(), poll_completed() and tick(), and  *)
(* on a signal cancels, shuts down, reports and stops the service.  The    *)
(* worker thread wakes it through the eventfd the activity callback rings. *)
(* IPC is reduced to what the loop needs: a round of poll_once() runs any  *)
(* number of commands, and the eventfd ends the wait.                      *)
(***************************************************************************)
EXTENDS SessionManager

VARIABLES mpc,        \* where the main thread is
          signalled,  \* g_should_stop
          rung,       \* the eventfd of IpcServer is readable
          ipcUp,      \* the IPC service is started and not stopped
          ticked      \* LiveTranscriber's last_tick_at_ has a value

mainVars   == <<mpc, signalled, rung, ipcUp, ticked>>
daemonVars == <<managedVars, mainVars>>

MainPlaces ==
    {"boot",       \* before ipc_service.start()
     "register",   \* about to register the activity callback
     "loop",       \* testing g_should_stop
     "wait",       \* in poll_once(), waiting
     "serve",      \* in poll_once(), running the commands that arrived
     "poll",       \* poll_completed()
     "tick",       \* live_transcriber.tick()
     "preview",    \* tick(), inside transcribe_partial()
     "cancel", "shutdown", "unregister", "report",   \* after the loop
     "unwind",     \* returned early: destructors only
     "exited"}

\* The state of main() over that of the session manager.
DaemonTypeOK ==
    /\ SessionTypeOK
    /\ mpc \in MainPlaces
    /\ {signalled, rung, ipcUp, ticked} \subseteq BOOLEAN

DaemonInit ==
    /\ SessionInit
    /\ mpc = "boot"
    /\ signalled = FALSE /\ rung = FALSE /\ ipcUp = FALSE /\ ticked = FALSE

Goto(from, to) == mpc = from /\ mpc' = to

\* SIGINT or SIGTERM, once the handler is installed.
Signal ==
    /\ mpc \notin {"boot", "unwind", "exited"}
    /\ signalled' = TRUE
    /\ UNCHANGED <<managedVars, mpc, rung, ipcUp, ticked>>

\* ipc_service.start(): the socket is bound, or main() returns at once.
Boot ==
    \/ /\ Goto("boot", "register")
       /\ ipcUp' = TRUE
       /\ UNCHANGED <<managedVars, signalled, rung, ticked>>
    \/ /\ Goto("boot", "unwind")
       /\ UNCHANGED <<managedVars, signalled, rung, ipcUp, ticked>>

RegisterCallback ==
    /\ Goto("register", "loop")
    /\ SetCallback(TRUE)
    /\ UNCHANGED <<signalled, rung, ipcUp, ticked>>

LoopTest ==
    /\ mpc = "loop"
    /\ mpc' = IF signalled THEN "cancel" ELSE "wait"
    /\ UNCHANGED <<managedVars, signalled, rung, ipcUp, ticked>>

\* poll(2) returns because the eventfd is readable, which is then drained, a
\* client has data, the timeout expired or a signal arrived.
PollReturns ==
    /\ Goto("wait", "serve")
    /\ rung' = FALSE
    /\ UNCHANGED <<managedVars, signalled, ipcUp, ticked>>

\* The commands of this round, run one after the other on this thread.
Command ==
    \/ StartSessionFails \/ StartSessionStreams \/ StartSessionReturns
    \/ StopSessionReads \/ StopSessionLost \/ StopSessionTakes
    \/ StopSessionQueues \/ StopSessionRefused
    \/ CancelSessionReads \/ CancelSessionStops \/ CancelSessionAcknowledges
    \/ \E s \in Sessions : CancelJob(s)

\* RecordingStarted makes the Live Transcriber forget its last tick.
Serve ==
    /\ mpc = "serve"
    /\ Command
    /\ ticked' = (ticked /\ call # "start")
    /\ UNCHANGED <<mpc, signalled, rung, ipcUp>>

ServeDone ==
    /\ Goto("serve", "poll")
    /\ call = "none"
    /\ UNCHANGED <<managedVars, signalled, rung, ipcUp, ticked>>

\* poll_completed(): PollPublishes is the return of the last subscriber, copy()
\* included.
PollCompleted ==
    /\ mpc \in {"poll", "report"}
    /\ \/ PollDrains /\ UNCHANGED mpc
       \/ PollPublishes /\ mpc' = IF mpc = "poll" THEN "tick" ELSE "exited"
    /\ ipcUp' = (ipcUp /\ mpc' # "exited")       \* ipc_service.stop() follows the report
    /\ UNCHANGED <<signalled, rung, ticked>>

\* tick() returns early when nothing is being recorded, the worker has work, too
\* little time has passed or no audio is new; otherwise it calls the backend.
TickSkips ==
    /\ Goto("tick", "loop")
    /\ UNCHANGED <<managedVars, signalled, rung, ipcUp, ticked>>

\* Fault: tick() does not ask whether the worker has work.
TickPreviewsAnyway ==
    /\ Goto("tick", "preview")
    /\ state = "Recording"
    /\ samples # <<>>
    /\ ticked' = TRUE
    /\ UNCHANGED <<managedVars, signalled, rung, ipcUp>>

TickPreviews ==
    /\ Goto("tick", "preview")
    /\ state = "Recording"
    /\ Outstanding = 0
    /\ samples # <<>>
    /\ ticked' = TRUE
    /\ UNCHANGED <<managedVars, signalled, rung, ipcUp>>

PreviewReturns ==
    /\ Goto("preview", "loop")
    /\ UNCHANGED <<managedVars, signalled, rung, ipcUp, ticked>>

\* Fault: main() does not cancel the session in progress.
QuitWithoutCancel ==
    /\ mpc = "cancel"
    /\ mpc' = "shutdown"
    /\ UNCHANGED <<managedVars, signalled, rung, ipcUp, ticked>>

\* Fault: the IPC service is stopped before the queue is shut down.
QuitStopsIpcFirst ==
    /\ mpc = "cancel"
    /\ \/ /\ CancelSessionReads \/ CancelSessionStops \/ CancelSessionAcknowledges
          /\ UNCHANGED <<mpc, ipcUp>>
       \/ /\ state = "Idle"
          /\ mpc' = "shutdown"
          /\ ipcUp' = FALSE
          /\ UNCHANGED managedVars
    /\ UNCHANGED <<signalled, rung, ticked>>

\* After the loop: cancel_session(), which refuses when Idle, ...
Quit ==
    /\ mpc = "cancel"
    /\ \/ /\ CancelSessionReads \/ CancelSessionStops \/ CancelSessionAcknowledges
          /\ UNCHANGED mpc
       \/ /\ state = "Idle"
          /\ mpc' = "shutdown"
          /\ UNCHANGED managedVars
    /\ UNCHANGED <<signalled, rung, ipcUp, ticked>>

\* ... shutdown(), from main() or, when main() returned early, from the
\* destructor of the queue, which reports nothing ...
Shutdown ==
    /\ mpc \in {"shutdown", "unwind"}
    /\ ShutdownSteps
    /\ mpc' = IF shut' # "down" THEN mpc ELSE IF mpc = "shutdown" THEN "unregister" ELSE "exited"
    /\ UNCHANGED <<signalled, rung, ipcUp, ticked>>

\* ... and the callback is cleared; poll_completed() and ipc_service.stop() follow.
UnregisterCallback ==
    /\ Goto("unregister", "report")
    /\ SetCallback(FALSE)
    /\ UNCHANGED <<signalled, rung, ipcUp, ticked>>

Main ==
    \/ Boot \/ RegisterCallback \/ LoopTest \/ PollReturns \/ Serve \/ ServeDone
    \/ PollCompleted \/ TickSkips \/ TickPreviews \/ PreviewReturns
    \/ Quit \/ Shutdown \/ UnregisterCallback

\* Fault: the eventfd is only rung when the main thread is seen waiting.
WorkerRingsWaiting ==
    /\ NotifyCall
    /\ rung' = (rung \/ (callback /\ ipcUp /\ mpc = "wait"))
    /\ UNCHANGED <<recordingVars, sessionVars, mpc, signalled, ipcUp, ticked>>

\* The callback is IpcService::wake(): it makes the eventfd readable.
WorkerRings ==
    /\ NotifyCall
    /\ rung' = (rung \/ (callback /\ ipcUp))
    /\ UNCHANGED <<recordingVars, sessionVars, mpc, signalled, ipcUp, ticked>>

WorkerElse ==
    /\ RunExit \/ RunTake \/ NotifyCopy \/ StoreResult \/ \E ok \in BOOLEAN : Transcribed(ok)
    /\ UNCHANGED <<recordingVars, sessionVars, mainVars>>

Audio == AudioThread /\ UNCHANGED mainVars

Done == mpc = "exited" /\ UNCHANGED daemonVars

DaemonNext == Main \/ WorkerRings \/ WorkerElse \/ Audio \/ Signal \/ Done

DaemonSpec == DaemonInit /\ [][DaemonNext]_daemonVars

\* poll_completed() publishes a TranscriptionCompleted, and so is in the Clipboard
\* Service's copy(), which may block (module Clipboard).
Copying == call = "poll" /\ \E i \in DOMAIN results : results[i].ok

\* Every thread is scheduled and poll(2) has a timeout.  Commands are up to the
\* clients, but a command that has begun is finished, and a round of commands
\* ends.  A preview decodes a bounded window and ends; the worker's transcription
\* is only assumed to end once it was told to abort, and copy() is not assumed to
\* return.
DaemonFairness ==
    /\ WF_daemonVars(Boot \/ RegisterCallback \/ LoopTest \/ PollReturns)
    /\ WF_daemonVars(PollCompleted /\ ~Copying)
    /\ WF_daemonVars(Serve /\ call # "none")
    /\ WF_daemonVars(ServeDone)
    /\ WF_daemonVars(TickSkips \/ TickPreviews)
    /\ WF_daemonVars(PreviewReturns)
    /\ WF_daemonVars(Quit \/ Shutdown \/ UnregisterCallback)
    /\ WF_daemonVars(WorkerRings)
    /\ WF_daemonVars((RunExit \/ RunTake \/ NotifyCopy \/ StoreResult \/ (abort /\ Transcribed(FALSE)))
                       /\ UNCHANGED <<recordingVars, sessionVars, mainVars>>)

DaemonStopSpec == DaemonSpec /\ DaemonFairness

\* A transcription ends by itself.
TranscriptionsEnd ==
    WF_daemonVars((\E ok \in BOOLEAN : Transcribed(ok)) /\ UNCHANGED <<recordingVars, sessionVars, mainVars>>)

\* copy() returns: the helper reads its text and ends.
CopiesReturn == WF_daemonVars(PollCompleted)

-----------------------------------------------------------------------------
(* Properties *)

\* The Whisper context is never used by two threads at once: the main thread is
\* not in transcribe_partial() while the worker is in transcribe() (the comments
\* on TranscriptionQueue and in tick()).
BackendExclusive == ~(mpc = "preview" /\ wpc = "transcribe")

\* A preview that has begun is never interrupted: once a tick has run in a
\* recording, the worker stays idle until the recording ends, so the window is
\* only ever skipped ahead before anything of it was committed.
PreviewNeverInterrupted == ticked /\ state = "Recording" /\ call = "none" => Outstanding = 0

\* No finished or started job waits for a timeout: when the main thread blocks
\* in poll(2) with something to drain, the eventfd is readable or the worker is
\* about to ring it.
NoLostWakeup ==
    mpc = "wait" /\ (started # <<>> \/ completed # <<>>) =>
        rung \/ wpc \in {"copyStart", "callStart", "copyEnd", "callEnd"}

\* The worker never calls into an IPC service that is gone.
CallbackTargetAlive == wpc \in {"callStart", "callEnd"} /\ callback => ipcUp

\* No recording is lost to a full queue: main() cancels before it shuts down, so
\* stop_session()'s failure path for a refused job is never taken.
RecordingNeverRefused == call = "enqueue" => HasCapacity

\* When main() has returned, everything it started is over: the microphone is
\* released, the worker is gone, and every session that was ever announced has
\* been given its end (the last event of one of its lives).
CleanExit ==
    mpc = "exited" =>
        /\ ~initialized /\ wpc = "exited" /\ ~ipcUp
        /\ \A s \in Sessions : events[s] = <<>> \/ events[s] \in Lives

\* A signal ends the program, even with a transcription running that would not
\* end by itself, as long as no copy() to the clipboard blocks for ever.
SignalStops == CopiesReturn => (signalled ~> mpc = "exited")

\* As long as transcriptions end and copies return, every queued recording gets an
\* outcome that subscribers see, also when a signal arrives first.
EveryRecordingAnswered == TranscriptionsEnd /\ CopiesReturn =>
    \A s \in Sessions : events[s] # <<>> /\ events[s][Len(events[s])] = "TranscriptionQueued"
                            ~> events[s] \in Lives
=============================================================================
