---------------------------- MODULE DaemonProofs ----------------------------
(***************************************************************************)
(* Proofs about the main loop, for any set of sessions and any capacity.   *)
(***************************************************************************)
EXTENDS Daemon, SubscriberProofs

\* Every step of the daemon is a step of the session manager or leaves it alone.
LEMMA DaemonManagedStep == [DaemonNext]_daemonVars => [SessionNext]_managedVars
  <1> SUFFICES ASSUME [DaemonNext]_daemonVars PROVE [SessionNext]_managedVars
    BY Zenon
  <1>1. CASE Boot \/ LoopTest \/ PollReturns \/ ServeDone \/ TickSkips \/ TickPreviews \/ PreviewReturns \/ Signal
    BY <1>1, Zenon DEF Boot, LoopTest, PollReturns, ServeDone, TickSkips, TickPreviews, PreviewReturns, Signal
  <1>2. CASE RegisterCallback \/ UnregisterCallback
    BY <1>2, Zenon DEF RegisterCallback, UnregisterCallback, SessionNext, ControllingThread
  <1>3. CASE Serve
    BY <1>3, Zenon DEF Serve, Command, SessionNext, ControllingThread
  <1>4. CASE PollCompleted \/ Quit \/ Shutdown
    BY <1>4, Zenon DEF PollCompleted, Quit, Shutdown, SessionNext, ControllingThread
  <1>5. CASE WorkerRings \/ WorkerElse
    BY <1>5, Zenon DEF WorkerRings, WorkerElse, SessionNext, WorkerThread, Worker
  <1>6. CASE Audio
    BY <1>6, Zenon DEF Audio, SessionNext
  <1>7. CASE Done \/ UNCHANGED daemonVars
    BY <1>7, Zenon DEF Done, daemonVars
  <1> QED
    BY <1>1, <1>2, <1>3, <1>4, <1>5, <1>6, <1>7, ZenonT(30) DEF DaemonNext, Main

\* main() drives the session manager as its specification assumes, so what holds
\* of the manager, and of the queue under it, holds in the daemon.
THEOREM DaemonUsesManagerProperly == DaemonSpec => SessionSpec
  <1>1. DaemonInit => SessionInit
    BY Zenon DEF DaemonInit
  <1> QED
    BY <1>1, DaemonManagedStep, PTL DEF DaemonSpec, SessionSpec

\* Where the main thread is, related to the queue, the callback and the IPC
\* service: a preview runs only while the queue is empty, commands run only
\* inside poll_once(), shutdown() runs only after the loop and is over before the
\* callback is cleared, and the callback is cleared before the service stops.
MainInv ==
    /\ mpc = "preview" => pending = <<>> /\ ~busy
    /\ call \in {"start", "stop", "enqueue"} => mpc = "serve"
    /\ stopping => mpc \in {"shutdown", "unwind", "unregister", "report", "exited"}
    /\ mpc \in {"unregister", "report"} => shut = "down"
    /\ mpc = "register" => ipcUp
    /\ mpc = "report" => ~registered
    /\ registered => ipcUp
    /\ CallbackTargetAlive

\* MainInv is preserved by every step of the daemon.
LEMMA MainNext == ManagedInv /\ MainInv /\ [DaemonNext]_daemonVars => MainInv'
  <1> SUFFICES ASSUME ManagedInv, MainInv, [DaemonNext]_daemonVars PROVE MainInv'
    BY Zenon
  <1>0. /\ shut = "down" => wpc = "exited"
        /\ shut # "no" <=> stopping
        /\ pending \in Seq(Sessions) /\ busy \in BOOLEAN /\ registered \in BOOLEAN
    BY Zenon DEF ManagedInv, Flags, QueueTypeOK
  <1> USE DEF MainInv, CallbackTargetAlive
  <1>1. CASE Boot \/ LoopTest \/ PollReturns \/ ServeDone \/ TickSkips \/ PreviewReturns \/ Signal
    <2>1. UNCHANGED managedVars
      BY <1>1, Zenon DEF Boot, LoopTest, PollReturns, ServeDone, TickSkips, PreviewReturns, Signal
    <2>2. UNCHANGED <<pending, busy, call, stopping, shut, registered, wpc, callback>>
      BY <2>1, Zenon DEF managedVars, queueVars, sharedVars, workerVars, ownerVars, sessionVars
    <2>3. /\ ipcUp => ipcUp'
          /\ mpc' = mpc \/ mpc' \notin {"preview", "register", "unregister", "report"} \/ (mpc' = "register" /\ ipcUp')
      BY <1>1, Zenon DEF Boot, LoopTest, PollReturns, ServeDone, TickSkips, PreviewReturns, Signal, Goto
    <2>4. /\ call \in {"start", "stop", "enqueue"} => mpc' = mpc
          /\ stopping => mpc' = mpc
      BY <1>1, Zenon DEF Boot, LoopTest, PollReturns, ServeDone, TickSkips, PreviewReturns, Signal, Goto
    <2> QED
      BY <2>2, <2>3, <2>4, Zenon
  <1>2. CASE TickPreviews
    <2>1. pending = <<>> /\ ~busy
      BY <1>0, <1>2, EmptySeq, LenProperties, SMTT(20) DEF TickPreviews, Outstanding
    <2> QED
      BY <1>2, <2>1, Zenon DEF TickPreviews, Goto, managedVars, queueVars, sharedVars, workerVars, ownerVars, sessionVars
  <1>3. CASE RegisterCallback \/ UnregisterCallback
    BY <1>3 DEF RegisterCallback, UnregisterCallback, SetCallback, SetActivityCallback, Goto, workerVars, ownerVars,
                sessionVars
  <1>4. CASE Serve
    <2>1. mpc = "serve" /\ mpc' = "serve" /\ ipcUp' = ipcUp
      BY <1>4, Zenon DEF Serve
    <2>2. UNCHANGED <<stopping, registered, wpc, callback>>
      BY <1>4, Zenon DEF Serve, Command, StartSessionFails, StartSessionStreams, StartSessionReturns, StopSessionReads,
                  StopSessionLost, StopSessionTakes, StopSessionQueues, StopSessionRefused, CancelSessionReads,
                  CancelSessionStops, CancelSessionAcknowledges, CancelJob, TryEnqueue, CancelPending,
                  queueVars, sharedVars, workerVars
    <2> QED
      BY <2>1, <2>2, Zenon
  <1>5. CASE PollCompleted
    <2>1. UNCHANGED <<stopping, registered, wpc, callback, shut>> /\ call' \in {"poll", "none"}
      BY <1>5, Zenon DEF PollCompleted, PollDrains, PollPublishes, DrainCompleted, DrainStarted, workerVars, ownerVars
    <2>2. \/ mpc' = mpc /\ mpc # "exited" /\ (ipcUp => ipcUp')
          \/ mpc = "poll" /\ mpc' = "tick" /\ (ipcUp => ipcUp')
          \/ mpc = "report" /\ mpc' = "exited"
      BY <1>5, Zenon DEF PollCompleted
    <2>3. mpc # "preview"
      BY <1>5, ZenonT(30) DEF PollCompleted
    <2> QED
      BY <1>0, <2>1, <2>2, <2>3, Zenon
  <1>6. CASE Quit
    BY <1>6 DEF Quit, CancelSessionReads, CancelSessionStops, CancelSessionAcknowledges, Forget, managedVars,
                queueVars, sharedVars, workerVars, ownerVars, sessionVars
  <1>7. CASE Shutdown
    <2>1. UNCHANGED <<registered, wpc, callback, ipcUp>>
      BY <1>7, Zenon DEF Shutdown, ShutdownSteps, ShutdownBegins, ShutdownRequestsAbort, ShutdownReports,
                  ShutdownLocked, ShutdownAbort, ShutdownJoin, sharedVars, workerVars
    <2>2. call' \in {"shutdown", "none", call}
      BY <1>7, Zenon DEF Shutdown, ShutdownSteps, ShutdownBegins, ShutdownRequestsAbort, ShutdownReports, sessionVars
    <2>3. /\ mpc \in {"shutdown", "unwind"}
          /\ mpc' = mpc \/ (shut' = "down" /\ mpc' \in {"unregister", "exited"})
      BY <1>7, Zenon DEF Shutdown
    <2> QED
      BY <2>1, <2>2, <2>3, Zenon
  <1>8. CASE WorkerRings
    BY <1>8, Zenon DEF WorkerRings, NotifyCall, sharedVars, ownerVars, sessionVars
  <1>9. CASE WorkerElse
    <2>1. UNCHANGED <<mpc, ipcUp, registered, stopping, shut, call>>
      BY <1>9, ZenonT(30) DEF WorkerElse, RunExit, RunTake, NotifyCopy, StoreResult, Transcribed, sharedVars, ownerVars,
                  sessionVars, mainVars
    <2>2. ASSUME pending = <<>>, ~busy PROVE pending' = <<>> /\ ~busy'
      BY <1>0, <1>9, <2>2, SMTT(20) DEF WorkerElse, RunExit, RunTake, NotifyCopy, StoreResult, Transcribed, sharedVars
    <2>3. CallbackTargetAlive'
      BY <1>9, <2>1, Zenon DEF WorkerElse, RunExit, RunTake, NotifyCopy, StoreResult, Transcribed
    <2> QED
      BY <2>1, <2>2, <2>3, Zenon
  <1>10. CASE Audio
    BY <1>10, Zenon DEF Audio, AudioThread, mainVars, queueVars, sharedVars, workerVars, ownerVars, sessionVars
  <1>11. CASE Done \/ UNCHANGED daemonVars
    BY <1>11 DEF Done, daemonVars, mainVars, managedVars, queueVars, sharedVars, workerVars, ownerVars, sessionVars
  <1> QED
    BY <1>1, <1>2, <1>3, <1>4, <1>5, <1>6, <1>7, <1>8, <1>9, <1>10, <1>11, ZenonT(30) DEF DaemonNext, Main

\* The inductive invariant holds in every reachable state of the daemon.
THEOREM MainInvariant == DaemonSpec => [](ManagedInv /\ MainInv)
  <1>1. DaemonInit => MainInv
    BY Zenon DEF DaemonInit, SessionInit, QueueInit, MainInv, CallbackTargetAlive
  <1> QED
    BY <1>1, MainNext, DaemonUsesManagerProperly, ManagedInvariant, PTL DEF DaemonSpec

\* The Whisper context is never used by the preview and the worker at once.
THEOREM BackendExclusiveAlways == DaemonSpec => []BackendExclusive
  <1>1. ManagedInv /\ MainInv => BackendExclusive
    BY Zenon DEF ManagedInv, MainInv, Flags, Running, BackendExclusive
  <1> QED
    BY <1>1, MainInvariant, PTL

\* No recording is lost to a full queue.
THEOREM RecordingNeverRefusedAlways == DaemonSpec => []RecordingNeverRefused
  <1>1. ManagedInv /\ MainInv => RecordingNeverRefused
    BY Zenon DEF ManagedInv, MainInv, Ids, RecordingNeverRefused, HasCapacity
  <1> QED
    BY <1>1, MainInvariant, PTL

\* The worker never calls into an IPC service that is gone.
THEOREM CallbackTargetAliveAlways == DaemonSpec => []CallbackTargetAlive
  <1>1. MainInv => CallbackTargetAlive
    BY Zenon DEF MainInv
  <1> QED
    BY <1>1, MainInvariant, PTL

\* The worker has stored something and is still to ring the eventfd for it.
AboutToRing == wpc \in {"copyStart", "callStart", "copyEnd", "callEnd"}

\* What holds of the loop, from where the main thread is: before the loop nothing
\* was ever queued; in it the callback is registered, so the worker rings for
\* whatever it stored since the last poll_completed(); and the queue stays empty
\* from a tick in a recording to the end of that recording.
LoopInv ==
    /\ mpc \in {"boot", "register", "unwind"} =>
           /\ pending = <<>> /\ started = <<>> /\ completed = <<>> /\ results = <<>>
           /\ state = "Idle" /\ wpc \in {"wait", "exited"}
    /\ mpc \in {"loop", "wait", "serve", "poll", "tick", "preview"} =>
           registered /\ (wpc \in {"callStart", "callEnd"} => callback)
    /\ mpc = "poll" /\ call = "poll" /\ completed # <<>> => rung \/ AboutToRing
    /\ mpc \in {"tick", "preview", "loop", "wait"} /\ (started # <<>> \/ completed # <<>>) => rung \/ AboutToRing
    /\ ticked /\ state = "Recording" => pending = <<>> /\ ~busy

\* What holds of the way out: each operation is called from its own places, no
\* session is active once shutdown() may be called, and the last poll_completed()
\* leaves nothing behind since the worker is gone.
ExitInv ==
    /\ call = "cancel" => mpc \in {"serve", "cancel"}
    /\ call = "poll" => mpc \in {"poll", "report"}
    /\ call = "shutdown" => mpc \in {"shutdown", "unwind"}
    /\ mpc \in {"boot", "unwind"} => ~ipcUp
    /\ mpc \in {"shutdown", "unregister", "report", "exited"} => state = "Idle"
    /\ mpc = "report" /\ call = "poll" => completed = <<>>
    /\ mpc = "exited" => shut = "down" /\ ~ipcUp /\ call = "none" /\ completed = <<>> /\ results = <<>>

\* The loop is preserved by every step of the daemon.
LEMMA LoopNext ==
    ASSUME ManagedInv, MainInv, LoopInv, Views, [DaemonNext]_daemonVars
    PROVE  LoopInv'
  <1>0. /\ pending \in Seq(Sessions) /\ busy \in BOOLEAN /\ registered \in BOOLEAN
        /\ busy <=> Running
        /\ shut # "no" <=> stopping
    BY Zenon DEF ManagedInv, Flags, QueueTypeOK
  <1> USE DEF LoopInv, AboutToRing
  <1>1. CASE Boot \/ LoopTest \/ PollReturns \/ ServeDone \/ TickSkips \/ TickPreviews \/ PreviewReturns \/ Signal
    <2>1. UNCHANGED managedVars
      BY <1>1, Zenon DEF Boot, LoopTest, PollReturns, ServeDone, TickSkips, TickPreviews, PreviewReturns, Signal
    <2>2. UNCHANGED <<pending, started, completed, results, busy, state, call, registered, wpc, callback>>
      BY <2>1, Zenon DEF managedVars, queueVars, sharedVars, workerVars, ownerVars, sessionVars
    <2>3. ticked' => ticked \/ (pending = <<>> /\ ~busy)
      <3>1. CASE TickPreviews
        BY <1>0, <3>1, EmptySeq, LenProperties, SMTT(20) DEF TickPreviews, Outstanding
      <3>2. CASE ticked' = ticked
        BY <3>2, Zenon
      <3> QED
        BY <1>1, <3>1, <3>2, Zenon DEF Boot, LoopTest, PollReturns, ServeDone, TickSkips, PreviewReturns, Signal
    <2>4. CASE Boot
      BY <2>2, <2>3, <2>4, Zenon DEF Boot, Goto
    <2>5. CASE LoopTest
      BY <2>2, <2>3, <2>5, Zenon DEF LoopTest
    <2>6. CASE PollReturns \/ ServeDone
      BY <2>2, <2>3, <2>6, Zenon DEF PollReturns, ServeDone, Goto
    <2>7. CASE TickSkips \/ TickPreviews \/ PreviewReturns \/ Signal
      BY <2>2, <2>3, <2>7, ZenonT(30) DEF TickSkips, TickPreviews, PreviewReturns, Signal, Goto
    <2> QED
      BY <1>1, <2>4, <2>5, <2>6, <2>7, ZenonT(30)
  <1>2. CASE RegisterCallback \/ UnregisterCallback
    BY <1>2 DEF RegisterCallback, UnregisterCallback, SetCallback, SetActivityCallback, Goto, workerVars, ownerVars,
                sessionVars
  <1>3. CASE Serve
    <2>1. mpc = "serve" /\ mpc' = "serve" /\ Command /\ ticked' = (ticked /\ call # "start")
      BY <1>3, Zenon DEF Serve
    <2>2. UNCHANGED <<registered, wpc, callback>>
      BY <2>1, Zenon DEF Command, StartSessionFails, StartSessionStreams, StartSessionReturns, StopSessionReads,
                  StopSessionLost, StopSessionTakes, StopSessionQueues, StopSessionRefused, CancelSessionReads,
                  CancelSessionStops, CancelSessionAcknowledges, CancelJob, TryEnqueue, CancelPending,
                  queueVars, sharedVars, workerVars
    <2>3. ASSUME ticked', state' = "Recording" PROVE pending' = <<>> /\ ~busy'
      <3>1. ticked /\ call # "start"
        BY <2>1, <2>3, Zenon
      <3>2. CASE \/ StartSessionFails \/ StartSessionStreams \/ StartSessionReturns \/ CancelSessionStops
                 \/ CancelSessionAcknowledges \/ StopSessionQueues \/ StopSessionLost \/ StopSessionRefused
        BY <2>3, <3>1, <3>2, ZenonT(30) DEF StartSessionFails, StartSessionStreams, StartSessionReturns, CancelSessionStops,
               CancelSessionAcknowledges, StopSessionQueues, StopSessionLost, StopSessionRefused, CanStart, Forget
      <3>3. CASE StopSessionReads \/ StopSessionTakes \/ CancelSessionReads
        BY <2>3, <3>1, <3>3, SMTT(20) DEF StopSessionReads, StopSessionTakes, CancelSessionReads, queueVars, sharedVars
      <3>4. CASE \E s \in Sessions : CancelJob(s)
        <4>1. state = "Recording" /\ busy' = busy /\ \E i \in DOMAIN pending : TRUE
          BY <2>3, <3>4, Zenon DEF CancelJob, CancelPending
        <4>2. pending = <<>>
          BY <3>1, <4>1, Zenon
        <4>3. DOMAIN pending = {}
          BY <4>2
        <4> QED
          BY <4>1, <4>3, Zenon
      <3> QED
        BY <2>1, <3>2, <3>3, <3>4, Zenon DEF Command
    <2> QED
      BY <2>1, <2>2, <2>3, Zenon
  <1>4. CASE PollCompleted
    <2>1. mpc \in {"poll", "report"} /\ UNCHANGED <<pending, busy, registered, wpc, callback, rung, ticked, state>>
      BY <1>4, Zenon DEF PollCompleted, PollDrains, PollPublishes, DrainCompleted, DrainStarted, workerVars
    <2>2. CASE PollDrains /\ UNCHANGED mpc
      <3>1. completed' = <<>> /\ mpc' \in {"poll", "report"}
        BY <2>1, <2>2, Zenon DEF PollDrains, DrainCompleted
      <3> QED
        BY <2>1, <2>2, <3>1, Zenon
    <2>3. CASE PollPublishes /\ mpc' = IF mpc = "poll" THEN "tick" ELSE "exited"
      BY <2>1, <2>3 DEF PollPublishes, DrainStarted
    <2> QED
      BY <1>4, <2>2, <2>3, Zenon DEF PollCompleted
  <1>5. CASE Quit
    <2>1. mpc = "cancel" /\ mpc' \in {"cancel", "shutdown"} /\ ticked' = ticked
      BY <1>5, Zenon DEF Quit
    <2>2. UNCHANGED <<pending, busy>> /\ (state' = "Recording" => state = "Recording")
      BY <1>5, Zenon DEF Quit, CancelSessionReads, CancelSessionStops, CancelSessionAcknowledges, Forget, managedVars,
                  queueVars, sharedVars, sessionVars
    <2> QED
      BY <2>1, <2>2, Zenon
  <1>6. CASE Shutdown
    <2>1. /\ mpc \in {"shutdown", "unwind"} /\ mpc' \in {mpc, "unregister", "exited"}
          /\ ticked' = ticked
      BY <1>6, Zenon DEF Shutdown
    <2>2. /\ UNCHANGED <<started, completed, busy, wpc, state, results>>
          /\ pending' = pending \/ pending' = <<>>
      BY <1>6, Zenon DEF Shutdown, ShutdownSteps, ShutdownBegins, ShutdownRequestsAbort, ShutdownReports,
                  ShutdownLocked, ShutdownAbort, ShutdownJoin, sharedVars, workerVars, sessionVars
    <2> QED
      BY <2>1, <2>2, Zenon
  <1>7. CASE WorkerRings
    <2>1. /\ UNCHANGED <<pending, started, completed, results, busy, state, call, registered, mpc, ticked>>
          /\ wpc \in {"callStart", "callEnd"} /\ wpc' \notin {"callStart", "callEnd"}
          /\ rung' = (rung \/ (callback /\ ipcUp))
      BY <1>7, Zenon DEF WorkerRings, NotifyCall, sharedVars, sessionVars
    <2>2. mpc \in {"loop", "wait", "serve", "poll", "tick", "preview"} => rung'
      BY <2>1, ZenonT(30) DEF MainInv
    <2> QED
      BY <2>1, <2>2, Zenon
  <1>8. CASE WorkerElse
    <2>1. UNCHANGED <<mpc, rung, ticked, registered, call, results, state, stopping>>
      BY <1>8, Zenon DEF WorkerElse, RunExit, RunTake, NotifyCopy, StoreResult, Transcribed, sharedVars, sessionVars, mainVars
    <2>2. CASE RunExit
      <3>1. UNCHANGED <<pending, started, completed, busy>> /\ wpc = "wait" /\ wpc' = "exited" /\ stopping
        BY <2>2, Zenon DEF RunExit, sharedVars
      <3> QED
        BY <2>1, <3>1, Zenon DEF MainInv
    <2>3. CASE RunTake
      <3>1. pending # <<>> /\ completed' = completed /\ wpc' = "copyStart"
        BY <2>3, Zenon DEF RunTake
      <3> QED
        BY <2>1, <3>1, Zenon
    <2>4. CASE NotifyCopy
      <3>1. /\ UNCHANGED <<pending, started, completed, busy>> /\ callback' = registered
            /\ wpc \in {"copyStart", "copyEnd"} /\ wpc' \in {"callStart", "callEnd"}
        BY <2>4, Zenon DEF NotifyCopy, sharedVars
      <3> QED
        BY <2>1, <3>1, Zenon
    <2>5. CASE StoreResult
      <3>1. /\ UNCHANGED <<pending, started>> /\ ~busy' /\ wpc = "store" /\ wpc' = "copyEnd"
        BY <2>5, Zenon DEF StoreResult
      <3> QED
        BY <2>1, <3>1, Zenon
    <2>6. CASE \E ok \in BOOLEAN : Transcribed(ok)
      <3>1. UNCHANGED <<pending, started, completed, busy>> /\ wpc = "transcribe" /\ wpc' = "store"
        BY <2>6, Zenon DEF Transcribed, sharedVars
      <3> QED
        BY <2>1, <3>1, Zenon
    <2> QED
      BY <1>8, <2>2, <2>3, <2>4, <2>5, <2>6, ZenonT(30) DEF WorkerElse
  <1>9. CASE Audio \/ Done \/ UNCHANGED daemonVars
    <2>1. UNCHANGED <<pending, started, completed, results, busy, state, call, registered, wpc, callback, mpc, rung, ticked>>
      BY <1>9, Zenon DEF Audio, AudioThread, Done, daemonVars, mainVars, managedVars, queueVars, sharedVars, workerVars,
                  ownerVars, sessionVars
    <2> QED
      BY <2>1, Zenon
  <1> QED
    BY <1>1, <1>2, <1>3, <1>4, <1>5, <1>6, <1>7, <1>8, <1>9, ZenonT(30) DEF DaemonNext, Main

\* The way out is preserved by every step of the daemon.
LEMMA ExitNext ==
    ASSUME ManagedInv, MainInv, LoopInv, ExitInv, Views, [DaemonNext]_daemonVars
    PROVE  ExitInv'
  <1>0. /\ shut = "down" => wpc = "exited"
        /\ shut # "no" <=> stopping
        /\ call \in {"start", "stop", "enqueue"} => mpc = "serve"
    BY Zenon DEF ManagedInv, Flags, MainInv
  <1> USE DEF ExitInv
  <1>1. CASE Boot \/ LoopTest \/ PollReturns \/ ServeDone \/ TickSkips \/ TickPreviews \/ PreviewReturns \/ Signal
    <2>1. UNCHANGED managedVars
      BY <1>1, Zenon DEF Boot, LoopTest, PollReturns, ServeDone, TickSkips, TickPreviews, PreviewReturns, Signal
    <2>2. UNCHANGED <<completed, results, state, call, shut>>
      BY <2>1, Zenon DEF managedVars, queueVars, sharedVars, ownerVars, sessionVars
    <2>3. \/ UNCHANGED <<mpc, ipcUp>>
          \/ mpc' \in {"cancel", "wait", "serve", "poll", "loop", "preview", "register"} /\ call \notin {"cancel", "poll", "shutdown"}
          \/ mpc = "boot" /\ mpc' = "unwind" /\ ipcUp' = ipcUp
      BY <1>1, Zenon DEF Boot, LoopTest, PollReturns, ServeDone, TickSkips, TickPreviews, PreviewReturns, Signal, Goto
    <2> QED
      BY <2>2, <2>3
  <1>2. CASE RegisterCallback \/ UnregisterCallback
    BY <1>2, Zenon DEF RegisterCallback, UnregisterCallback, SetCallback, SetActivityCallback, Goto, ownerVars, sessionVars
  <1>3. CASE Serve
    <2>1. mpc = "serve" /\ mpc' = "serve" /\ Command
      BY <1>3, Zenon DEF Serve
    <2>2. call' \notin {"poll", "shutdown"}
      BY <2>1, Zenon DEF Command, StartSessionFails, StartSessionStreams, StartSessionReturns, StopSessionReads,
                  StopSessionLost, StopSessionTakes, StopSessionQueues, StopSessionRefused, CancelSessionReads,
                  CancelSessionStops, CancelSessionAcknowledges, CancelJob, CanStart, Forget
    <2> QED
      BY <2>1, <2>2, Zenon
  <1>4. CASE PollCompleted
    <2>1. /\ mpc \in {"poll", "report"} /\ UNCHANGED <<state, shut>>
          /\ ipcUp' = (ipcUp /\ mpc' # "exited")
      BY <1>4, Zenon DEF PollCompleted, PollDrains, PollPublishes, DrainCompleted, DrainStarted, ownerVars
    <2>2. CASE PollDrains /\ UNCHANGED mpc
      BY <2>1, <2>2, Zenon DEF PollDrains, DrainCompleted
    <2>3. CASE PollPublishes /\ mpc' = IF mpc = "poll" THEN "tick" ELSE "exited"
      BY <2>1, <2>3, Zenon DEF PollPublishes, DrainStarted, MainInv
    <2> QED
      BY <1>4, <2>2, <2>3, Zenon DEF PollCompleted
  <1>5. CASE Quit
    <2>1. mpc = "cancel" /\ (mpc' = "cancel" \/ (mpc' = "shutdown" /\ state = "Idle" /\ UNCHANGED managedVars))
      BY <1>5, Zenon DEF Quit
    <2>2. CASE mpc' = "cancel"
      <3>1. call' \notin {"poll", "shutdown"}
        BY <1>5, <2>1, <2>2, ZenonT(30) DEF Quit, CancelSessionReads, CancelSessionStops, CancelSessionAcknowledges, Forget
      <3> QED
        BY <2>2, <3>1, Zenon
    <2>3. CASE mpc' = "shutdown" /\ state = "Idle" /\ UNCHANGED managedVars
      BY <2>1, <2>3, Zenon DEF Views, managedVars, sessionVars
    <2> QED
      BY <2>1, <2>2, <2>3, Zenon
  <1>6. CASE Shutdown
    <2>1. /\ mpc \in {"shutdown", "unwind"} /\ ipcUp' = ipcUp
          /\ mpc' = IF shut' # "down" THEN mpc ELSE IF mpc = "shutdown" THEN "unregister" ELSE "exited"
      BY <1>6, Zenon DEF Shutdown
    <2>2. /\ UNCHANGED <<completed, state, results>>
          /\ (call' = "shutdown" /\ shut' # "down") \/ call' = "none" \/ (call' = call /\ shut' # "down")
      BY <1>6, Zenon DEF Shutdown, ShutdownSteps, ShutdownBegins, ShutdownRequestsAbort, ShutdownReports,
                  ShutdownLocked, ShutdownAbort, ShutdownJoin, sharedVars, sessionVars
    <2>3. mpc = "unwind" => completed = <<>> /\ results = <<>> /\ state = "Idle"
      BY Zenon DEF LoopInv
    <2> QED
      BY <1>0, <2>1, <2>2, <2>3, ZenonT(30)
  <1>7. CASE WorkerRings \/ WorkerElse
    <2>1. UNCHANGED <<mpc, ipcUp, call, state, results, shut>>
      BY <1>7, Zenon DEF WorkerRings, WorkerElse, NotifyCall, RunExit, RunTake, NotifyCopy, StoreResult, Transcribed,
                  ownerVars, sessionVars, mainVars
    <2>2. mpc \in {"report", "exited"} => wpc = "exited"
      BY <1>0, Zenon DEF MainInv
    <2>3. completed' = completed \/ wpc = "store"
      BY <1>7, Zenon DEF WorkerRings, WorkerElse, NotifyCall, RunExit, RunTake, NotifyCopy, StoreResult, Transcribed, sharedVars
    <2> QED
      BY <2>1, <2>2, <2>3, Zenon
  <1>8. CASE Audio \/ Done \/ UNCHANGED daemonVars
    <2>1. UNCHANGED <<completed, results, state, call, shut, mpc, ipcUp>>
      BY <1>8, Zenon DEF Audio, AudioThread, Done, daemonVars, mainVars, managedVars, queueVars, sharedVars, workerVars,
                  ownerVars, sessionVars
    <2> QED
      BY <2>1, Zenon
  <1> QED
    BY <1>1, <1>2, <1>3, <1>4, <1>5, <1>6, <1>7, <1>8, ZenonT(30) DEF DaemonNext, Main

\* Both hold in every reachable state of the daemon.
THEOREM LoopInvariant == DaemonSpec => [](LoopInv /\ ExitInv)
  <1>1. DaemonInit => LoopInv /\ ExitInv
    BY Zenon DEF DaemonInit, SessionInit, QueueInit, LoopInv, ExitInv
  <1>2. /\ ManagedInv /\ MainInv /\ Views /\ LoopInv /\ ExitInv /\ [DaemonNext]_daemonVars
        => LoopInv' /\ ExitInv'
    BY LoopNext, ExitNext, Zenon
  <1> QED
    BY <1>1, <1>2, MainInvariant, DaemonUsesManagerProperly, ViewsAlways, PTL DEF DaemonSpec

\* A preview that has begun is never interrupted by the worker.
THEOREM PreviewNeverInterruptedAlways == DaemonSpec => []PreviewNeverInterrupted
  <1>1. LoopInv => PreviewNeverInterrupted
    <2> SUFFICES ASSUME LoopInv, ticked, state = "Recording", call = "none" PROVE Outstanding = 0
      BY Zenon DEF PreviewNeverInterrupted
    <2>1. pending = <<>> /\ ~busy
      BY Zenon DEF LoopInv
    <2> QED
      BY ONLY <2>1 DEF Outstanding
  <1> QED
    BY <1>1, LoopInvariant, PTL

\* The main thread never blocks on something to drain without a ring, come or due.
THEOREM NoLostWakeupAlways == DaemonSpec => []NoLostWakeup
  <1>1. LoopInv => NoLostWakeup
    BY Zenon DEF LoopInv, AboutToRing, NoLostWakeup
  <1> QED
    BY <1>1, LoopInvariant, PTL

\* When main() has returned the microphone is released, the worker and the IPC
\* service are gone, and every announced session has been given its end.
THEOREM CleanExitAlways == DaemonSpec => []CleanExit
  <1>1. ASSUME ManagedInv, MainInv, Views, StartFindsDeviceClosed, Stories, NoneForgotten, LoopInv, ExitInv
        PROVE  CleanExit
    <2> SUFFICES ASSUME mpc = "exited"
                 PROVE  /\ ~initialized /\ wpc = "exited" /\ ~ipcUp
                        /\ \A s \in Sessions : Told(s)
      BY Zenon DEF CleanExit, Told
    <2>1. /\ shut = "down" /\ ~ipcUp /\ call = "none" /\ completed = <<>> /\ results = <<>> /\ state = "Idle"
      BY <1>1, Zenon DEF ExitInv
    <2>2. wpc = "exited" /\ pending = <<>> /\ dropped = <<>>
      BY <1>1, <2>1, Zenon DEF ManagedInv, Flags
    <2>3. ~initialized
      <3>1. recording = NoSession /\ ~inStart
        BY <1>1, <2>1, Zenon DEF Views, Agree
      <3> QED
        BY <1>1, <3>1, Zenon DEF StartFindsDeviceClosed, RecordingFree
    <2>4. Somewhere = {}
      <3>1. InHand = {}
        BY <2>2, Zenon DEF InHand, Running
      <3> QED
        BY ONLY <2>1, <2>2, <3>1, SMTT(20) DEF Somewhere, Waiting, Finished, Doomed, Drained
    <2> QED
      BY <1>1, <2>1, <2>2, <2>3, <2>4, ZenonT(30) DEF NoneForgotten
  <1> QED
    BY <1>1, MainInvariant, LoopInvariant, DaemonUsesManagerProperly, ViewsAlways, StoriesAlways,
       SessionUsesRecorderProperly, StartFindsDeviceClosedAlways, PTL

\* What was proved of the parts on their own, each for any caller its specification
\* admits, holds of the parts as main() composes them: the jobs of the queue, the
\* device and the audio of the recorder, and what subscribers are told.
THEOREM DaemonKeepsParts ==
    DaemonSpec => /\ ImplementsLedger
                  /\ [](JobsAccounted /\ AbortStands /\ IdleMeansBackendFree)
                  /\ [](OneDevice /\ AudioIsOwnAndWhole /\ StartFindsDeviceClosed)
                  /\ [](CaptureViewsAgree /\ PublishedLivesAreLegal /\ ResultsInOrder)
  <1>1. DaemonSpec => QueueSpec
    BY DaemonUsesManagerProperly, SessionUsesQueueProperly, PTL DEF UsesQueueProperly
  <1>2. DaemonSpec => RecordingSpec
    BY DaemonUsesManagerProperly, SessionUsesRecorderProperly, PTL
  <1>3. RecordingInv => OneDevice
    BY CountIsOneDevice, Zenon DEF RecordingInv, DeviceInv
  <1>4. DaemonSpec => ImplementsLedger /\ [](JobsAccounted /\ AbortStands /\ IdleMeansBackendFree)
    BY <1>1, QueueImplementsLedger, JobsAccountedAlways, AbortStandsAlways, IdleMeansBackendFreeAlways, PTL
  <1>5. DaemonSpec => [](OneDevice /\ AudioIsOwnAndWhole /\ StartFindsDeviceClosed)
    BY <1>2, <1>3, RecordingInvAlways, AudioIsOwnAndWholeAlways, StartFindsDeviceClosedAlways, PTL
  <1>6. DaemonSpec => [](CaptureViewsAgree /\ PublishedLivesAreLegal /\ ResultsInOrder)
    BY DaemonUsesManagerProperly, CaptureViewsAgreeAlways, PublishedLivesAreLegalAlways, ResultsInOrderAlways, PTL
  <1> QED
    BY <1>4, <1>5, <1>6, PTL

\* Type correctness of main() over the session manager's.
THEOREM DaemonTypesAlways == DaemonSpec => []DaemonTypeOK
  <1> DEFINE Own == mpc \in MainPlaces /\ {signalled, rung, ipcUp, ticked} \subseteq BOOLEAN
  <1>1. DaemonInit => Own
    BY Zenon DEF DaemonInit, MainPlaces
  <1>2. Own /\ [DaemonNext]_daemonVars => Own'
    <2> SUFFICES ASSUME Own, [DaemonNext]_daemonVars PROVE Own'
      BY Zenon
    <2> USE DEF MainPlaces, Goto
    <2>1. CASE Boot \/ RegisterCallback \/ LoopTest \/ PollReturns \/ ServeDone \/ UnregisterCallback \/ Signal
      BY <2>1, Zenon DEF Boot, RegisterCallback, LoopTest, PollReturns, ServeDone, UnregisterCallback, Signal
    <2>2. CASE TickSkips \/ TickPreviews \/ PreviewReturns \/ Quit \/ Shutdown
      BY <2>2, Zenon DEF TickSkips, TickPreviews, PreviewReturns, Quit, Shutdown
    <2>3. CASE Serve \/ PollCompleted \/ WorkerRings
      <3>1. /\ mpc' \in MainPlaces /\ signalled' = signalled
            /\ rung' \in BOOLEAN /\ ipcUp' \in BOOLEAN /\ ticked' \in BOOLEAN
        BY <2>3, Zenon DEF Serve, PollCompleted, WorkerRings
      <3> QED
        BY <3>1, Zenon
    <2>4. CASE WorkerElse \/ Audio \/ Done \/ UNCHANGED daemonVars
      <3>1. UNCHANGED mainVars
        BY <2>4, Zenon DEF WorkerElse, Audio, Done, daemonVars
      <3> QED
        BY <3>1, Zenon DEF mainVars
    <2> QED
      BY <2>1, <2>2, <2>3, <2>4, Zenon DEF DaemonNext, Main
  <1>3. SessionTypeOK /\ Own => DaemonTypeOK
    BY Zenon DEF DaemonTypeOK
  <1> QED
    BY <1>1, <1>2, <1>3, DaemonUsesManagerProperly, SessionTypesAlways, PTL DEF DaemonSpec
=============================================================================
