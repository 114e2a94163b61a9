-------------------------- MODULE RecordingManager --------------------------
(***************************************************************************)
(* domains/audio/recording_manager: one recording at a time over one       *)
(* CaptureDevice.  A captured buffer is abstracted to <<o, n>>: the n-th   *)
(* buffer of the o-th time the device was opened.                          *)
(***************************************************************************)
EXTENDS CaptureDevice, Sequences, SessionIds

VARIABLES samples,     \* samples_, guarded by samples_mutex_
          recording,   \* active_session_
          lost,        \* stop()'s local device_was_lost
          inStop,      \* stop() has read is_running() and not yet stopped the device
          opening      \* the argument of the start() in progress

managerVars   == <<samples, recording, lost, inStop, opening>>
recordingVars == <<deviceVars, managerVars>>

Buffer == (1 .. MaxOpens) \X (1 .. MaxBuffers)

\* The fields of RecordingManager and the locals of its calls; the buffer only
\* holds audio that some opening of the device delivered.
RecordingTypeOK ==
    /\ DeviceTypeOK
    /\ samples \in Seq(Buffer)
    /\ recording \in Sessions \cup {NoSession}
    /\ lost \in BOOLEAN /\ inStop \in BOOLEAN
    /\ opening \in Sessions \cup {NoSession}

RecordingInit ==
    /\ DeviceInit
    /\ samples = <<>>
    /\ recording = NoSession
    /\ lost = FALSE /\ inStop = FALSE
    /\ opening = NoSession

\* on_samples(), on the audio thread.
OnSamples ==
    /\ ForwardSamples
    /\ samples' = Append(samples, <<opens, frames + 1>>)
    /\ UNCHANGED <<recording, lost, inStop, opening>>

RecordingFree == recording = NoSession /\ ~inStart

\* start(): the buffer is cleared, then the device fails to open ...
RecordFails ==
    /\ RecordingFree
    /\ samples' = <<>>
    /\ StartFails
    /\ UNCHANGED <<recording, lost, inStop, opening>>

\* ... or it streams, and start() goes on to its last two stores.
RecordStreams(s) ==
    /\ RecordingFree
    /\ samples' = <<>>
    /\ StartStreams
    /\ opening' = s
    /\ UNCHANGED <<recording, lost, inStop>>

\* Fault: the buffer is cleared after the device was started.
RecordReturnsClears ==
    /\ StartReturns
    /\ recording' = opening
    /\ opening' = NoSession
    /\ samples' = <<>>
    /\ UNCHANGED <<lost, inStop>>

RecordReturns ==
    /\ StartReturns
    /\ recording' = opening
    /\ opening' = NoSession
    /\ UNCHANGED <<samples, lost, inStop>>

\* stop(): is_running() is read before the device is stopped.
StopReads ==
    /\ recording # NoSession
    /\ ~inStop
    /\ lost' = ~running
    /\ inStop' = TRUE
    /\ UNCHANGED <<deviceVars, samples, recording, opening>>

\* Fault: the error of a lost device is returned before the device is stopped.
StopReturnsEarly ==
    /\ inStop
    /\ IF lost THEN UNCHANGED deviceVars ELSE StopDevice
    /\ samples' = <<>>
    /\ recording' = NoSession
    /\ inStop' = FALSE /\ lost' = FALSE
    /\ UNCHANGED opening

\* The rest of stop(): it returns samples_ when ~lost, and otherwise an error,
\* discarding them.
StopReturns ==
    /\ inStop
    /\ StopDevice
    /\ samples' = <<>>
    /\ recording' = NoSession
    /\ inStop' = FALSE /\ lost' = FALSE
    /\ UNCHANGED opening

RecordingNext ==
    \/ OnSamples
    \/ HardwareGone /\ UNCHANGED managerVars
    \/ HandleNotification /\ UNCHANGED managerVars
    \/ RecordFails
    \/ \E s \in Sessions : RecordStreams(s)
    \/ RecordReturns \/ StopReads \/ StopReturns

RecordingSpec == RecordingInit /\ [][RecordingNext]_recordingVars

-----------------------------------------------------------------------------
(* Properties *)

\* While a recording is being made the buffer holds everything the device opened
\* for it has delivered, in order and from the first buffer on, and nothing of an
\* earlier recording, although the audio thread writes it while start() and
\* stop() run.
AudioIsOwnAndWhole ==
    samples = IF initialized THEN [n \in 1 .. frames |-> <<opens, n>>] ELSE <<>>

\* start() always finds the device closed: no recording ever begins on the
\* strength of a device opened for an earlier session (CaptureDevice::start()
\* is then a no-op success), whatever unplug or failure ended that one.
StartFindsDeviceClosed == RecordingFree => ~running /\ ~initialized
=============================================================================
