--------------------------- MODULE CaptureDevice ---------------------------
(***************************************************************************)
(* domains/audio/capture_device: the adapter over a miniaudio device.  The *)
(* controlling thread starts and stops it; miniaudio's own thread delivers *)
(* audio, and the "stopped" notification when the hardware disappears.     *)
(* `running` is the only field both threads write.                         *)
(***************************************************************************)
EXTENDS Naturals

CONSTANTS MaxOpens,     \* bound: times the device is opened
          MaxBuffers    \* bound: buffers one open device delivers

ASSUME DeviceAssumption == MaxOpens \in Nat /\ MaxBuffers \in Nat

VARIABLES initialized,   \* Impl::initialized
          running,       \* Impl::running, atomic
          inStart,       \* start() is between ma_device_start() and its last store
          hw,            \* what the hardware behind `device` does
          objects,       \* ma_device objects that were initialised and not released
          opens,         \* history: how often the device was opened
          frames         \* history: buffers delivered since it was last opened

deviceVars == <<initialized, running, inStart, hw, objects, opens, frames>>

\* "none": no device is open.  "live": it streams.  "gone": it disappeared and
\* the notification is still on its way.  "lost": the notification was delivered.
Hardware == {"none", "live", "gone", "lost"}

\* The fields of Impl and what is behind them; a device is never released more
\* often than it was opened.
DeviceTypeOK ==
    /\ initialized \in BOOLEAN /\ running \in BOOLEAN /\ inStart \in BOOLEAN
    /\ hw \in Hardware
    /\ objects \in Nat
    /\ opens \in 0 .. MaxOpens /\ frames \in 0 .. MaxBuffers

DeviceInit ==
    /\ initialized = FALSE /\ running = FALSE /\ inStart = FALSE
    /\ hw = "none"
    /\ objects = 0 /\ opens = 0 /\ frames = 0

-----------------------------------------------------------------------------
(* The controlling thread.  start() of a device that is believed to run is a *)
(* success that does nothing, and no step.                                   *)

\* Number of objects left once start() has torn down what an earlier start() left.
Leftover == IF initialized THEN objects - 1 ELSE objects

\* Fault: a device that was opened and cannot be started is not released.
StartFailsUnreleased ==
    /\ ~inStart
    /\ ~running
    /\ objects' \in {Leftover, Leftover + 1}
    /\ initialized' = FALSE
    /\ hw' = "none"
    /\ UNCHANGED <<running, inStart, opens, frames>>

\* start() whose ma_device_init() or ma_device_start() fails: whatever was
\* opened is released again.
StartFails ==
    /\ ~inStart
    /\ ~running
    /\ objects' = Leftover
    /\ initialized' = FALSE
    /\ hw' = "none"
    /\ UNCHANGED <<running, inStart, opens, frames>>

\* start() up to the return of a successful ma_device_start(): audio flows and
\* notifications may arrive from here on.
StartStreams ==
    /\ ~inStart
    /\ ~running
    /\ opens < MaxOpens
    /\ objects' = Leftover + 1
    /\ initialized' = TRUE
    /\ hw' = "live"
    /\ inStart' = TRUE
    /\ opens' = opens + 1 /\ frames' = 0
    /\ UNCHANGED running

\* start()'s last store.
StartReturns ==
    /\ inStart
    /\ running' = TRUE
    /\ inStart' = FALSE
    /\ UNCHANGED <<initialized, hw, objects, opens, frames>>

\* stop() of an initialised device: ma_device_uninit() joins miniaudio's thread,
\* so no notification and no audio follow it.  Otherwise stop() does nothing.
StopDevice ==
    /\ ~inStart
    /\ IF initialized
         THEN /\ objects' = objects - 1
              /\ initialized' = FALSE
              /\ running' = FALSE
              /\ hw' = "none"
         ELSE UNCHANGED <<objects, initialized, running, hw>>
    /\ UNCHANGED <<inStart, opens, frames>>

-----------------------------------------------------------------------------
(* miniaudio's thread *)

\* forward_captured_samples(): one buffer handed to on_samples.
ForwardSamples ==
    /\ hw = "live"
    /\ frames < MaxBuffers
    /\ frames' = frames + 1
    /\ UNCHANGED <<initialized, running, inStart, hw, objects, opens>>

HardwareGone ==
    /\ hw = "live"
    /\ hw' = "gone"
    /\ UNCHANGED <<initialized, running, inStart, objects, opens, frames>>

\* handle_device_notification() of a "stopped" notification.
HandleNotification ==
    /\ hw = "gone"
    /\ running' = FALSE
    /\ hw' = "lost"
    /\ UNCHANGED <<initialized, inStart, objects, opens, frames>>

DeviceNext ==
    \/ StartFails \/ StartStreams \/ StartReturns \/ StopDevice
    \/ ForwardSamples \/ HardwareGone \/ HandleNotification

DeviceSpec == DeviceInit /\ [][DeviceNext]_deviceVars

-----------------------------------------------------------------------------
(* Properties *)

\* ma_device_init() never runs over a device that is still open and every device
\* is released exactly once, although an unplug clears `running` without
\* releasing anything (the comments on Impl::initialized and in start()).
OneDevice == objects = IF initialized THEN 1 ELSE 0

\* Once the notification of an unplug was delivered, is_running() tells the
\* truth (the comment above handle_device_notification()).
UnplugIsSeen == hw = "lost" /\ ~inStart => ~running
=============================================================================
