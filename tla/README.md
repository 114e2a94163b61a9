# Yoru Speech in TLA+

A verification development for the dictation daemon in `src/`. It models the
daemon's components and its dictation client as TLA+ modules, checks them with TLC
on small instances, and proves the safety properties the runs check with TLAPS for
every value of the constants (two of the live transcriber's under stated hypotheses).
`PROJECT.json` lists the runs, their mutants, the lines each definition stands for, the
hazards and the theorems.

## The system

One process, three threads, and for each copied transcript a child process:

* the **main thread** (`app/main.cpp`) loops over `IpcService::poll_once()`,
  `SessionManager::poll_completed()` and `LiveTranscriber::tick()`. Every client
  command, every published event and every use of the clipboard is on it;
* the **worker** of `TranscriptionQueue` takes recordings off a bounded queue and
  has the Whisper backend transcribe them;
* **miniaudio's thread** delivers audio and the notification that the device
  stopped.

Clients are separate processes on a Unix socket; the one in this repository,
`yoru-dictate`, is a script that each press of a key starts anew. The configuration,
the socket file and the script's marker file outlive the processes.

| Part | Source | State it owns | Operations | Module |
|---|---|---|---|---|
| Transcription queue | `session/transcription_queue` | pending, started, completed, busy, stopping, callback | enqueue, cancel, drain, set callback, shutdown; the worker's `run()` | `TranscriptionQueue`, abstract: `JobLedger` |
| Capture device | `audio/capture_device` | running, initialized | start, stop, notification, samples | `CaptureDevice` |
| Recording manager | `audio/recording_manager` | sample buffer, active session | start, stop, on_samples | `RecordingManager` |
| Session manager | `session/session_manager`, `session`, `service_state` | capture state, active session, next id, last results | start, stop, cancel, cancel_job, poll_completed, shutdown | `SessionManager` |
| Live transcriber | `session/live_transcriber` | segment, committed and tail text, words of the last tick | tick, reset | `LiveTranscriber` |
| Composition root | `app/main.cpp` | stop flag | boot, loop, shutdown sequence | `Daemon` |
| IPC server, bridge, routing | `ipc/ipc_server`, `event_bridge`, `ipc_service` | clients, read buffers, doomed clients, subscriptions | poll_once, send_line, broadcast, stop | `IpcServer` |
| Configuration | `config/*`, set_config in `ipc/` | current configuration, the file | load, update | `Configuration` |
| Speech backend | `speech/whisper_backend` | abort flag, context | transcribe, transcribe_partial, abort | inside `TranscriptionQueue`, `LiveTranscriber` |
| Clipboard | `clipboard/*` | enabled, the child and its pipe | copy, follow the configuration | `Clipboard` |
| Instances on one path | `IpcServer::start()`, `stop()`, `main.cpp` | the socket file, the listening socket | start, stop, crash | `Instances` |
| Dictation client | `packaging/hyprland/yoru-dictate` | the marker file, its two connections | main, do_start, do_stop, open_event_listener, wait_for_transcript | `Dictation` |
| Model repository, logger | | | | not modelled, see below |

## How the modules fit together

`SessionIds` declares the identifiers. `RecordingManager` extends `CaptureDevice`;
`SessionManager` extends `TranscriptionQueue` and `RecordingManager`; `Daemon`
extends `SessionManager`; `Instances` extends `Clipboard`, whose children inherit the
listening socket of the daemon that forks them. `Dictation` is about processes outside
the daemon and sees it through its socket: the answers, the events and their order, and
the end of a connection. Each layer's action conjoins the action of the layer
below with its own assignments, so a call is one formula from top to bottom.
`LiveTranscriber`, `IpcServer` and `Configuration` are modelled on their own:
they meet the rest only on the main thread, through calls that do not interleave.
`Daemon` keeps of the live transcriber what the others can notice, namely that it
uses the backend, and of the IPC server that a round runs any commands and that
the eventfd ends the wait.

**What a step is.** A call is cut where another thread can see or change what it
shares: at each acquisition of the queue's lock, around each call of the device,
at each `write()` of `send_line()`, at each system call that changes the
configuration file. A variable says where each thread is (`wpc`, `mpc`, `call`,
`inStart`, `rpc`, `cpc`...). A call that is refused at once and changes nothing is
not a step. Publishing an event is synchronous and part of the step that does it.

**Abstractions.** A job is its session id. Audio is numbered buffers
(`RecordingManager`) or units of one word (`LiveTranscriber`). A recognised word is what
it says, out of a small set of texts, and whether it is marked as cut off; words are
compared by what they say, as in `words_match()`, and the speaker may repeat them. The
unit a word was heard in is recorded for the properties only. A protocol line is a few pieces of which the last ends it; the pieces are what a
`read()` or `write()` can separate. A field of the configuration is told from another
only by how it is checked. History variables (marked in the declarations) record what
was published, told or written. Actions read them for two things only: counters such as
`opens`, `frames` and `published` bound a run, and `Owner` in `TranscriptionQueue` uses
`told` to enqueue an id only once, which `UsesQueueProperly` shows the session manager does.

**Definitions marked `Fault`** are faulty variants of the definition that follows
them; no specification uses them. For each property of each run one of them, put in
the place of the original, makes TLC report that property as violated.

## The runs

| Run | Asks | Bounds | States |
|---|---|---|---|
| `transcription_queue` | Are jobs lost, doubled or run out of order? Does the abort stand, is an idle count reliable, is every job answered? | 3 jobs, capacity 2 | 66 thousand |
| `session_manager` | Does an unplug leak a device, release it twice or open over it? Does a recording hold exactly its own audio? Is what subscribers hear of a session a legal life? Do the views of capture agree? Is the queue used properly? | 3 sessions, capacity 1, 3 openings, 2 buffers | 362 thousand |
| `daemon` | One user of the backend, no lost wakeup, no recording refused, a clean exit. Does a signal end the program? Is every queued recording answered? | 2 sessions, capacity 1 | 46 thousand |
| `live_transcriber` | Is committed text complete, ordered and free of repetitions, and shown? | 5 units, 4 texts, segments of 3, overlap 1, symmetric texts | 692 thousand |
| `ipc_server` | Is anything inherited when a descriptor is reused? Does each client get every event and answer, whole and in order? | 2 connections and descriptors, 1 event, 2 pieces each, symmetric connections | 1.6 million |
| `ipc_served` | Can one client hold up another? | 3 connections, 2 descriptors, 1 piece each, no events | 247 thousand |
| `configuration` | Does the file survive crashes, failures and edits? | one field of each kind | 436 thousand |
| `dictation` | Can a transcript be missed? Is what a helper reports its own session's? Has every recording the marker that lets a toggle stop it? Does every press end? | 2 helpers, 3 presses of toggle or stop, 2 sessions, 2 daemons one after the other, a queue of 1 | 261 thousand |
| `instances` | Can a clipboard command harm the daemon? Whose socket is at the path, through starts, stops, failures and crashes? Does a copy end? | 2 processes, 1 copy each, texts of 1 and 3 pieces, a pipe of 2 | 159 thousand |

The device and the recording manager have no passing run of their own: `session_manager`
drives all their operations with the session manager as caller. Of the type invariants
`LiveTypeOK` is checked (it bounds the indices `tick()` reads the buffer with); all of them
are proved.

The bounds make the interesting cases happen: with capacity 1 the second
session is refused until the worker has taken the first, and with three sessions the
queue is full behind a running job; of two texts one fits the pipe and one does not; a
client that leaves before the next one connects hands on its descriptor; a socket with
room for one line and a half makes writes short; two helpers make two presses overlap, a third
press follows either of them, and a second daemon hands out the ids of the first again;
segments of three units in five units of audio give two boundaries and a skip, and four
texts allow every pattern of repetitions around a boundary; three connections on two
descriptors leave one client queued while the others hold the table. In `ipc_served`
clients send one command or an unfinished line, and the answer to a command already
exceeds the room in the socket, so the events are left to `ipc_server`.
In `IpcServer` `CHECK_DEADLOCK` is off because a stopped server whose clients have sent
everything has nothing left to do. Every other run checks for deadlock.

### Disagreements between comments and code

Three runs are expected to find a violation. Each states what a comment says.

* `capture_unplug`: a notification that arrives before `start()`'s last store is lost,
  and `is_running()` stays true for a device that is gone.
* `live_repeat`: a word at a segment boundary that is first misheard is committed a
  second time. (In `live_transcriber`, where `Steady` says that the first word of
  a window is heard and heard right, nothing is repeated.)
* `clipboard_blocks`: a text larger than the pipe, given to a command that neither reads
  nor exits, holds `copy()` in `write()`, before the timeout has begun. (In `instances`,
  `CopyReturns` shows that a text that fits the pipe does not.)

More places where the models behave otherwise than a reader might expect, without
a run of their own:

* a client given up on in the middle of a round is still read in that round
  (`IpcServer.Read`), and disconnected when the next one begins;
* `overlap_prefix_length()` compares what words say and takes the longest match. When a word
  is said again around a segment boundary ("no no no"), it may take new
  words for the kept audio, and then a repeated word, or the word after one, never reaches
  `committed_text`. `CommittedCoversAudio` excepts such words (`Echo`); TLC finds
  both kinds of loss when either half of the exception is taken away. Only the preview is
  affected: the transcript of the whole recording is made separately;
* `accept()` that fails for want of descriptors is tried again in every round, and the client
  stays queued as long as the others keep theirs (`AcceptEnds`);
* two daemons that start at the same moment can both serve, one of them without a file, and
  when that one stops later it removes the file of whoever is served then. This is why
  `FileFollowsOwner` is stated for histories in which no two calls of `start()` or `stop()`
  overlapped and no probe's `socket()` failed;
* a `wl-copy` in the background keeps the listening socket of a crashed daemon alive, so
  that a restart is refused while it lasts (`Instances.Held`);
* an answer to `start_recording` that takes more than 5 s leaves a recording without marker:
  each later toggle sends a start that is refused, and only `yoru-dictate stop` ends the
  recording. `RecordingIsMarked` excludes histories with such a timeout;
* a daemon replaced between a helper's `subscribe` and its `stop_recording` makes the helper
  compare ids of the second with events of the first. `ReportIsOwn` and
  `TranscriptReachesWaiter` are about a helper whose two connections led to one daemon;
* when the copy to the clipboard fails, the error is broadcast before the transcript
  (`AutoClipboard` subscribes before the bridge and publishes from inside the event), so the
  helper reports the error and the text only reaches clients that read on;
* a stop that finds the device lost leaves the service in state `Error` until a
  `cancel_session`, which no toggle sends: each one is a start that is refused.

### Fairness

`WF` on the steps of a thread: the operating system schedules it. `poll(2)` has a
200 ms timeout, so waiting ends. Nothing is assumed of clients, of the audio thread or
of the hardware. The specifications assume that a transcription ends only once the
abort flag is set, which Whisper polls, and `Daemon` does not assume that a `copy()` to the
clipboard returns: `clipboard_blocks` shows that it need not. What more a property needs is
its hypothesis:

* `EveryJobAnswered` assumes `ResultsFlow`: a transcription ends by itself, and the owner
  keeps draining, which main()'s loop does as long as the calls it makes return;
* `SignalStops` assumes `CopiesReturn`, that no `copy()` made by `poll_completed()` blocks for
  ever, and nothing of transcriptions. Without it TLC finds the main thread in `copy()`, where
  it never looks at the signal;
* `EveryRecordingAnswered` assumes `CopiesReturn` and `TranscriptionsEnd`;
* `EveryoneServed` assumes, of the client it speaks about, `DescriptorForClient`: time and
  again the client is not queued or some descriptor is free, and `accept()` does not fail each
  time it is tried. Without the first half TLC finds two clients that keep both descriptors.

A preview decodes a bounded window on the main thread and is assumed to end. The rounds of
`IpcServer` and the daemon of `Dictation` stand for a main thread that gets back to its loop,
so both assume that previews and copies return. In `Instances` the deadline of `copy()`
passes, and nothing is assumed of the clipboard command. In `Dictation` a helper that was
started runs on, the daemon handles what it received and transcriptions end; no timeout has
to expire, nobody has to press a key, and a daemon that died need not come back.

## What is proved

Every theorem holds for all values of the constants that satisfy the named assumptions,
which TLC evaluates in the runs: `Capacity` is at least 1 (`QueueAssumption`), the empty
optional is not an id (`SessionIdAssumption`), ids are positive numbers
(`CounterAssumption`), buffer and chunk sizes are positive and clients send what the protocol
has (`IpcAssumption`, `ClipboardAssumption`), a field has one kind (`FieldAssumption`), no process is the absent
file (`NoFileAssumption`), the kept audio is shorter than a segment (`LiveAssumption`), and
the key binds pass arguments the script accepts and ids begin at 1 (`DictationAssumption`, which also types the bounds, as `DeviceAssumption` does).

* **`SessionManagerProofs`**, in three parts.
  *The queue.* The inductive invariant is `QueueTypeOK /\ Flags`:
  `Flags` ties `busy_` to where the worker is, says that the abort flag is set from
  `ShutdownAbort` on, that nothing is pending once `stopping_` is set, and that the worker
  has left when `shutdown()` has returned. Without it `AbortStands` is not inductive:
  that `RunTake`, which clears the flag, cannot happen after the request follows from
  `stopping_`. `JobsAccounted` is inductive together with it; each action has a lemma that says
  which job it moves from which place to which. From these follow `IdleMeansBackendFree`,
  `ShutdownIsFinal`, `IdleEndsByOwner` and the refinement `QueueImplementsLedger`.
  *The recorder.* `DeviceInv` says that whatever streams, runs or is being
  started is allocated, once; `RecordingInv` adds that a device is open only for a
  recording being started or made and that the buffer holds what this opening delivered.
  Gives `OneDevice`, `AudioIsOwnAndWhole` and `StartFindsDeviceClosed`.
  *The session manager.* `SessionUsesQueueProperly` and `SessionUsesRecorderProperly`:
  every behaviour of the session manager satisfies `QueueSpec` and `RecordingSpec`, so all
  theorems about the two hold under it. The invariant is built in layers, each using the
  ones before. `Ids`: ids not yet handed out, and the id being recorded, were never
  enqueued, and room seen by `start_session()` is still there (`RefusedOnlyAtShutdown`).
  `Views`: what state, active session and recorder say at each point inside a call
  (`CaptureViewsAgree`).
* **`SubscriberProofs`**, two more layers on the session manager's. `Stories`: what was published
  about a session follows from where the session is, with the manager, in the queue or on
  its way back (`PublishedLivesAreLegal`); with `NoneForgotten`: a session without its end is
  in one of those places. `InOrder`: ids rise from the last result published back to the end
  of the queue, and the session being recorded is the latest of all (`ResultsInOrder`). With
  the types of the remaining fields, `Fields`, the layers also give `SessionTypeOK`.
* **`DaemonProofs`**. `DaemonUsesManagerProperly`: every behaviour of the daemon satisfies
  `SessionSpec`. `MainInv` relates main()'s position to the queue, the callback and the
  service (`BackendExclusive`, `RecordingNeverRefused`, `CallbackTargetAlive`). `LoopInv`
  says that inside the loop the worker rings for whatever it stored since the last
  `poll_completed()`, and that the queue stays empty from a tick to the end of a
  recording (`NoLostWakeup`, `PreviewNeverInterrupted`). `ExitInv` follows the way out; with
  `Stories` and `NoneForgotten` it gives `CleanExit`. `DaemonKeepsParts` collects what the
  daemon inherits from its parts: the refinement of the ledger and the safety properties
  the runs check of the queue, the recorder and the session manager. `DaemonTypeOK` follows from the layers.
* **`IpcServerProofs`**. `Routes`: a descriptor stands for one live connection, a round works
  on connected descriptors only, and nothing is being sent where connections come and go.
  `Lines`: what a client not given up on was sent is whole lines, followed by half of the
  line being written, if any. Gives `SubscriptionIsOwn` and `LinesWholeUnlessDoomed`.
  `Pending`: no disconnection is pending while connections are accepted, because a round
  begins with the pending ones; so the descriptor of one that was put off still stands for
  the client whose write failed, or for nobody (`DisconnectionIsOwn`).
* **`IpcStreamProofs`**. `Streams` counts, for each client not given up on and each kind of line:
  the lines of that kind that ended on its connection rise by number, reach up to the latest
  one meant for it, and lack none since it subscribed (events) or connected (answers); the
  latest one may still be on its way, once, in `sending` or `writing`. The property itself only
  speaks of moments when nothing is being sent, so it is not inductive. Gives `NoEventMissed`
  and `AnsweredInOrder`.
* **`LiveProofs`**. `LiveShape` types the transcriber's books: the segment begins within the
  captured audio, the window of a decode ends within it, and the words kept for the next
  comparison are one per unit from the segment on (`LiveTypeOK`, `ShownIsCurrent`; no
  assumption on what is heard). `LiveBook` relates the committed words to the segment:
  everything up to the segment's count is covered, by a committed word or as an `Echo`, and
  nothing beyond it is committed, except that at a boundary the kept word may have been
  committed already, and is then the last of the words carried over. The first tick of the
  segment recognises it if the overlap found is the kept word; a longer overlap can only match
  where the new words repeat earlier ones, so whatever it drops is an `Echo` (`Repeated`,
  `Dropped`). It gives `NeverRepeated` and `CommittedCoversAudio` for any texts and for
  recordings, windows and segments of any length, under two hypotheses stated in the theorems: `Steady`, without which `live_repeat` refutes the first,
  and `Keep = 1`, that the kept audio (200 ms in the code) is one word. With two kept words a
  word may be committed twice even so.
* **`ProcessProofs`**, what outlives a process. *The configuration*: `ConfigInv` adds to the
  properties what they need of an update in progress: it writes a configuration that is
  accepted when read back, the temporary file is whole before it is renamed, and memory is
  assigned last. Gives all three properties of the run. *The socket path*: `Clean`: a process
  inside `copy()` serves and ignores SIGPIPE, and outside it has neither child nor pipe
  (`ChildLeavesNoTrace`). `Follows`: without overlap and with every probe made, at most one
  process is between the `unlink()` of `start()` and that of `stop()`, since another would have
  found its socket alive (`FileFollowsOwner`).
* **`DictationProofs`**. `Exchange`: at most one request per helper is under way. `Marks`: a
  recording without a marker has a helper that will write it or end the recording
  (`RecordingIsMarked`). `Streams`: a helper owns a session from the daemon's handling of its
  stop to its own end, and from then on the end of that session is in its stream
  (`TranscriptReachesWaiter`). `Reports`: the first line on its way to a listener that tells
  how a session ended is right, because such a line is published when the session leaves the
  daemon, once, ids of one daemon do not repeat, and a helper listens to one daemon only, from
  before its stop. Gives the action property `ReportIsOwn`: a helper that ends tells its user
  how its own dictation ended. With `Fields` the four give `DictationTypeOK`.

## What is only model-checked

* Liveness (`EveryJobAnswered`, `SignalStops`, `EveryRecordingAnswered`, `EveryoneServed`,
  `CopyReturns`, `EveryPressEnds`): the prover has no fairness or ENABLED.
* The live transcriber with more than one word of kept audio, and the three runs that
  refute a comment.

## What is not modelled

* The model repository: a scan of a directory and a comparison of file names, without state.
* The logger, and the queries `get_state`, `get_config` and `list_models`: they change nothing.
* JSON and TOML syntax, and what a valid language code or model name looks like: a line or a
  field is good or bad in the ways the code tells apart.
* Loading and unloading of the model, before and after the threads run, and Whisper itself.
* The loss of power: the code does not call `fsync`, so nothing can be said of it.
* Exceptions: memory exhaustion, and `dump()` on a text that is not valid UTF-8.
* Handlers that subscribe or unsubscribe while an event is published, which the program
  does not do. Of events published from inside another, the clipboard's error is modelled
  (`Dictation`).
