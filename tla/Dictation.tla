------------------------------ MODULE Dictation ------------------------------
(***************************************************************************)
(* packaging/hyprland/yoru-dictate against the daemon.  Every key press is *)
(* a process of its own that runs main() of the script once; the processes *)
(* share the marker file, the daemon and nothing else.  A daemon may die   *)
(* and be started again, and any wait on a socket may time out.            *)
(*                                                                         *)
(* The daemon is seen through its socket: the lines handle_line() answers, *)
(* and the events the bridge sends.  It handles one line at a time.  Other *)
(* clients may cancel but do not start or stop recordings.                 *)
(***************************************************************************)
EXTENDS Naturals, Sequences, SessionIds

CONSTANTS Helpers,       \* processes that a key press can start, each again once it ended
          MaxPresses,    \* bound: key presses
          Requests,      \* the arguments the key binds pass
          MaxLives,      \* bound: how often the daemon is started
          QueueRoom      \* capacity of the transcription queue

ASSUME DictationAssumption ==
    /\ Requests \subseteq {"toggle", "start", "stop"}
    /\ Sessions \subseteq Nat \ {0} /\ 1 \in Sessions
    /\ MaxPresses \in Nat /\ MaxLives \in Nat \ {0} /\ QueueRoom \in Nat \ {0}

VARIABLES marker,      \* the file at start_time_path()
          detached,    \* helpers whose open marker file was removed under them
          at,          \* where each helper is
          wire,        \* the command it sent, until it is handled
          reply,       \* the answer, until it is read
          listener,    \* the life of the daemon it subscribed to
          inbox,       \* event lines it has not read yet
          mine,        \* the session its stop_recording queued
          ended,       \* history: how that session ended
          presses,     \* key presses so far (bounds the run)
          life,        \* which daemon this is
          up,          \* it is running
          service,     \* its ServiceState
          active,      \* the session it records
          nextId,      \* next_session_id_
          jobs,        \* sessions whose transcription is queued or under way
          gaveUp       \* history: some 5 s timeout expired

helperVars    == <<marker, detached, at, wire, reply, listener, inbox, mine, ended, gaveUp, presses>>
serviceVars   == <<life, up, service, active, nextId, jobs>>
dictationVars == <<helperVars, serviceVars>>

Lives == 1 .. MaxLives
None  == <<0, NoSession>>

\* Sent: waits for an answer.
Sent  == {"starting", "cancelling", "subscribing", "halting"}
Steps == Sent \cup {"start", "open", "write", "stop", "release", "remove", "drop", "cancel", "subscribe", "halt", "wait"}

Answer(says, s) == [says |-> says, id |-> s]
NoAnswer == Answer("nothing yet", NoSession)
Ack      == Answer("ok", NoSession)
Refusal  == Answer("error", NoSession)
Closed   == Answer("closed", NoSession)      \* the connection ended instead

\* A line of the event stream; Eof stands for the end of the stream.
Lines == [event : {"transcription_queued", "transcription_completed", "error_occurred",
                   "session_cancelled", "eof"}, id : Sessions \cup {NoSession}]
Eof   == [event |-> "eof", id |-> NoSession]
Line(event, s) == [event |-> event, id |-> s]

\* The processes, the file between them and the daemon.
DictationTypeOK ==
    /\ marker \in {"none", "empty", "set"} /\ detached \subseteq Helpers
    /\ at \in [Helpers -> Steps \cup {"off"}]
    /\ wire \in [Helpers -> {"nothing", "start", "stop", "cancel", "subscribe"}]
    /\ reply \in [Helpers -> [says : {"nothing yet", "ok", "error", "closed"}, id : Sessions \cup {NoSession}]]
    /\ listener \in [Helpers -> 0 .. MaxLives]
    /\ inbox \in [Helpers -> Seq(Lines)]
    /\ mine \in [Helpers -> (Lives \X Sessions) \cup {None}]
    /\ ended \in [Helpers -> {"open", "text", "uncopied", "failed", "cancelled"}]
    /\ presses \in 0 .. MaxPresses
    /\ life \in Lives /\ up \in BOOLEAN
    /\ service \in {"Idle", "Recording", "Error"}
    /\ active \in Sessions \cup {NoSession}
    /\ nextId \in Nat
    /\ jobs \in Seq(Sessions)
    /\ gaveUp \in BOOLEAN

\* At rest, perhaps with a recording that an earlier press started.
DictationInit ==
    /\ \/ marker = "none" /\ service = "Idle" /\ active = NoSession /\ nextId = 1
       \/ marker = "set" /\ service = "Recording" /\ active = 1 /\ nextId = 2
    /\ detached = {}
    /\ at = [h \in Helpers |-> "off"]
    /\ wire = [h \in Helpers |-> "nothing"] /\ reply = [h \in Helpers |-> NoAnswer]
    /\ listener = [h \in Helpers |-> 0] /\ inbox = [h \in Helpers |-> <<>>]
    /\ mine = [h \in Helpers |-> None] /\ ended = [h \in Helpers |-> "open"]
    /\ presses = 0
    /\ life = 1 /\ up = TRUE
    /\ jobs = <<>>
    /\ gaveUp = FALSE

-----------------------------------------------------------------------------
(* A helper process *)

\* h goes on to `to`; when it ends, its connections are closed.
Goto(h, from, to) ==
    /\ at[h] = from
    /\ at' = [at EXCEPT ![h] = to]
    /\ IF to = "off"
         THEN /\ reply' = [reply EXCEPT ![h] = NoAnswer]
              /\ listener' = [listener EXCEPT ![h] = 0] /\ inbox' = [inbox EXCEPT ![h] = <<>>]
              /\ mine' = [mine EXCEPT ![h] = None] /\ ended' = [ended EXCEPT ![h] = "open"]
         ELSE UNCHANGED <<reply, listener, inbox, mine, ended>>

\* main(): a toggle looks at the marker once; only a stop is held to MIN_HOLD_SECONDS.
Press(h, r) ==
    /\ wire[h] = "nothing" /\ presses < MaxPresses
    /\ presses' = presses + 1
    /\ Goto(h, "off", CASE r = "stop" -> "release"
                        [] r = "start" \/ marker = "none" -> "start"
                        [] OTHER -> "stop")
    /\ UNCHANGED <<marker, detached, wire, gaveUp, serviceVars>>

\* send() or open_event_listener() up to the answer; without a daemon, connect()
\* fails, main() notifies and the process ends.
Send(h, from, command, to) ==
    /\ IF up THEN Goto(h, from, to) /\ wire' = [wire EXCEPT ![h] = command]
             ELSE Goto(h, from, "off") /\ UNCHANGED wire
    /\ UNCHANGED <<marker, detached, gaveUp, presses, serviceVars>>

\* Fault: the listener is opened once the stop was acknowledged.
SendsStopFirst(h) ==
    \/ Send(h, "start", "start", "starting")
    \/ Send(h, "cancel", "cancel", "cancelling")
    \/ Send(h, "subscribe", "stop", "subscribing")
    \/ Send(h, "halt", "subscribe", "halting")

\* What do_start() and do_stop() send, and from where.
Sends(h) ==
    \/ Send(h, "start", "start", "starting")
    \/ Send(h, "cancel", "cancel", "cancelling")
    \/ Send(h, "subscribe", "subscribe", "subscribing")
    \/ Send(h, "halt", "stop", "halting")

\* Where an "ok" takes it.
AfterAnswer(from) ==
    CASE from = "starting" -> "open" [] from = "subscribing" -> "halt" [] from = "halting" -> "wait"

\* The answer is read; an error, or the end of the connection, ends the process.
\* The listener's first line is the acknowledgement, whatever it says.
Reads(h) ==
    /\ at[h] \in Sent
    /\ reply[h] # NoAnswer
    /\ IF reply[h].says = "ok" /\ at[h] # "cancelling"
         THEN /\ at' = [at EXCEPT ![h] = AfterAnswer(@)]
              /\ reply' = [reply EXCEPT ![h] = NoAnswer]
              /\ UNCHANGED <<listener, inbox, mine, ended>>
         ELSE Goto(h, at[h], "off")
    /\ UNCHANGED <<marker, detached, wire, gaveUp, presses, serviceVars>>

\* do_start(): open() creates or truncates the marker, and close() writes it.
OpenMarker(h) ==
    /\ Goto(h, "open", "write")
    /\ marker' = "empty"
    /\ UNCHANGED <<detached, wire, gaveUp, presses, serviceVars>>

WriteMarker(h) ==
    /\ Goto(h, "write", "off")
    /\ marker' = IF h \in detached THEN marker ELSE "set"
    /\ detached' = detached \ {h}
    /\ UNCHANGED <<wire, gaveUp, presses, serviceVars>>

\* do_stop(): a missing marker cannot be read and an empty one not be parsed;
\* both are ignored, and the file is left.  Whether the hold was too short is up
\* to the clock.
ReadMarker(h) ==
    /\ at[h] \in {"stop", "release"}
    /\ \E to \in IF marker # "set" THEN {"subscribe"}
                 ELSE IF at[h] = "stop" THEN {"remove"} ELSE {"remove", "drop"} :
          Goto(h, at[h], to)
    /\ UNCHANGED <<marker, detached, wire, gaveUp, presses, serviceVars>>

\* Fault: a hold that was too short is dropped without a word to the daemon.
RemoveMarkerOnly(h) ==
    /\ Goto(h, "remove", "subscribe") \/ Goto(h, "drop", "off")
    /\ marker' = "none"
    /\ detached' = detached \cup {g \in Helpers : at[g] = "write"}
    /\ UNCHANGED <<wire, gaveUp, presses, serviceVars>>

\* Whatever file is at the path by now.
RemoveMarker(h) ==
    /\ Goto(h, "remove", "subscribe") \/ Goto(h, "drop", "cancel")
    /\ marker' = "none"
    /\ detached' = detached \cup {g \in Helpers : at[g] = "write"}
    /\ UNCHANGED <<wire, gaveUp, presses, serviceVars>>

\* Fault: the end of the session is not recognised when it was cancelled.
OutcomeUncancelled(line) ==
    CASE line.event = "transcription_completed" -> "text"
      [] line.event = "error_occurred" -> "error"
      [] OTHER -> "nothing"

\* What wait_for_transcript() makes of an event of its own session.
Outcome(line) ==
    CASE line.event = "transcription_completed" -> "text"
      [] line.event = "error_occurred" -> "error"
      [] line.event = "session_cancelled" -> "cancelled"
      [] OTHER -> "nothing"

\* wait_for_transcript(): one line of the stream; the end of it, or the outcome of
\* the helper's own session, ends the process.
ReadEvent(h) ==
    /\ at[h] = "wait"
    /\ inbox[h] # <<>>
    /\ LET line == Head(inbox[h])
       IN  IF line = Eof \/ (line.id = mine[h][2] /\ Outcome(line) # "nothing")
             THEN Goto(h, "wait", "off")
             ELSE inbox' = [inbox EXCEPT ![h] = Tail(@)] /\ UNCHANGED <<at, reply, listener, mine, ended>>
    /\ UNCHANGED <<marker, detached, wire, gaveUp, presses, serviceVars>>

\* A connect() or an answer takes 5 s, or the transcript 300 s: the process ends,
\* and what it sent is still handled.
TimesOut(h) ==
    /\ at[h] \in Sent \cup {"start", "cancel", "subscribe", "halt", "wait"}
    /\ Goto(h, at[h], "off")
    /\ gaveUp' = (gaveUp \/ at[h] # "wait")
    /\ UNCHANGED <<marker, detached, wire, presses, serviceVars>>

Helper(h) ==
    \/ \E r \in Requests : Press(h, r)
    \/ Sends(h) \/ Reads(h)
    \/ OpenMarker(h) \/ WriteMarker(h) \/ ReadMarker(h) \/ RemoveMarker(h)
    \/ ReadEvent(h)

-----------------------------------------------------------------------------
(* The daemon *)

Handled(h, answer) ==
    /\ wire' = [wire EXCEPT ![h] = "nothing"]
    /\ reply' = [reply EXCEPT ![h] = IF at[h] = "off" THEN NoAnswer ELSE answer]

\* EventBridge::broadcast(), to the clients that are still there.
Broadcast(lines) ==
    inbox' = [g \in Helpers |-> IF listener[g] = life THEN inbox[g] \o lines ELSE inbox[g]]

\* Session s has ended; whoever stopped it is owed that.
Concludes(s, end) == ended' = [g \in Helpers |-> IF mine[g] = <<life, s>> THEN end ELSE ended[g]]

\* start_session().  The job that is being transcribed and the results that were not
\* published yet take no room in the queue, so it may have room whatever `jobs` holds.
\* A device that cannot be opened costs an id (of which the last one is kept here).
HandleStart(h) ==
    /\ up /\ wire[h] = "start"
    /\ \/ /\ service = "Idle" /\ nextId \in Sessions
          /\ service' = "Recording" /\ active' = nextId /\ nextId' = nextId + 1
          /\ Handled(h, Ack)
          /\ UNCHANGED inbox
       \/ /\ service = "Idle"
          /\ \/ Len(jobs) >= QueueRoom /\ UNCHANGED nextId
             \/ nextId' = IF nextId \in Sessions THEN nextId + 1 ELSE nextId
          /\ Broadcast(<<Line("error_occurred", NoSession)>>)
          /\ Handled(h, Refusal)
          /\ UNCHANGED <<service, active>>
       \/ /\ service # "Idle"
          /\ Handled(h, Refusal)
          /\ UNCHANGED <<service, active, nextId, inbox>>
    /\ UNCHANGED <<marker, detached, at, listener, mine, ended, gaveUp, presses, life, up, jobs>>

\* stop_session() of a recording: it is queued, or the device had been lost.
HandleStop(h) ==
    /\ up /\ wire[h] = "stop"
    /\ service = "Recording"
    /\ \/ /\ jobs' = Append(jobs, active)
          /\ Broadcast(<<Line("transcription_queued", active)>>)
          /\ Handled(h, Answer("ok", active))
          /\ mine' = [mine EXCEPT ![h] = IF at[h] = "off" THEN None ELSE <<life, active>>]
          /\ service' = "Idle" /\ active' = NoSession
       \/ /\ service' = "Error"
          /\ Broadcast(<<Line("error_occurred", active)>>)
          /\ Handled(h, Refusal)
          /\ UNCHANGED <<jobs, active, mine>>
    /\ UNCHANGED <<marker, detached, at, listener, ended, gaveUp, presses, life, up, nextId>>

\* Otherwise it is refused.
HandleStopRefused(h) ==
    /\ up /\ wire[h] = "stop"
    /\ service # "Recording"
    /\ Handled(h, Refusal)
    /\ UNCHANGED <<marker, detached, at, listener, inbox, mine, ended, gaveUp, presses, serviceVars>>

\* cancel_session() of a recording, or of the failure that ended one.
CancelSession ==
    /\ service # "Idle"
    /\ Broadcast(<<Line("session_cancelled", active)>>)
    /\ service' = "Idle" /\ active' = NoSession
    /\ UNCHANGED <<life, up, nextId, jobs>>

HandleCancel(h) ==
    /\ up /\ wire[h] = "cancel"
    /\ \/ CancelSession /\ Handled(h, Ack)
       \/ service = "Idle" /\ Handled(h, Refusal) /\ UNCHANGED <<inbox, serviceVars>>
    /\ UNCHANGED <<marker, detached, at, listener, mine, ended, gaveUp, presses>>

HandleSubscribe(h) ==
    /\ up /\ wire[h] = "subscribe"
    /\ listener' = [listener EXCEPT ![h] = IF at[h] = "off" THEN 0 ELSE life]
    /\ Handled(h, Ack)
    /\ UNCHANGED <<marker, detached, at, inbox, mine, ended, gaveUp, presses, serviceVars>>

\* Fault: the bridge hears of a transcript before the clipboard does.
CompletedBridgeFirst(s, copied) ==
    IF copied THEN <<Line("transcription_completed", s)>>
    ELSE <<Line("transcription_completed", s), Line("error_occurred", s)>>

\* The lines that one TranscriptionCompleted sends: AutoClipboard subscribed to it
\* before the bridge did, and publishes its own failure at once.
Completed(s, copied) ==
    IF copied THEN <<Line("transcription_completed", s)>>
    ELSE <<Line("error_occurred", s), Line("transcription_completed", s)>>

\* poll_completed() publishes the result of the oldest job.
Finish(end) ==
    /\ up /\ jobs # <<>>
    /\ jobs' = Tail(jobs)
    /\ Concludes(Head(jobs), end)
    /\ Broadcast(IF end = "failed" THEN <<Line("error_occurred", Head(jobs))>>
                                   ELSE Completed(Head(jobs), end = "text"))
    /\ UNCHANGED <<marker, detached, at, wire, reply, listener, mine, gaveUp, presses,
                   life, up, service, active, nextId>>

\* Another client sends cancel_session, or cancel_job for a job.
ClientCancels ==
    /\ up
    /\ \/ CancelSession /\ UNCHANGED ended
       \/ \E i \in DOMAIN jobs :
             /\ jobs' = SubSeq(jobs, 1, i - 1) \o SubSeq(jobs, i + 1, Len(jobs))
             /\ Concludes(jobs[i], "cancelled")
             /\ Broadcast(<<Line("session_cancelled", jobs[i])>>)
             /\ UNCHANGED <<life, up, service, active, nextId>>
    /\ UNCHANGED <<marker, detached, at, wire, reply, listener, mine, gaveUp, presses>>

\* The process ends.  An orderly end has cancelled the recording and reported every
\* job as dropped; what did not leave the outboxes of the clients outside `flushed`
\* is lost, and all of them see the connection close.
Exit(orderly, flushed) ==
    LET dropped == [i \in DOMAIN jobs |-> Line("error_occurred", jobs[i])]
        last == IF ~orderly THEN <<>>
                ELSE (IF service = "Idle" THEN <<>> ELSE <<Line("session_cancelled", active)>>) \o dropped
    IN  /\ up
        /\ up' = FALSE
        /\ inbox' = [g \in Helpers |->
                       IF listener[g] # life THEN inbox[g]
                       ELSE IF g \in flushed THEN inbox[g] \o Append(last, Eof) ELSE <<Eof>>]
        /\ wire' = [g \in Helpers |-> "nothing"]
        /\ reply' = [g \in Helpers |->
                       IF at[g] # "off" /\ (wire[g] # "nothing" \/ (reply[g] # NoAnswer /\ g \notin flushed))
                         THEN Closed ELSE reply[g]]
        /\ ended' = [g \in Helpers |->
                       IF mine[g][1] = life /\ ended[g] = "open" THEN "failed" ELSE ended[g]]
        /\ service' = "Idle" /\ active' = NoSession /\ jobs' = <<>> /\ nextId' = 1
        /\ UNCHANGED <<marker, detached, at, listener, mine, gaveUp, presses, life>>

Start ==
    /\ ~up /\ life < MaxLives
    /\ up' = TRUE
    /\ life' = life + 1
    /\ UNCHANGED <<helperVars, service, active, nextId, jobs>>

Handle(h) == HandleStart(h) \/ HandleStop(h) \/ HandleStopRefused(h) \/ HandleCancel(h) \/ HandleSubscribe(h)
Transcribe == \E end \in {"text", "uncopied", "failed"} : Finish(end)

Quiet == (\A h \in Helpers : at[h] = "off") /\ presses = MaxPresses /\ UNCHANGED dictationVars

DictationNext ==
    \/ \E h \in Helpers : Helper(h) \/ Handle(h) \/ TimesOut(h)
    \/ Transcribe \/ ClientCancels \/ Start
    \/ \E orderly \in BOOLEAN, flushed \in SUBSET Helpers : Exit(orderly, flushed)
    \/ Quiet

\* The processes run, the daemon handles what it received and its transcriptions
\* end, as do its copies to the clipboard.  Nobody has to press a key, and no
\* timeout has to expire.
DictationSpec ==
    /\ DictationInit /\ [][DictationNext]_dictationVars
    /\ \A h \in Helpers : WF_dictationVars(Helper(h) /\ at[h] # "off") /\ WF_dictationVars(Handle(h))
    /\ WF_dictationVars(Transcribe)

-----------------------------------------------------------------------------
(* Properties *)

\* Some line of the stream will make h stop waiting.
Ends(h) == \E i \in DOMAIN inbox[h] :
              inbox[h][i] = Eof \/ (inbox[h][i].id = mine[h][2] /\ Outcome(inbox[h][i]) # "nothing")

\* The event a stop waits for cannot be missed (the docstring): from the moment its
\* session is queued, a session that has ended left its outcome in the stream of the
\* helper that stopped it, however early the transcript was ready and whichever
\* helpers stop other sessions meanwhile; a daemon that died left the end of the
\* stream there.
TranscriptReachesWaiter ==
    \A h \in Helpers :
        /\ at[h] = "wait" \/ (at[h] = "halting" /\ reply[h].says = "ok")
        /\ listener[h] = mine[h][1] /\ ended[h] # "open"
        => Ends(h)

\* A helper notifies the end of its own session, and never the text as if all were
\* well when the copy to the clipboard failed; unless the daemon was replaced
\* between its listener and its stop, where ids begin again.
ReportIsOwn ==
    [][\A h \in Helpers :
          ReadEvent(h) /\ at'[h] = "off" /\ listener[h] = mine[h][1] =>
              LET says == Outcome(Head(inbox[h]))
              IN  /\ says = "text" => ended[h] = "text"
                  /\ says = "error" => ended[h] \in {"failed", "uncopied"}
                  /\ says = "cancelled" => ended[h] = "cancelled"]_dictationVars

\* Nobody is at work on a recording.
AtRest == \A h \in Helpers : at[h] \in {"off", "wait"} /\ wire[h] = "nothing"

\* A toggle can always stop what a key started: at rest, a recording has its
\* marker, however the presses overlapped and whenever the daemon died; as long
\* as no 5 s timeout cut a helper short.
RecordingIsMarked == AtRest /\ ~gaveUp /\ service = "Recording" => marker = "set"

\* Every key press ends without any timeout: a stop's wait too, whoever cancels
\* its job and whenever the daemon dies.
EveryPressEnds == \A h \in Helpers : at[h] # "off" ~> at[h] = "off"
=============================================================================
