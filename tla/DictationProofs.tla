--------------------------- MODULE DictationProofs ---------------------------
(***************************************************************************)
(* Proofs about the dictation helpers, for any number of processes, key    *)
(* presses, daemons and sessions: a recording keeps its marker, a stop     *)
(* cannot miss the end of its session, and what a helper tells its user    *)
(* about a dictation is how that dictation ended.                          *)
(***************************************************************************)
EXTENDS Dictation, SequenceTheorems, TLAPS

Commands == {"start", "stop", "cancel", "subscribe"}
Replies  == [says : {"nothing yet", "ok", "error", "closed"}, id : Sessions \cup {NoSession}]

\* Where a helper waits for the answer to a command.
Waits(command) ==
    CASE command = "start" -> "starting" [] command = "cancel" -> "cancelling"
      [] command = "subscribe" -> "subscribing" [] OTHER -> "halting"

\* At most one exchange is under way per helper, which waits for its end unless a
\* timeout sent it home; and a daemon that is down holds no state.
Exchange ==
    /\ at \in [Helpers -> Steps \cup {"off"}]
    /\ wire \in [Helpers -> Commands \cup {"nothing"}]
    /\ reply \in [Helpers -> Replies]
    /\ active \in Sessions \cup {NoSession}
    /\ up \in BOOLEAN /\ gaveUp \in BOOLEAN
    /\ ~up => service = "Idle"
    /\ service = "Recording" => active \in Sessions
    /\ \A h \in Helpers :
          /\ wire[h] # "nothing" => /\ reply[h] = NoAnswer
                                    /\ at[h] = Waits(wire[h]) \/ (at[h] = "off" /\ gaveUp)
          /\ at[h] \notin Sent => reply[h] = NoAnswer

\* h is going to stop or cancel whatever the daemon records.
Stopper(h) ==
    \/ at[h] \in {"cancel", "subscribe", "halt"}
    \/ at[h] = "subscribing" /\ (wire[h] = "subscribe" \/ reply[h].says = "ok")
    \/ wire[h] \in {"stop", "cancel"}

\* h is going to write the marker of a recording.
Starter(h) == at[h] = "open" \/ (at[h] = "starting" /\ reply[h].says = "ok")

\* RecordingIsMarked, at work as well as at rest: a recording without a marker has a
\* helper that will write it or that will end the recording.
Marks ==
    /\ marker \in {"none", "empty", "set"}
    /\ \A h \in detached : at[h] = "write"
    /\ marker = "empty" => \E h \in Helpers : at[h] = "write" /\ h \notin detached
    /\ ~gaveUp /\ service = "Recording" /\ marker = "none" => \E h \in Helpers : Starter(h) \/ Stopper(h)

-----------------------------------------------------------------------------
(* One exchange per helper *)

\* The answers a request may get, and what tells them apart.
LEMMA Answers ==
    /\ {NoAnswer, Ack, Refusal, Closed} \subseteq Replies
    /\ \A s \in Sessions \cup {NoSession} : Answer("ok", s) \in Replies
    /\ \A s : Answer("ok", s) # NoAnswer /\ Answer("ok", s).says = "ok"
    /\ Ack # NoAnswer /\ Ack.says = "ok"
    /\ Refusal # NoAnswer /\ Refusal.says = "error"
    /\ Closed # NoAnswer /\ Closed.says = "closed"
    /\ NoAnswer.says = "nothing yet"
<1>1. \A s \in Sessions \cup {NoSession} : Answer("ok", s) \in Replies
    BY Zenon DEF Answer, Replies
<1>2. \A s : /\ Answer("ok", s).says = "ok" /\ Answer("error", s).says = "error"
             /\ Answer("closed", s).says = "closed" /\ Answer("nothing yet", s).says = "nothing yet"
    BY Zenon DEF Answer
<1>3. \A s, t : /\ Answer("ok", s) # Answer("nothing yet", t) /\ Answer("error", s) # Answer("nothing yet", t)
                /\ Answer("closed", s) # Answer("nothing yet", t)
    BY Zenon DEF Answer
<1>4. {NoAnswer, Ack, Refusal, Closed} \subseteq Replies
    <2>1. NoAnswer \in Replies
        BY Zenon DEF NoAnswer, Answer, Replies
    <2>2. Ack \in Replies
        BY Zenon DEF Ack, Answer, Replies
    <2>3. Refusal \in Replies
        BY Zenon DEF Refusal, Answer, Replies
    <2>4. Closed \in Replies
        BY Zenon DEF Closed, Answer, Replies
    <2>5. QED
        BY <2>1, <2>2, <2>3, <2>4, Zenon
<1>5. QED
    BY <1>1, <1>2, <1>3, <1>4, Zenon DEF NoAnswer, Ack, Refusal, Closed

\* With no helper running there is no exchange to speak of.
LEMMA ExchangeStart == DictationInit => Exchange
<1> SUFFICES ASSUME DictationInit PROVE Exchange
    BY Zenon
<1>1. active \in Sessions \cup {NoSession} /\ (service = "Recording" => active \in Sessions)
    BY DictationAssumption, Zenon DEF DictationInit, DictationAssumption
<1>2. QED
    BY <1>1, Answers, Zenon DEF DictationInit, Exchange, Steps

\* What a step of h's own does to its exchange: it goes to `to`, where it expects no
\* answer or has just sent a command.
Moves(h, to) ==
    /\ to \in Steps \cup {"off"}
    /\ at' = [at EXCEPT ![h] = to]
    /\ \/ reply' = reply /\ (to \notin Sent => reply[h] = NoAnswer)
       \/ reply' = [reply EXCEPT ![h] = NoAnswer]
    /\ \/ wire' = wire /\ (wire[h] = "nothing" \/ (to = "off" /\ gaveUp'))
       \/ \E c \in Commands : wire' = [wire EXCEPT ![h] = c] /\ to = Waits(c) /\ reply[h] = NoAnswer
    /\ gaveUp' \in BOOLEAN /\ (gaveUp => gaveUp')
    /\ UNCHANGED <<active, up, service>>

\* A helper that only moves on in the script keeps Exchange.
LEMMA MovesExchange ==
    ASSUME Exchange, NEW h \in Helpers, NEW to, Moves(h, to)
    PROVE  Exchange'
<1> USE DEF Exchange, Moves
<1>1. at' \in [Helpers -> Steps \cup {"off"}]
    BY Zenon
<1>2. wire' \in [Helpers -> Commands \cup {"nothing"}]
    BY Zenon
<1>3. reply' \in [Helpers -> Replies]
    BY Answers, Zenon
<1>4. ASSUME NEW g \in Helpers
      PROVE  /\ wire'[g] # "nothing" => /\ reply'[g] = NoAnswer
                                        /\ at'[g] = Waits(wire'[g]) \/ (at'[g] = "off" /\ gaveUp')
             /\ at'[g] \notin Sent => reply'[g] = NoAnswer
    <2>1. CASE g # h
        BY <2>1, Zenon
    <2>2. CASE g = h
        BY <2>2, Zenon DEF Commands
    <2>3. QED
        BY <2>1, <2>2, Zenon
<1>5. QED
    BY <1>1, <1>2, <1>3, <1>4, Zenon

\* What going on in the script does to the helper's own exchange.
LEMMA GotoMoves ==
    ASSUME Exchange, NEW h \in Helpers, NEW from, NEW to, Goto(h, from, to), from \notin Sent \/ to = "off"
    PROVE  /\ at[h] = from
           /\ at' = [at EXCEPT ![h] = to]
           /\ \/ reply' = reply /\ reply[h] = NoAnswer
              \/ reply' = [reply EXCEPT ![h] = NoAnswer]
           /\ from \notin Sent \cup {"off"} => wire[h] = "nothing"
<1>1. from \notin Sent \cup {"off"} => wire[h] = "nothing"
    BY Zenon DEF Goto, Exchange, Waits, Sent, Commands
<1>2. QED
    BY <1>1, Zenon DEF Goto, Exchange

\* send() reaches a daemon that is up, and ends the helper otherwise.
LEMMA SendMoves ==
    ASSUME Exchange, NEW h \in Helpers, NEW from \in Steps \ Sent, NEW c \in Commands, Send(h, from, c, Waits(c))
    PROVE  \/ up /\ wire' = [wire EXCEPT ![h] = c] /\ Moves(h, Waits(c))
           \/ ~up /\ wire' = wire /\ Moves(h, "off")
<1>1. /\ Waits(c) \in Sent /\ Waits(c) \in Steps /\ from # "off" /\ Waits(c) # "off"
    BY Zenon DEF Waits, Sent, Steps
<1>2. /\ reply[h] = NoAnswer \/ at[h] # from
      /\ gaveUp \in BOOLEAN
    BY Zenon DEF Exchange
<1>3. CASE up
    <2>1. Goto(h, from, Waits(c)) /\ wire' = [wire EXCEPT ![h] = c] /\ UNCHANGED <<gaveUp, active, up, service>>
        BY <1>3, Zenon DEF Send, serviceVars
    <2>2. QED
        BY <1>1, <1>2, <1>3, <2>1, Zenon DEF Goto, Moves
<1>4. CASE ~up
    <2>1. Goto(h, from, "off") /\ wire' = wire /\ UNCHANGED <<gaveUp, active, up, service>>
        BY <1>4, Zenon DEF Send, serviceVars
    <2>2. QED
        BY <1>1, <1>2, <1>4, <2>1, GotoMoves, Zenon DEF Moves
<1>5. QED
    BY <1>3, <1>4, Zenon DEF Exchange

\* A helper's own steps.
LEMMA HelperMoves ==
    ASSUME Exchange, NEW h \in Helpers, Helper(h) \/ TimesOut(h)
    PROVE  \E to : Moves(h, to)
<1>0. gaveUp \in BOOLEAN
    BY Zenon DEF Exchange
<1>1. ASSUME NEW r \in Requests, Press(h, r) PROVE \E to : Moves(h, to)
    <2>1. PICK to \in {"release", "start", "stop"} : Goto(h, "off", to)
        BY <1>1, Zenon DEF Press
    <2>2. Moves(h, to)
        BY <1>0, <1>1, <2>1, GotoMoves DEF Press, Moves, Steps, Sent, serviceVars
    <2>3. QED
        BY <2>2, Zenon
<1>2. CASE Sends(h)
    <2>1. \E from \in Steps \ Sent, c \in Commands : Send(h, from, c, Waits(c))
        BY <1>2 DEF Sends, Steps, Sent, Commands, Waits
    <2>2. QED
        BY <2>1, SendMoves, Zenon
<1>3. CASE Reads(h)
    <2>1. /\ wire' = wire /\ wire[h] = "nothing" /\ UNCHANGED <<gaveUp, active, up, service>>
          /\ at \in [Helpers -> Steps \cup {"off"}] /\ at[h] \in Sent
        BY <1>3, Zenon DEF Reads, serviceVars, Exchange
    <2>2. CASE reply[h].says = "ok" /\ at[h] # "cancelling"
        <3>1. at' = [at EXCEPT ![h] = AfterAnswer(at[h])] /\ reply' = [reply EXCEPT ![h] = NoAnswer]
            BY <1>3, <2>2, Zenon DEF Reads
        <3>2. AfterAnswer(at[h]) \in Steps
            BY <2>1, <2>2, Zenon DEF AfterAnswer, Sent, Steps
        <3>3. QED
            BY <1>0, <2>1, <3>1, <3>2, Zenon DEF Moves
    <2>3. CASE ~(reply[h].says = "ok" /\ at[h] # "cancelling")
        BY <1>0, <1>3, <2>1, <2>3, GotoMoves DEF Reads, Moves
    <2>4. QED
        BY <2>2, <2>3, Zenon
<1>4. CASE OpenMarker(h) \/ WriteMarker(h) \/ ReadMarker(h) \/ RemoveMarker(h)
    <2>1. \E from \in {"open", "write", "stop", "release", "remove", "drop"},
             to \in {"write", "off", "subscribe", "remove", "drop", "cancel"} : Goto(h, from, to)
        BY <1>4, Zenon DEF OpenMarker, WriteMarker, ReadMarker, RemoveMarker
    <2>2. wire' = wire /\ UNCHANGED <<gaveUp, active, up, service>>
        BY <1>4, Zenon DEF OpenMarker, WriteMarker, ReadMarker, RemoveMarker, serviceVars
    <2>3. QED
        BY <1>0, <2>1, <2>2, GotoMoves DEF Moves, Steps, Sent
<1>5. CASE ReadEvent(h)
    <2>1. /\ at[h] = "wait" /\ wire' = wire /\ UNCHANGED <<gaveUp, active, up, service>>
          /\ Goto(h, "wait", "off") \/ UNCHANGED <<at, reply>>
        BY <1>5, Zenon DEF ReadEvent, serviceVars
    <2>2. at \in [Helpers -> Steps \cup {"off"}] /\ wire[h] = "nothing" /\ reply[h] = NoAnswer
        BY <2>1, Zenon DEF Exchange, Waits, Sent, Commands
    <2>3. CASE Goto(h, "wait", "off")
        BY <1>0, <2>1, <2>2, <2>3, GotoMoves, Zenon DEF Moves
    <2>4. CASE UNCHANGED <<at, reply>>
        BY <1>0, <2>1, <2>2, <2>4, Zenon DEF Moves, Steps
    <2>5. QED
        BY <2>1, <2>3, <2>4, Zenon
<1>6. CASE TimesOut(h)
    <2>1. /\ Goto(h, at[h], "off") /\ wire' = wire /\ UNCHANGED <<active, up, service>>
          /\ gaveUp' = (gaveUp \/ at[h] # "wait") /\ at[h] # "off"
        BY <1>6, Zenon DEF TimesOut, serviceVars, Sent
    <2>2. gaveUp' \in BOOLEAN /\ (gaveUp => gaveUp') /\ (gaveUp' \/ at[h] = "wait")
        BY <1>0, <2>1, Zenon
    <2>3. QED
        BY <2>1, <2>2, GotoMoves, Zenon DEF Moves, Sent
<1>7. QED
    BY <1>1, <1>2, <1>3, <1>4, <1>5, <1>6, Zenon DEF Helper

\* The daemon's steps.
LEMMA DaemonExchange ==
    ASSUME Exchange,
           \/ \E h \in Helpers : Handle(h)
           \/ Transcribe \/ ClientCancels \/ Start
           \/ \E orderly \in BOOLEAN, flushed \in SUBSET Helpers : Exit(orderly, flushed)
           \/ UNCHANGED dictationVars
    PROVE  Exchange'
<1> USE DEF Exchange
<1>1. ASSUME NEW h \in Helpers, Handle(h) PROVE Exchange'
    <2>1. \E answer \in Replies : Handled(h, answer)
        BY <1>1, Answers, ZenonT(30) DEF Handle, HandleStart, HandleStop, HandleStopRefused, HandleCancel, HandleSubscribe
    <2>2. /\ UNCHANGED <<at, gaveUp, up>> /\ up /\ wire[h] # "nothing"
          /\ active' \in Sessions \cup {NoSession} /\ (service' = "Recording" => active' \in Sessions)
        BY <1>1, Zenon DEF Handle, HandleStart, HandleStop, HandleStopRefused, HandleCancel, HandleSubscribe,
                    CancelSession, serviceVars
    <2>3. at[h] \in Sent \cup {"off"}
        BY <2>2, Zenon DEF Waits, Sent
    <2>4. /\ wire' \in [Helpers -> Commands \cup {"nothing"}] /\ reply' \in [Helpers -> Replies]
          /\ wire'[h] = "nothing" /\ (at[h] = "off" => reply'[h] = NoAnswer)
          /\ \A g \in Helpers \ {h} : wire'[g] = wire[g] /\ reply'[g] = reply[g]
        BY <2>1, Answers, Zenon DEF Handled
    <2>5. ASSUME NEW g \in Helpers
          PROVE  /\ wire'[g] # "nothing" => /\ reply'[g] = NoAnswer
                                            /\ at'[g] = Waits(wire'[g]) \/ (at'[g] = "off" /\ gaveUp')
                 /\ at'[g] \notin Sent => reply'[g] = NoAnswer
        BY <2>2, <2>3, <2>4, Zenon
    <2>6. QED
        BY <2>2, <2>4, <2>5, Zenon
<1>2. CASE Transcribe \/ ClientCancels
    BY <1>2, Zenon DEF Transcribe, Finish, ClientCancels, CancelSession
<1>3. CASE Start \/ UNCHANGED dictationVars
    BY <1>3, Zenon DEF Start, helperVars, dictationVars, serviceVars
<1>4. ASSUME NEW orderly \in BOOLEAN, NEW flushed \in SUBSET Helpers, Exit(orderly, flushed) PROVE Exchange'
    <2>1. \A g \in Helpers : wire[g] # "nothing" /\ at[g] # "off" => at[g] \in Sent
        BY Zenon DEF Waits, Sent
    <2>2. /\ UNCHANGED <<at, gaveUp>> /\ up' = FALSE /\ service' = "Idle" /\ active' = NoSession
          /\ wire' = [g \in Helpers |-> "nothing"]
          /\ reply' = [g \in Helpers |->
                       IF at[g] # "off" /\ (wire[g] # "nothing" \/ (reply[g] # NoAnswer /\ g \notin flushed))
                         THEN Closed ELSE reply[g]]
        BY <1>4, Zenon DEF Exit
    <2>3. QED
        BY <2>1, <2>2, Answers, Zenon
<1>5. QED
    BY <1>1, <1>2, <1>3, <1>4, Zenon

\* Every step of helpers and daemon keeps one request or one answer per helper.
LEMMA ExchangeStep == Exchange /\ [DictationNext]_dictationVars => Exchange'
BY HelperMoves, MovesExchange, DaemonExchange, Zenon DEF DictationNext, Quiet

-----------------------------------------------------------------------------
(* The marker *)

\* Nothing is recorded in the initial state.
LEMMA MarksStart == DictationInit => Marks
BY Zenon DEF DictationInit, Marks

\* Steps that leave the marker alone, and after which h still does what it was
\* going to do.
LEMMA KeepsMarks ==
    ASSUME Exchange, Marks, NEW h \in Helpers, NEW to, at' = [at EXCEPT ![h] = to],
           UNCHANGED <<marker, detached, service>>,
           gaveUp => gaveUp',
           \A g \in Helpers \ {h} : wire'[g] = wire[g] /\ reply'[g] = reply[g],
           at[h] # "write",
           ~gaveUp' /\ service = "Recording" => (Starter(h) \/ Stopper(h) => (Starter(h) \/ Stopper(h))')
    PROVE  Marks'
<1>1. at \in [Helpers -> Steps \cup {"off"}]
    BY Zenon DEF Exchange
<1>2. \A g \in Helpers \ {h} : at'[g] = at[g]
    BY <1>1, Zenon
<1>3. \A g \in detached : at'[g] = "write"
    BY <1>1 DEF Marks
<1>4. marker' = "empty" => \E g \in Helpers : at'[g] = "write" /\ g \notin detached'
    BY <1>2, Zenon DEF Marks
<1>5. ASSUME ~gaveUp', service' = "Recording", marker' = "none"
      PROVE  \E g \in Helpers : (Starter(g) \/ Stopper(g))'
    <2>1. ~gaveUp
        BY <1>5, Zenon
    <2>2. PICK g \in Helpers : Starter(g) \/ Stopper(g)
        BY <1>5, <2>1, Zenon DEF Marks
    <2>3. CASE g = h
        BY <1>5, <2>2, <2>3, Zenon
    <2>4. CASE g # h
        BY <1>2, <2>2, <2>4, Zenon DEF Starter, Stopper
    <2>5. QED
        BY <2>3, <2>4, Zenon
<1>6. QED
    BY <1>3, <1>4, <1>5, Zenon DEF Marks

\* The helper's own steps: do_start() writes the marker after the answer, do_stop()
\* removes it after the listener is open and before stop_recording is sent.
LEMMA HelperMarks ==
    ASSUME Exchange, Marks, NEW h \in Helpers, Helper(h) \/ TimesOut(h)
    PROVE  Marks'
<1>0. /\ at \in [Helpers -> Steps \cup {"off"}] /\ wire \in [Helpers -> Commands \cup {"nothing"}]
      /\ reply \in [Helpers -> Replies]
    BY Zenon DEF Exchange
<1>1. ASSUME NEW r \in Requests, Press(h, r) PROVE Marks'
    BY <1>1 DEF Press, Exchange, Marks, Goto, serviceVars, Starter, Stopper
<1>2. CASE Sends(h)
    <2>1. PICK from \in {"start", "cancel", "subscribe", "halt"}, c \in Commands :
             Send(h, from, c, Waits(c)) /\ (from = "subscribe" => c = "subscribe") /\ (from = "halt" => c = "stop")
               /\ (from = "cancel" => c = "cancel") /\ (from = "start" => c = "start")
        BY <1>2, Zenon DEF Sends, Waits, Commands
    <2>2. /\ at[h] = from /\ UNCHANGED <<marker, detached, service, gaveUp>>
          /\ ~up => service = "Idle"
          /\ from \in Steps \ Sent
        BY <2>1, Zenon DEF Send, Goto, serviceVars, Exchange, Steps, Sent
    <2>3. CASE up /\ wire' = [wire EXCEPT ![h] = c] /\ Moves(h, Waits(c))
        <3>1. Starter(h) \/ Stopper(h) => (Starter(h) \/ Stopper(h))'
            BY <1>0, <2>1, <2>2, <2>3, Zenon DEF Starter, Stopper, Moves, Waits, Exchange
        <3>2. QED
            BY <1>0, <2>2, <2>3, <3>1, KeepsMarks, Zenon DEF Moves
    <2>4. CASE ~up /\ wire' = wire /\ Moves(h, "off")
        BY <1>0, <2>2, <2>4, KeepsMarks, Zenon DEF Moves
    <2>5. QED
        BY <2>1, <2>2, <2>3, <2>4, SendMoves, Zenon
<1>3. CASE Reads(h)
    <2>1. /\ UNCHANGED <<marker, detached, service, gaveUp, wire>> /\ at[h] \in Sent /\ wire[h] = "nothing"
        BY <1>3, Zenon DEF Reads, serviceVars, Exchange
    <2>2. CASE reply[h].says = "ok" /\ at[h] # "cancelling"
        <3>1. at' = [at EXCEPT ![h] = AfterAnswer(at[h])] /\ reply' = [reply EXCEPT ![h] = NoAnswer]
            BY <1>3, <2>2, Zenon DEF Reads
        <3>2. Starter(h) \/ Stopper(h) => (Starter(h) \/ Stopper(h))'
            BY <1>0, <2>1, <2>2, <3>1, Zenon DEF Starter, Stopper, AfterAnswer, Sent
        <3>3. QED
            BY <1>0, <2>1, <3>1, <3>2, KeepsMarks, Zenon DEF Sent
    <2>3. CASE ~(reply[h].says = "ok" /\ at[h] # "cancelling")
        <3>1. at' = [at EXCEPT ![h] = "off"] /\ reply' = [reply EXCEPT ![h] = NoAnswer]
            BY <1>3, <2>3, Zenon DEF Reads, Goto
        <3>2. ~Starter(h) /\ ~Stopper(h)
            BY <2>1, <2>3, Zenon DEF Starter, Stopper, Sent
        <3>3. QED
            BY <1>0, <2>1, <3>1, <3>2, KeepsMarks, Zenon DEF Sent
    <2>4. QED
        BY <2>2, <2>3, Zenon
<1>4. CASE OpenMarker(h)
    BY <1>4 DEF OpenMarker, Exchange, Marks, Goto, serviceVars, Starter, Stopper
<1>5. CASE WriteMarker(h)
    BY <1>5 DEF WriteMarker, Exchange, Marks, Goto, serviceVars, Starter, Stopper
<1>6. CASE ReadMarker(h)
    BY <1>6 DEF ReadMarker, Exchange, Marks, Goto, serviceVars, Starter, Stopper
<1>7. CASE RemoveMarker(h)
    <2>1. PICK to \in {"subscribe", "cancel"} : at' = [at EXCEPT ![h] = to]
        BY <1>7, Zenon DEF RemoveMarker, Goto
    <2>2. /\ marker' = "none" /\ detached' = detached \cup {g \in Helpers : at[g] = "write"}
          /\ at[h] # "write"
        BY <1>7, Zenon DEF RemoveMarker, Goto
    <2>3. Stopper(h)'
        BY <1>0, <2>1, Zenon DEF Stopper
    <2>4. QED
        BY <1>0, <2>1, <2>2, <2>3 DEF Marks
<1>8. CASE ReadEvent(h)
    <2>1. /\ UNCHANGED <<marker, detached, service, gaveUp, wire>> /\ at[h] = "wait"
          /\ \E to : at' = [at EXCEPT ![h] = to]
          /\ \A g \in Helpers \ {h} : reply'[g] = reply[g]
        BY <1>0, <1>8, Zenon DEF ReadEvent, Goto, serviceVars
    <2>2. ~Starter(h) /\ ~Stopper(h)
        BY <1>0, <2>1, Zenon DEF Starter, Stopper, Exchange, Waits
    <2>3. QED
        BY <2>1, <2>2, KeepsMarks, Zenon
<1>9. CASE TimesOut(h)
    BY <1>9 DEF TimesOut, Waits, Sent, Exchange, Marks, Goto, serviceVars, Starter, Stopper
<1>10. QED
    BY <1>1, <1>2, <1>3, <1>4, <1>5, <1>6, <1>7, <1>8, <1>9, Zenon DEF Helper

\* The daemon's steps: only a start_recording it accepts makes a recording, and
\* whoever sent that is still there to write the marker.
LEMMA DaemonMarks ==
    ASSUME Exchange, Marks,
           \/ \E h \in Helpers : Handle(h)
           \/ Transcribe \/ ClientCancels \/ Start
           \/ \E orderly \in BOOLEAN, flushed \in SUBSET Helpers : Exit(orderly, flushed)
           \/ UNCHANGED dictationVars
    PROVE  Marks'
<1>0. /\ at \in [Helpers -> Steps \cup {"off"}] /\ wire \in [Helpers -> Commands \cup {"nothing"}]
      /\ reply \in [Helpers -> Replies]
    BY Zenon DEF Exchange
<1>1. ASSUME NEW h \in Helpers, HandleStart(h) PROVE Marks'
    <2>1. /\ UNCHANGED <<marker, detached, at, gaveUp>> /\ wire[h] = "start"
          /\ wire' = [wire EXCEPT ![h] = "nothing"]
        BY <1>1, Zenon DEF HandleStart, Handled
    <2>2. reply[h] = NoAnswer /\ (at[h] = "starting" \/ (at[h] = "off" /\ gaveUp))
        BY <2>1, Zenon DEF Exchange, Waits
    <2>3. CASE Handled(h, Ack)
        <3>1. ~gaveUp => Starter(h)'
            BY <1>0, <2>1, <2>2, <2>3, Answers, Zenon DEF Handled, Starter
        <3>2. QED
            BY <2>1, <3>1, Zenon DEF Marks
    <2>4. CASE Handled(h, Refusal) /\ UNCHANGED service
        <3>1. ~gaveUp => ~Starter(h) /\ ~Stopper(h)
            BY <2>1, <2>2, Answers, Zenon DEF Starter, Stopper
        <3>2. at' = [at EXCEPT ![h] = at[h]] /\ at[h] # "write"
            BY <1>0, <2>1, <2>2, Zenon
        <3>3. \A g \in Helpers \ {h} : wire'[g] = wire[g] /\ reply'[g] = reply[g]
            BY <1>0, <2>1, <2>4, Zenon DEF Handled
        <3>4. QED
            BY <2>1, <2>4, <3>1, <3>2, <3>3, KeepsMarks, Zenon
    <2>5. QED
        BY <1>1, <2>3, <2>4, Zenon DEF HandleStart
<1>2. ASSUME NEW h \in Helpers, HandleStop(h) \/ HandleStopRefused(h) \/ HandleCancel(h) PROVE Marks'
    <2>1. UNCHANGED <<marker, detached, at>> /\ service' # "Recording"
        BY <1>2, Zenon DEF HandleStop, HandleStopRefused, HandleCancel, CancelSession, serviceVars
    <2>2. QED
        BY <2>1, Zenon DEF Marks
<1>3. ASSUME NEW h \in Helpers, HandleSubscribe(h) PROVE Marks'
    <2>1. /\ UNCHANGED <<marker, detached, at, gaveUp, service>> /\ wire[h] = "subscribe"
          /\ wire' = [wire EXCEPT ![h] = "nothing"]
          /\ reply' = [reply EXCEPT ![h] = IF at[h] = "off" THEN NoAnswer ELSE Ack]
        BY <1>3, Zenon DEF HandleSubscribe, Handled, serviceVars
    <2>2. at[h] = "subscribing" \/ (at[h] = "off" /\ gaveUp)
        BY <2>1, Zenon DEF Exchange, Waits
    <2>3. ~gaveUp => Stopper(h)'
        BY <1>0, <2>1, <2>2, Answers, Zenon DEF Stopper
    <2>4. QED
        BY <2>1, <2>3, Zenon DEF Marks
<1>4. CASE Transcribe \/ ClientCancels \/ UNCHANGED dictationVars
    <2>1. UNCHANGED <<marker, detached, at, gaveUp, wire, reply>> /\ (service' = "Recording" => service = "Recording")
        BY <1>4, Zenon DEF Transcribe, Finish, ClientCancels, CancelSession, dictationVars, helperVars, serviceVars
    <2>2. QED
        BY <2>1, Zenon DEF Marks, Starter, Stopper
<1>5. CASE Start \/ \E orderly \in BOOLEAN, flushed \in SUBSET Helpers : Exit(orderly, flushed)
    <2>1. UNCHANGED <<marker, detached, at>> /\ service' = "Idle"
        BY <1>5, Zenon DEF Start, Exit, helperVars, Exchange
    <2>2. QED
        BY <2>1, Zenon DEF Marks
<1>6. QED
    BY <1>1, <1>2, <1>3, <1>4, <1>5, Zenon DEF Handle

\* Every step keeps the marker related to the recording.
LEMMA MarksStep == Exchange /\ Marks /\ [DictationNext]_dictationVars => Marks'
BY HelperMarks, DaemonMarks, Zenon DEF DictationNext, Quiet

\* At rest, a recording has its marker: a toggle can stop it.
THEOREM RecordingIsMarkedAlways == DictationSpec => []RecordingIsMarked
<1>1. Exchange /\ Marks => RecordingIsMarked
    <2> SUFFICES ASSUME Exchange, Marks, AtRest, ~gaveUp, service = "Recording" PROVE marker = "set"
        BY Zenon DEF RecordingIsMarked
    <2>1. \A h \in Helpers : ~Starter(h) /\ ~Stopper(h) /\ at[h] # "write"
        BY Zenon DEF AtRest, Starter, Stopper
    <2>2. QED
        BY <2>1, Zenon DEF Marks
<1>2. QED
    BY <1>1, ExchangeStart, MarksStart, ExchangeStep, MarksStep, PTL DEF DictationSpec

-----------------------------------------------------------------------------
(* The event stream *)

Endings == {"open", "text", "uncopied", "failed", "cancelled"}

\* A line that makes the helper of session m stop waiting.
Final(line, m) == line = Eof \/ (line.id = m[2] /\ Outcome(line) # "nothing")

\* TranscriptReachesWaiter for one helper, from the moment the daemon has queued
\* its session.
Told(h) == mine[h][1] # 0 /\ listener[h] = mine[h][1] /\ ended[h] # "open" => Ends(h)

\* A helper owns a session only between the answer to its stop and its end.
Streams ==
    /\ life \in Nat \ {0}
    /\ jobs \in Seq(Sessions)
    /\ inbox \in [Helpers -> Seq(Lines)]
    /\ listener \in [Helpers -> Nat]
    /\ mine \in [Helpers -> Nat \X (Sessions \cup {NoSession})]
    /\ ended \in [Helpers -> Endings]
    /\ \A h \in Helpers :
          /\ mine[h][1] # 0 => at[h] \in {"halting", "wait"} /\ wire[h] = "nothing"
          /\ mine[h][1] = 0 => ended[h] = "open"
          /\ Told(h)

\* Nobody listens in the initial state.
LEMMA StreamsStart == DictationInit => Streams
BY DEF DictationInit, Streams, None, Told, Endings

\* h's own steps: it ends, reads a line that is not for it, or leaves its stream alone.
LEMMA HelperStream ==
    ASSUME Exchange, Streams, NEW h \in Helpers, Helper(h) \/ TimesOut(h)
    PROVE  /\ UNCHANGED <<life, jobs>>
           /\ \/ /\ listener' = [listener EXCEPT ![h] = 0] /\ inbox' = [inbox EXCEPT ![h] = <<>>]
                 /\ mine' = [mine EXCEPT ![h] = None] /\ ended' = [ended EXCEPT ![h] = "open"]
              \/ /\ UNCHANGED <<listener, inbox, mine, ended>>
                 /\ mine[h][1] # 0 => at'[h] \in {"halting", "wait"} /\ wire'[h] = "nothing"
              \/ /\ UNCHANGED <<listener, mine, ended, at, wire>>
                 /\ inbox[h] # <<>> /\ ~Final(Head(inbox[h]), mine[h])
                 /\ inbox' = [inbox EXCEPT ![h] = Tail(inbox[h])]
<1>0. /\ mine[h][1] # 0 => at[h] \in {"halting", "wait"} /\ wire[h] = "nothing"
      /\ at \in [Helpers -> Steps \cup {"off"}]
    BY Zenon DEF Streams, Exchange
<1>1. ASSUME NEW r \in Requests, Press(h, r) PROVE UNCHANGED <<life, jobs, listener, inbox, mine, ended>> /\ mine[h][1] = 0
    <2>1. \E to \in {"release", "start", "stop"} : Goto(h, "off", to)
        BY <1>1, Zenon DEF Press
    <2>2. QED
        BY <1>0, <1>1, <2>1, Zenon DEF Press, Goto, serviceVars
<1>2. CASE Sends(h)
    BY <1>0, <1>2, Zenon DEF Sends, Send, Goto, serviceVars
<1>3. CASE Reads(h)
    <2>1. UNCHANGED <<life, jobs, wire>> /\ at[h] \in Sent
        BY <1>3, Zenon DEF Reads, serviceVars
    <2>2. CASE reply[h].says = "ok" /\ at[h] # "cancelling"
        BY <1>0, <1>3, <2>1, <2>2, Zenon DEF Reads, AfterAnswer, Sent
    <2>3. CASE ~(reply[h].says = "ok" /\ at[h] # "cancelling")
        BY <1>3, <2>1, <2>3, Zenon DEF Reads, Goto
    <2>4. QED
        BY <2>2, <2>3, Zenon
<1>4. CASE OpenMarker(h) \/ WriteMarker(h) \/ ReadMarker(h) \/ RemoveMarker(h)
    BY <1>0, <1>4, Zenon DEF OpenMarker, WriteMarker, ReadMarker, RemoveMarker, Goto, serviceVars
<1>5. CASE ReadEvent(h)
    BY <1>0, <1>5, Zenon DEF ReadEvent, Goto, serviceVars, Final
<1>6. CASE TimesOut(h)
    BY <1>6, Zenon DEF TimesOut, Goto, serviceVars
<1>7. QED
    BY <1>1, <1>2, <1>3, <1>4, <1>5, <1>6, Zenon DEF Helper

\* Reading a line that is not final loses nothing.
LEMMA TailEnds ==
    ASSUME NEW s \in Seq(Lines), NEW m, s # <<>>, ~Final(Head(s), m), \E i \in DOMAIN s : Final(s[i], m)
    PROVE  Tail(s) \in Seq(Lines) /\ \E i \in DOMAIN Tail(s) : Final(Tail(s)[i], m)
<1>1. /\ Tail(s) \in Seq(Lines) /\ Len(s) \in Nat /\ Len(Tail(s)) = Len(s) - 1 /\ Head(s) = s[1]
      /\ \A k \in 1 .. Len(Tail(s)) : Tail(s)[k] = s[k + 1]
      /\ DOMAIN s = 1 .. Len(s) /\ DOMAIN Tail(s) = 1 .. Len(Tail(s))
    BY HeadTailProperties, LenProperties
<1>2. PICK i \in 1 .. Len(s) : Final(s[i], m)
    BY <1>1, Zenon
<1>3. i - 1 \in 1 .. Len(Tail(s)) /\ (i - 1) + 1 = i
    BY <1>1, <1>2
<1>4. QED
    BY <1>1, <1>2, <1>3, Zenon

\* What is appended to a stream keeps what was final in it.
LEMMA ConcatEnds ==
    ASSUME NEW s \in Seq(Lines), NEW t \in Seq(Lines), NEW m
    PROVE  /\ s \o t \in Seq(Lines)
           /\ (\E i \in DOMAIN s : Final(s[i], m)) => \E i \in DOMAIN (s \o t) : Final((s \o t)[i], m)
           /\ (\E i \in DOMAIN t : Final(t[i], m)) => \E i \in DOMAIN (s \o t) : Final((s \o t)[i], m)
<1>1. /\ s \o t \in Seq(Lines) /\ Len(s) \in Nat /\ Len(t) \in Nat
      /\ DOMAIN s = 1 .. Len(s) /\ DOMAIN t = 1 .. Len(t) /\ DOMAIN (s \o t) = 1 .. Len(s) + Len(t)
      /\ \A i \in 1 .. Len(s) + Len(t) : (s \o t)[i] = IF i <= Len(s) THEN s[i] ELSE t[i - Len(s)]
    BY ConcatProperties, LenProperties
<1>2. ASSUME NEW i \in DOMAIN s, Final(s[i], m) PROVE \E k \in DOMAIN (s \o t) : Final((s \o t)[k], m)
    <2>1. i \in DOMAIN (s \o t) /\ (s \o t)[i] = s[i]
        BY <1>1
    <2>2. QED
        BY <1>2, <2>1, Zenon
<1>3. ASSUME NEW i \in DOMAIN t, Final(t[i], m) PROVE \E k \in DOMAIN (s \o t) : Final((s \o t)[k], m)
    <2>1. Len(s) + i \in DOMAIN (s \o t) /\ (s \o t)[Len(s) + i] = t[i]
        BY <1>1
    <2>2. QED
        BY <1>3, <2>1, Zenon
<1>4. QED
    BY <1>1, <1>2, <1>3, Zenon

\* A helper's own steps lose no line it still has to read.
LEMMA HelperStreams ==
    ASSUME Exchange, Streams, NEW h \in Helpers, Helper(h) \/ TimesOut(h)
    PROVE  Streams'
<1>0. \E to : Moves(h, to)
    BY HelperMoves, Zenon
<1>1. \A g \in Helpers \ {h} : at'[g] = at[g] /\ wire'[g] = wire[g]
    BY <1>0, Zenon DEF Moves, Exchange
<1>2. /\ None \in Nat \X (Sessions \cup {NoSession}) /\ None[1] = 0
      /\ <<>> \in Seq(Lines) /\ "open" \in Endings
    BY DEF None, Endings
<1>3. CASE /\ UNCHANGED <<life, jobs>>
           /\ listener' = [listener EXCEPT ![h] = 0] /\ inbox' = [inbox EXCEPT ![h] = <<>>]
           /\ mine' = [mine EXCEPT ![h] = None] /\ ended' = [ended EXCEPT ![h] = "open"]
    BY <1>1, <1>2, <1>3, ZenonT(30) DEF Streams, Told, Ends
<1>4. CASE /\ UNCHANGED <<life, jobs, listener, inbox, mine, ended>>
           /\ mine[h][1] # 0 => at'[h] \in {"halting", "wait"} /\ wire'[h] = "nothing"
    BY <1>1, <1>4, Zenon DEF Streams, Told, Ends
<1>5. CASE /\ UNCHANGED <<life, jobs, listener, mine, ended, at, wire>>
           /\ inbox[h] # <<>> /\ ~Final(Head(inbox[h]), mine[h])
           /\ inbox' = [inbox EXCEPT ![h] = Tail(inbox[h])]
    <2>1. inbox[h] \in Seq(Lines)
        BY Zenon DEF Streams
    <2>2. Tail(inbox[h]) \in Seq(Lines)
        BY <1>5, <2>1, HeadTailProperties, Zenon
    <2>3. Ends(h) => Ends(h)'
        <3> SUFFICES ASSUME Ends(h) PROVE Ends(h)'
            BY Zenon
        <3>1. \E i \in DOMAIN inbox[h] : Final(inbox[h][i], mine[h])
            BY Zenon DEF Ends, Final
        <3>2. \E i \in DOMAIN Tail(inbox[h]) : Final(Tail(inbox[h])[i], mine[h])
            BY <1>5, <2>1, <3>1, TailEnds, Zenon
        <3>3. inbox'[h] = Tail(inbox[h]) /\ mine'[h] = mine[h]
            BY <1>5, Zenon DEF Streams
        <3>4. QED
            BY <3>2, <3>3, Zenon DEF Ends, Final
    <2>4. \A g \in Helpers \ {h} : inbox'[g] = inbox[g]
        BY <1>5, Zenon DEF Streams
    <2>5. ASSUME NEW g \in Helpers PROVE Told(g)'
        <3>1. Ends(g) => Ends(g)'
            BY <1>5, <2>3, <2>4, Zenon DEF Ends
        <3>2. QED
            BY <1>5, <3>1, Zenon DEF Streams, Told
    <2>6. inbox' \in [Helpers -> Seq(Lines)]
        BY <1>5, <2>2, Zenon DEF Streams
    <2>7. QED
        BY <1>5, <2>5, <2>6, Zenon DEF Streams
<1>6. QED
    BY <1>3, <1>4, <1>5, HelperStream, Zenon

\* What the daemon sends reaches everyone who subscribed to it.
LEMMA BroadcastEnds ==
    ASSUME Streams, NEW lines \in Seq(Lines), Broadcast(lines)
    PROVE  /\ inbox' \in [Helpers -> Seq(Lines)]
           /\ \A g \in Helpers : Ends(g) /\ mine'[g] = mine[g] => Ends(g)'
           /\ \A g \in Helpers : listener[g] = life /\ (\E i \in DOMAIN lines : Final(lines[i], mine'[g])) => Ends(g)'
<1>1. \A g \in Helpers : /\ inbox[g] \in Seq(Lines)
                         /\ inbox'[g] = IF listener[g] = life THEN inbox[g] \o lines ELSE inbox[g]
    BY Zenon DEF Broadcast, Streams
<1>2. inbox' \in [Helpers -> Seq(Lines)]
    BY <1>1, ConcatEnds, Zenon DEF Broadcast
<1>3. ASSUME NEW g \in Helpers, Ends(g), mine'[g] = mine[g] PROVE Ends(g)'
    <2>1. \E i \in DOMAIN inbox[g] : Final(inbox[g][i], mine[g])
        BY <1>3, Zenon DEF Ends, Final
    <2>2. \E i \in DOMAIN inbox'[g] : Final(inbox'[g][i], mine'[g])
        BY <1>1, <1>3, <2>1, ConcatEnds, ZenonT(30)
    <2>3. QED
        BY <2>2, Zenon DEF Ends, Final
<1>4. ASSUME NEW g \in Helpers, listener[g] = life, \E i \in DOMAIN lines : Final(lines[i], mine'[g]) PROVE Ends(g)'
    <2>1. \E i \in DOMAIN inbox'[g] : Final(inbox'[g][i], mine'[g])
        BY <1>1, <1>4, ConcatEnds, Zenon
    <2>2. QED
        BY <2>1, Zenon DEF Ends, Final
<1>5. QED
    BY <1>2, <1>3, <1>4, Zenon

\* The lines of the protocol.
LEMMA LineTypes ==
    /\ Eof \in Lines /\ \A m : Final(Eof, m)
    /\ \A s \in Sessions \cup {NoSession} :
          /\ Line("transcription_queued", s) \in Lines
          /\ Line("transcription_completed", s) \in Lines
          /\ Line("error_occurred", s) \in Lines
          /\ Line("session_cancelled", s) \in Lines
    /\ \A s, n : LET m == <<n, s>>
                IN  /\ Final(Line("transcription_completed", s), m)
                    /\ Final(Line("error_occurred", s), m)
                    /\ Final(Line("session_cancelled", s), m)
BY Zenon DEF Line, Lines, Eof, Final, Outcome

\* A session ends, and the lines about it are sent.
LEMMA ConcludesTold ==
    ASSUME Streams, NEW s \in Sessions, NEW end \in Endings, NEW lines \in Seq(Lines),
           Concludes(s, end), Broadcast(lines), UNCHANGED <<life, listener, mine, at, wire>>,
           jobs' \in Seq(Sessions), \E i \in DOMAIN lines : \A n : Final(lines[i], <<n, s>>)
    PROVE  Streams'
<1>1. /\ inbox' \in [Helpers -> Seq(Lines)]
      /\ \A g \in Helpers : Ends(g) => Ends(g)'
      /\ \A g \in Helpers : listener[g] = life /\ (\E i \in DOMAIN lines : Final(lines[i], mine[g])) => Ends(g)'
    BY BroadcastEnds, Zenon
<1>2. /\ ended' \in [Helpers -> Endings]
      /\ \A g \in Helpers : ended'[g] = IF mine[g] = <<life, s>> THEN end ELSE ended[g]
    BY Zenon DEF Concludes, Streams
<1>3. ASSUME NEW g \in Helpers, mine[g] = <<life, s>>
      PROVE  mine[g][1] = life /\ life # 0 /\ \E i \in DOMAIN lines : Final(lines[i], mine[g])
    BY <1>3 DEF Streams
<1>4. ASSUME NEW g \in Helpers PROVE Told(g)'
    <2>1. CASE mine[g] = <<life, s>>
        <3>1. listener[g] = life => Ends(g)'
            BY <1>1, <1>3, <2>1, Zenon
        <3>2. listener'[g] = listener[g] /\ mine'[g][1] = life
            BY <1>3, <2>1, Zenon
        <3>3. QED
            BY <3>1, <3>2, Zenon DEF Told
    <2>2. CASE mine[g] # <<life, s>>
        BY <1>1, <1>2, <2>2, Zenon DEF Told, Streams
    <2>3. QED
        BY <2>1, <2>2, Zenon
<1>5. \A g \in Helpers : mine[g][1] = 0 => ended'[g] = "open"
    BY <1>2, <1>3, Zenon DEF Streams
<1>6. QED
    BY <1>1, <1>2, <1>4, <1>5, Zenon DEF Streams

\* The steps in which the daemon ends no session.
LEMMA NothingEnds ==
    ASSUME Streams, NEW lines \in Seq(Lines), Broadcast(lines) \/ UNCHANGED inbox,
           UNCHANGED <<life, listener, mine, ended, at>>, jobs' \in Seq(Sessions),
           \A g \in Helpers : wire'[g] \in {wire[g], "nothing"}
    PROVE  Streams'
<1>1. /\ inbox' \in [Helpers -> Seq(Lines)]
      /\ \A g \in Helpers : Ends(g) => Ends(g)'
    <2>1. CASE Broadcast(lines)
        BY <2>1, BroadcastEnds, Zenon
    <2>2. CASE UNCHANGED inbox
        BY <2>2, Zenon DEF Streams, Ends
    <2>3. QED
        BY <2>1, <2>2, Zenon
<1>2. QED
    BY <1>1, Zenon DEF Streams, Told

\* The daemon handles a request: a subscriber is added before its stop is handled,
\* and what a command ends is broadcast in the same step.
LEMMA HandleStreams ==
    ASSUME Exchange, Streams, NEW h \in Helpers, Handle(h)
    PROVE  Streams'
<1>0. /\ at \in [Helpers -> Steps \cup {"off"}] /\ wire \in [Helpers -> Commands \cup {"nothing"}]
      /\ active \in Sessions \cup {NoSession} /\ jobs \in Seq(Sessions) /\ <<>> \in Seq(Lines)
    BY DEF Exchange, Streams
<1>1. /\ wire[h] # "nothing" /\ wire' = [wire EXCEPT ![h] = "nothing"]
      /\ UNCHANGED <<life, ended, at>>
    BY Zenon DEF Handle, HandleStart, HandleStop, HandleStopRefused, HandleCancel, HandleSubscribe, Handled,
           CancelSession, serviceVars
<1>2. mine[h][1] = 0 /\ ended[h] = "open" /\ \A g \in Helpers : wire'[g] \in {wire[g], "nothing"}
    BY <1>0, <1>1, Zenon DEF Streams
<1>3. CASE HandleStart(h) \/ HandleStopRefused(h)
    <2>1. <<Line("error_occurred", NoSession)>> \in Seq(Lines)
        BY LineTypes
    <2>2. /\ Broadcast(<<Line("error_occurred", NoSession)>>) \/ UNCHANGED inbox
          /\ UNCHANGED <<listener, mine, jobs>>
        BY <1>3, Zenon DEF HandleStart, HandleStopRefused, serviceVars
    <2>3. QED
        BY <1>0, <1>1, <1>2, <2>1, <2>2, NothingEnds, Zenon
<1>4. CASE HandleCancel(h)
    <2>1. <<Line("session_cancelled", active)>> \in Seq(Lines)
        BY <1>0, LineTypes
    <2>2. /\ Broadcast(<<Line("session_cancelled", active)>>) \/ UNCHANGED inbox
          /\ UNCHANGED <<listener, mine, jobs>>
        BY <1>4, Zenon DEF HandleCancel, CancelSession, serviceVars
    <2>3. QED
        BY <1>0, <1>1, <1>2, <2>1, <2>2, NothingEnds, Zenon
<1>5. CASE HandleStop(h)
    <2>1. CASE /\ jobs' = Append(jobs, active)
               /\ Broadcast(<<Line("transcription_queued", active)>>)
               /\ mine' = [mine EXCEPT ![h] = IF at[h] = "off" THEN None ELSE <<life, active>>]
        <3>1. active \in Sessions /\ listener' = listener /\ wire[h] = "stop"
            BY <1>5, Zenon DEF HandleStop, Exchange
        <3>2. at[h] \in {"halting", "off"}
            BY <3>1, Zenon DEF Exchange, Waits
        <3>3. jobs' \in Seq(Sessions) /\ <<Line("transcription_queued", active)>> \in Seq(Lines)
            BY <1>0, <2>1, <3>1, LineTypes, AppendProperties
        <3>4. inbox' \in [Helpers -> Seq(Lines)] /\ \A g \in Helpers : Ends(g) /\ mine'[g] = mine[g] => Ends(g)'
            BY <2>1, <3>3, BroadcastEnds, Zenon
        <3>5. /\ mine' \in [Helpers -> Nat \X (Sessions \cup {NoSession})]
              /\ \A g \in Helpers \ {h} : mine'[g] = mine[g]
              /\ mine'[h][1] = 0 \/ at[h] = "halting"
            BY <2>1, <3>1, <3>2, Zenon DEF Streams, None
        <3>6. ASSUME NEW g \in Helpers PROVE Told(g)'
            BY <1>1, <1>2, <3>1, <3>4, <3>5, Zenon DEF Streams, Told
        <3>7. ASSUME NEW g \in Helpers
              PROVE  /\ mine'[g][1] # 0 => at'[g] \in {"halting", "wait"} /\ wire'[g] = "nothing"
                     /\ mine'[g][1] = 0 => ended'[g] = "open"
            BY <1>0, <1>1, <1>2, <3>5 DEF Streams
        <3>8. QED
            BY <1>1, <3>1, <3>3, <3>4, <3>5, <3>6, <3>7, Zenon DEF Streams
    <2>2. CASE Broadcast(<<Line("error_occurred", active)>>) /\ UNCHANGED <<jobs, mine>>
        <3>1. <<Line("error_occurred", active)>> \in Seq(Lines) /\ listener' = listener
            BY <1>0, <1>5, LineTypes, SMTT(20) DEF HandleStop
        <3>2. QED
            BY <1>0, <1>1, <1>2, <2>2, <3>1, NothingEnds, Zenon
    <2>3. QED
        BY <1>5, <2>1, <2>2, Zenon DEF HandleStop
<1>6. CASE HandleSubscribe(h)
    <2>1. /\ UNCHANGED <<inbox, mine, jobs>>
          /\ listener' = [listener EXCEPT ![h] = IF at[h] = "off" THEN 0 ELSE life]
        BY <1>6, Zenon DEF HandleSubscribe, serviceVars
    <2>2. QED
        BY <1>1, <1>2, <2>1, Zenon DEF Streams, Told, Ends
<1>7. QED
    BY <1>3, <1>4, <1>5, <1>6, Zenon DEF Handle

\* A daemon that ends leaves the end of the stream to everyone who subscribed to it.
LEMMA ExitStreams ==
    ASSUME Exchange, Streams, NEW orderly \in BOOLEAN, NEW flushed \in SUBSET Helpers, Exit(orderly, flushed)
    PROVE  Streams'
<1> DEFINE dropped == [i \in DOMAIN jobs |-> Line("error_occurred", jobs[i])]
           last == IF ~orderly THEN <<>>
                   ELSE (IF service = "Idle" THEN <<>> ELSE <<Line("session_cancelled", active)>>) \o dropped
<1>0. active \in Sessions \cup {NoSession} /\ jobs \in Seq(Sessions)
    BY Zenon DEF Exchange, Streams
<1>1. dropped \in Seq(Lines)
    <2>1. Len(jobs) \in Nat /\ DOMAIN jobs = 1 .. Len(jobs) /\ \A i \in DOMAIN jobs : jobs[i] \in Sessions
        BY <1>0, LenProperties, Zenon
    <2>2. \A i \in 1 .. Len(jobs) : Line("error_occurred", jobs[i]) \in Lines
        BY <2>1, LineTypes, Zenon
    <2>3. dropped \in [1 .. Len(jobs) -> Lines]
        BY <2>1, <2>2, Zenon
    <2>4. QED
        BY <2>1, <2>3, SeqDef, ZenonT(30)
<1>2. last \in Seq(Lines)
    <2>1. <<>> \in Seq(Lines) /\ <<Line("session_cancelled", active)>> \in Seq(Lines)
        BY <1>0, LineTypes
    <2>2. QED
        BY <1>1, <2>1, ConcatProperties, Zenon
<1>3. /\ UNCHANGED <<at, listener, mine, life>> /\ jobs' = <<>>
      /\ wire' = [g \in Helpers |-> "nothing"]
      /\ inbox' = [g \in Helpers |->
                     IF listener[g] # life THEN inbox[g]
                     ELSE IF g \in flushed THEN inbox[g] \o Append(last, Eof) ELSE <<Eof>>]
      /\ ended' = [g \in Helpers |-> IF mine[g][1] = life /\ ended[g] = "open" THEN "failed" ELSE ended[g]]
    BY Zenon DEF Exit
<1> HIDE DEF last
<1>4. /\ Append(last, Eof) \in Seq(Lines)
      /\ \E i \in DOMAIN Append(last, Eof) : Append(last, Eof)[i] = Eof
    <2>1. /\ Append(last, Eof) \in Seq(Lines) /\ Len(Append(last, Eof)) = Len(last) + 1 /\ Len(last) \in Nat
          /\ Append(last, Eof)[Len(last) + 1] = Eof
        BY <1>2, LineTypes, AppendProperties, LenProperties
    <2>2. Len(last) + 1 \in DOMAIN Append(last, Eof)
        BY <2>1, LenProperties
    <2>3. QED
        BY <2>1, <2>2, Zenon
<1>5. ASSUME NEW g \in Helpers
      PROVE  inbox'[g] \in Seq(Lines) /\ (IF listener[g] = life THEN Ends(g)' ELSE inbox'[g] = inbox[g])
    <2>1. CASE listener[g] # life
        BY <1>3, <2>1, Zenon DEF Streams
    <2>2. CASE listener[g] = life /\ g \in flushed
        <3>1. inbox'[g] = inbox[g] \o Append(last, Eof) /\ inbox[g] \in Seq(Lines)
            BY <1>3, <2>2, Zenon DEF Streams
        <3>2. \E i \in DOMAIN Append(last, Eof) : Final(Append(last, Eof)[i], mine'[g])
            BY <1>4, LineTypes, Zenon
        <3>3. inbox'[g] \in Seq(Lines) /\ \E i \in DOMAIN inbox'[g] : Final(inbox'[g][i], mine'[g])
            BY <1>4, <3>1, <3>2, ConcatEnds, Zenon
        <3>4. QED
            BY <2>2, <3>3, Zenon DEF Ends, Final
    <2>3. CASE listener[g] = life /\ g \notin flushed
        <3>1. inbox'[g] = <<Eof>>
            BY <1>3, <2>3, Zenon
        <3>2. <<Eof>> \in Seq(Lines) /\ 1 \in DOMAIN <<Eof>> /\ <<Eof>>[1] = Eof
            BY LineTypes, SMTT(20)
        <3>3. QED
            BY <2>3, <3>1, <3>2, Zenon DEF Ends
    <2>4. QED
        BY <2>1, <2>2, <2>3, Zenon
<1>6. inbox' \in [Helpers -> Seq(Lines)]
    BY <1>3, <1>5, Zenon
<1>7. /\ ended' \in [Helpers -> Endings]
      /\ \A g \in Helpers : mine[g][1] # life => ended'[g] = ended[g]
    BY <1>3, Zenon DEF Streams, Endings
<1>8. ASSUME NEW g \in Helpers PROVE Told(g)'
    <2>1. CASE listener[g] = life
        BY <1>5, <2>1, Zenon DEF Told
    <2>2. CASE listener[g] # life
        <3>1. Ends(g) => Ends(g)'
            BY <1>3, <1>5, <2>2, Zenon DEF Ends
        <3>2. QED
            BY <1>3, <1>7, <2>2, <3>1, Zenon DEF Streams, Told
    <2>3. QED
        BY <2>1, <2>2, Zenon
<1>9. \A g \in Helpers : mine[g][1] = 0 => ended'[g] = "open"
    BY <1>7, Zenon DEF Streams
<1>10. <<>> \in Seq(Sessions)
    OBVIOUS
<1>11. QED
    BY <1>3, <1>6, <1>7, <1>8, <1>9, <1>10, Zenon DEF Streams

\* The rest of the daemon's steps.
LEMMA DaemonStreams ==
    ASSUME Exchange, Streams,
           Transcribe \/ ClientCancels \/ Start \/ UNCHANGED dictationVars
    PROVE  Streams'
<1>0. active \in Sessions \cup {NoSession} /\ jobs \in Seq(Sessions) /\ <<>> \in Seq(Lines)
    BY DEF Exchange, Streams
<1>1. ASSUME NEW end \in {"text", "uncopied", "failed"}, Finish(end) PROVE Streams'
    <2> DEFINE s == Head(jobs)
               lines == IF end = "failed" THEN <<Line("error_occurred", s)>> ELSE Completed(s, end = "text")
    <2>1. s \in Sessions /\ Tail(jobs) \in Seq(Sessions) /\ end \in Endings
        BY <1>0, <1>1, HeadTailProperties, Zenon DEF Finish, Endings
    <2>2. /\ jobs' = Tail(jobs) /\ Concludes(s, end) /\ Broadcast(lines)
          /\ UNCHANGED <<life, listener, mine, at, wire>>
        BY <1>1, Zenon DEF Finish
    <2> HIDE DEF s
    <2>3. lines \in Seq(Lines)
        BY <2>1, LineTypes DEF Completed
    <2>4. 1 \in DOMAIN lines /\ \A n : Final(lines[1], <<n, s>>)
        BY <2>1, LineTypes DEF Completed
    <2> HIDE DEF lines
    <2>5. QED
        BY <2>1, <2>2, <2>3, <2>4, ConcludesTold, Zenon
<1>2. CASE ClientCancels
    <2>1. CASE CancelSession /\ UNCHANGED ended
        <3>1. <<Line("session_cancelled", active)>> \in Seq(Lines)
            BY <1>0, LineTypes
        <3>2. QED
            BY <1>0, <1>2, <2>1, <3>1, NothingEnds, Zenon DEF ClientCancels, CancelSession
    <2>2. ASSUME NEW i \in DOMAIN jobs,
                 jobs' = SubSeq(jobs, 1, i - 1) \o SubSeq(jobs, i + 1, Len(jobs)),
                 Concludes(jobs[i], "cancelled"), Broadcast(<<Line("session_cancelled", jobs[i])>>),
                 UNCHANGED <<life, up, service, active, nextId>>
          PROVE  Streams'
        <3>1. /\ Len(jobs) \in Nat /\ i \in 1 .. Len(jobs) /\ jobs[i] \in Sessions
              /\ \A k \in 1 .. Len(jobs) : jobs[k] \in Sessions
            BY <1>0, <2>2, LenProperties, Zenon
        <3>2. SubSeq(jobs, 1, i - 1) \in Seq(Sessions) /\ SubSeq(jobs, i + 1, Len(jobs)) \in Seq(Sessions)
            BY <3>1, SubSeqProperties
        <3>3. jobs' \in Seq(Sessions)
            BY <2>2, <3>2, ConcatProperties, Zenon
        <3>4. /\ <<Line("session_cancelled", jobs[i])>> \in Seq(Lines) /\ "cancelled" \in Endings
              /\ 1 \in DOMAIN <<Line("session_cancelled", jobs[i])>>
              /\ \A n : Final(<<Line("session_cancelled", jobs[i])>>[1], <<n, jobs[i]>>)
            BY <3>1, LineTypes, SMTT(20) DEF Endings
        <3>5. QED
            BY <1>2, <2>2, <3>1, <3>3, <3>4, ConcludesTold, Zenon DEF ClientCancels
    <2>3. QED
        BY <1>2, <2>1, <2>2, Zenon DEF ClientCancels
<1>3. CASE Start
    <2>1. life' \in Nat \ {0} /\ UNCHANGED helperVars /\ UNCHANGED jobs
        BY <1>3 DEF Start, Streams
    <2>2. QED
        BY <2>1, Zenon DEF Streams, helperVars, Told, Ends
<1>4. CASE UNCHANGED dictationVars
    BY <1>0, <1>4, NothingEnds, Zenon DEF dictationVars, helperVars, serviceVars
<1>5. QED
    BY <1>1, <1>2, <1>3, <1>4, Zenon DEF Transcribe

\* Every step keeps what a waiting helper was sent or will be sent.
LEMMA StreamsStep == Exchange /\ Streams /\ [DictationNext]_dictationVars => Streams'
BY HelperStreams, HandleStreams, DaemonStreams, ExitStreams, Zenon DEF DictationNext, Quiet

\* A stop cannot miss the end of its session.
THEOREM TranscriptReachesWaiterAlways == DictationSpec => []TranscriptReachesWaiter
<1>1. Streams => TranscriptReachesWaiter
    BY Zenon DEF Streams, Told, TranscriptReachesWaiter
<1>2. QED
    BY <1>1, ExchangeStart, StreamsStart, ExchangeStep, StreamsStep, PTL DEF DictationSpec

-----------------------------------------------------------------------------
(* What a helper reports: the inductive invariant, Reports, speaks of every  *)
(* line on its way to a listener.  A line that ends a session is published   *)
(* when the session leaves the daemon, never before and once; ids of one     *)
(* daemon do not repeat; and a helper listens to one daemon only, from       *)
(* before its stop.                                                          *)

\* The line tells how session s ended.
Tells(line, s) == line.id = s /\ Outcome(line) # "nothing"

\* What ReportIsOwn allows to be said of an end.
Matches(says, end) ==
    /\ says = "text" => end = "text"
    /\ says = "error" => end \in {"failed", "uncopied"}
    /\ says = "cancelled" => end = "cancelled"

\* The first of the lines that tells how s ended is right.
Truthful(lines, s, end) ==
    \A i \in DOMAIN lines :
        Tells(lines[i], s) => Matches(Outcome(lines[i]), end) \/ \E k \in 1 .. i - 1 : Tells(lines[k], s)

Has(q, s)   == \E i \in DOMAIN q : q[i] = s
Distinct(q) == \A i, k \in DOMAIN q : q[i] = q[k] => i = k

\* Session s of this daemon is over, or there is no session s.
Past(s) ==
    s \in Sessions => s < nextId /\ ~(service = "Recording" /\ s = active) /\ ~Has(jobs, s)

\* A session is recorded once and queued once.
Ids ==
    /\ nextId \in Nat
    /\ ~up => jobs = <<>>
    /\ service # "Idle" => active \in Sessions /\ active < nextId /\ ~Has(jobs, active)
    /\ \A i \in DOMAIN jobs : jobs[i] < nextId
    /\ Distinct(jobs)

\* h listens to one daemon at most, from before its stop on.
Listens(h) ==
    /\ listener[h] <= life /\ mine[h][1] <= life
    /\ listener[h] = 0 => inbox[h] = <<>>
    /\ listener[h] # 0 => at[h] \in {"subscribing", "halt", "halting", "wait"} /\ wire[h] # "subscribe"

\* What h heard of this daemon's sessions is about those that are over.
Hears(h) ==
    up /\ listener[h] = life =>
        \A i \in DOMAIN inbox[h] : Outcome(inbox[h][i]) # "nothing" => Past(inbox[h][i].id)

\* The session h stopped has not ended as long as it is queued.
Owns(h) ==
    up /\ mine[h][1] = life =>
        /\ mine[h][2] \in Sessions /\ mine[h][2] < nextId
        /\ service # "Idle" => mine[h][2] # active
        /\ ended[h] = "open" <=> Has(jobs, mine[h][2])

Right(h) == mine[h][1] # 0 /\ listener[h] = mine[h][1] => Truthful(inbox[h], mine[h][2], ended[h])

\* ReportIsOwn at every moment: the first line about its own session that reaches a
\* helper tells how it ended, and none reaches it before the end.
Reports == Ids /\ \A h \in Helpers : Listens(h) /\ Hears(h) /\ Owns(h) /\ Right(h)

\* Nobody listens in the initial state.
LEMMA ReportsStart == DictationInit => Reports
<1> SUFFICES ASSUME DictationInit PROVE Reports
    BY Zenon
<1>1. jobs = <<>> /\ DOMAIN jobs = {} /\ up /\ life = 1 /\ nextId \in {1, 2}
    BY DEF DictationInit
<1>2. Ids
    BY <1>1, DictationAssumption DEF DictationInit, DictationAssumption, Ids, Has, Distinct
<1>3. ASSUME NEW h \in Helpers PROVE Listens(h) /\ Hears(h) /\ Owns(h) /\ Right(h)
    <2>1. listener[h] = 0 /\ mine[h][1] = 0 /\ inbox[h] = <<>>
        BY Zenon DEF DictationInit, None
    <2>2. QED
        BY <1>1, <2>1 DEF Listens, Hears, Owns, Right
<1>4. QED
    BY <1>2, <1>3, Zenon DEF Reports

\* Taking one job out of the queue.
LEMMA Without ==
    ASSUME NEW q \in Seq(Sessions), Distinct(q), NEW i \in 1 .. Len(q), NEW r \in Seq(Sessions),
           Len(r) = Len(q) - 1, \A k \in 1 .. Len(r) : r[k] = IF k < i THEN q[k] ELSE q[k + 1]
    PROVE  Distinct(r) /\ \A s : Has(r, s) <=> Has(q, s) /\ s # q[i]
<1>1. Len(q) \in Nat /\ DOMAIN q = 1 .. Len(q) /\ DOMAIN r = 1 .. Len(r) /\ Len(r) \in Nat
    BY LenProperties, Zenon
<1> DEFINE old(k) == IF k < i THEN k ELSE k + 1
<1>2. /\ \A k \in 1 .. Len(r) : old(k) \in 1 .. Len(q) /\ old(k) # i /\ r[k] = q[old(k)]
      /\ \A k, l \in 1 .. Len(r) : old(k) = old(l) => k = l
    BY <1>1
<1>3. \A j \in 1 .. Len(q) : j # i => \E k \in 1 .. Len(r) : old(k) = j
    <2> SUFFICES ASSUME NEW j \in 1 .. Len(q), j # i PROVE \E k \in 1 .. Len(r) : old(k) = j
        BY Zenon
    <2>1. CASE j < i
        <3>1. j \in 1 .. Len(r) /\ old(j) = j
            BY <1>1, <2>1
        <3>2. QED
            BY <3>1, Zenon
    <2>2. CASE ~(j < i)
        <3>1. j - 1 \in 1 .. Len(r) /\ old(j - 1) = j
            BY <1>1, <2>2
        <3>2. QED
            BY <3>1, Zenon
    <2>3. QED
        BY <2>1, <2>2, Zenon
<1> HIDE DEF old
<1>a. \A k, l \in 1 .. Len(q) : q[k] = q[l] => k = l
    BY <1>1, Zenon DEF Distinct
<1>4. Distinct(r)
    <2>1. ASSUME NEW k \in 1 .. Len(r), NEW l \in 1 .. Len(r), r[k] = r[l] PROVE k = l
        <3>1. q[old(k)] = q[old(l)] /\ old(k) \in 1 .. Len(q) /\ old(l) \in 1 .. Len(q)
            BY <1>2, <2>1, Zenon
        <3>2. QED
            BY <1>2, <1>a, <3>1, ZenonT(30)
    <2>2. QED
        BY <1>1, <2>1, Zenon DEF Distinct
<1>5. ASSUME NEW s PROVE Has(r, s) <=> Has(q, s) /\ s # q[i]
    <2>1. ASSUME NEW k \in 1 .. Len(r), r[k] = s PROVE s # q[i] /\ \E j \in 1 .. Len(q) : q[j] = s
        <3>1. old(k) \in 1 .. Len(q) /\ old(k) # i /\ q[old(k)] = s
            BY <1>2, <2>1, Zenon
        <3>2. s # q[i]
            BY <1>a, <3>1, Zenon
        <3>3. QED
            BY <3>1, <3>2, Zenon
    <2>2. ASSUME NEW j \in 1 .. Len(q), q[j] = s, s # q[i] PROVE \E k \in 1 .. Len(r) : r[k] = s
        BY <1>2, <1>3, <2>2, Zenon
    <2>3. QED
        BY <1>1, <2>1, <2>2, Zenon DEF Has
<1>6. QED
    BY <1>4, <1>5, Zenon

\* Two truthful pieces of a stream are truthful together.
LEMMA TruthfulConcat ==
    ASSUME NEW a \in Seq(Lines), NEW b \in Seq(Lines), NEW s, NEW end, Truthful(a, s, end), Truthful(b, s, end)
    PROVE  Truthful(a \o b, s, end)
<1> DEFINE c == a \o b
<1>1. /\ Len(a) \in Nat /\ Len(b) \in Nat /\ DOMAIN a = 1 .. Len(a) /\ DOMAIN b = 1 .. Len(b)
      /\ DOMAIN c = 1 .. Len(a) + Len(b)
      /\ \A i \in 1 .. Len(a) + Len(b) : c[i] = IF i <= Len(a) THEN a[i] ELSE b[i - Len(a)]
    BY ConcatProperties, LenProperties
<1> HIDE DEF c
<1> SUFFICES ASSUME NEW i \in DOMAIN c, Tells(c[i], s)
             PROVE  Matches(Outcome(c[i]), end) \/ \E k \in 1 .. i - 1 : Tells(c[k], s)
    BY Zenon DEF Truthful, c
<1>2. CASE i <= Len(a)
    <2>1. i \in DOMAIN a /\ c[i] = a[i] /\ \A k \in 1 .. i - 1 : c[k] = a[k]
        BY <1>1, <1>2
    <2>2. QED
        BY <2>1, Zenon DEF Truthful
<1>3. CASE ~(i <= Len(a))
    <2>1. i - Len(a) \in DOMAIN b /\ c[i] = b[i - Len(a)]
        BY <1>1, <1>3
    <2>2. \A k \in 1 .. (i - Len(a)) - 1 : Len(a) + k \in 1 .. i - 1 /\ c[Len(a) + k] = b[k]
        BY <1>1, <1>3, SMTT(20)
    <2>3. QED
        BY <2>1, <2>2, Zenon DEF Truthful
<1>4. QED
    BY <1>2, <1>3, Zenon

\* A line about something else can be read.
LEMMA TruthfulTail ==
    ASSUME NEW a \in Seq(Lines), a # <<>>, NEW s, NEW end, Truthful(a, s, end), ~Tells(Head(a), s)
    PROVE  Truthful(Tail(a), s, end)
<1>1. /\ Len(a) \in Nat \ {0} /\ Head(a) = a[1] /\ DOMAIN a = 1 .. Len(a) /\ DOMAIN Tail(a) = 1 .. Len(a) - 1
      /\ \A k \in 1 .. Len(a) - 1 : Tail(a)[k] = a[k + 1]
    BY HeadTailProperties, LenProperties
<1> SUFFICES ASSUME NEW i \in 1 .. Len(a) - 1, Tells(Tail(a)[i], s)
             PROVE  Matches(Outcome(Tail(a)[i]), end) \/ \E k \in 1 .. i - 1 : Tells(Tail(a)[k], s)
    BY <1>1, Zenon DEF Truthful
<1>2. i + 1 \in DOMAIN a /\ Tail(a)[i] = a[i + 1] /\ (i + 1) - 1 = i
    BY <1>1
<1>3. Matches(Outcome(Tail(a)[i]), end) \/ \E k \in 1 .. i : Tells(a[k], s)
    BY <1>2, Zenon DEF Truthful
<1>4. ASSUME NEW k \in 1 .. i, Tells(a[k], s) PROVE \E j \in 1 .. i - 1 : Tells(Tail(a)[j], s)
    <2>1. k # 1
        BY <1>1, <1>4, Zenon
    <2>2. k - 1 \in 1 .. i - 1 /\ k - 1 \in 1 .. Len(a) - 1 /\ (k - 1) + 1 = k
        BY <1>1, <2>1
    <2>3. Tail(a)[k - 1] = a[k]
        BY <1>1, <2>2, Zenon
    <2>4. QED
        BY <1>4, <2>2, <2>3, Zenon
<1>5. QED
    BY <1>3, <1>4, Zenon

Listening == {"subscribing", "halt", "halting", "wait"}

\* The daemon is left alone by a helper, which stays subscribed until it ends.
LEMMA HelperListens ==
    ASSUME Exchange, Streams, NEW h \in Helpers, Helper(h) \/ TimesOut(h)
    PROVE  /\ UNCHANGED <<life, up, service, active, nextId, jobs>>
           /\ at[h] \in Listening /\ wire[h] # "subscribe" =>
                 listener'[h] = 0 \/ (at'[h] \in Listening /\ wire'[h] # "subscribe")
<1>0. at \in [Helpers -> Steps \cup {"off"}] /\ wire \in [Helpers -> Commands \cup {"nothing"}]
      /\ listener \in [Helpers -> Nat]
    BY Zenon DEF Exchange, Streams
<1>1. UNCHANGED <<life, up, service, active, nextId, jobs>>
    BY Zenon DEF Helper, TimesOut, Press, Sends, Send, Reads, OpenMarker, WriteMarker, ReadMarker, RemoveMarker,
           ReadEvent, serviceVars
<1>2. ASSUME NEW from, Goto(h, from, "off") PROVE listener'[h] = 0
    BY <1>0, <1>2, Zenon DEF Goto
<1> SUFFICES ASSUME at[h] \in Listening, wire[h] # "subscribe"
             PROVE  listener'[h] = 0 \/ (at'[h] \in Listening /\ wire'[h] # "subscribe")
    BY <1>1, Zenon
<1>3. ASSUME NEW r \in Requests, Press(h, r) PROVE FALSE
    BY <1>3, Zenon DEF Press, Goto, Listening
<1>4. CASE Sends(h)
    <2>1. Send(h, "halt", "stop", "halting")
        BY <1>4, Zenon DEF Sends, Send, Goto, Listening
    <2>2. CASE up
        BY <1>0, <2>1, <2>2, Zenon DEF Send, Goto, Listening
    <2>3. CASE ~up
        BY <1>2, <2>1, <2>3, Zenon DEF Send
    <2>4. QED
        BY <2>2, <2>3, Zenon
<1>5. CASE Reads(h)
    <2>1. CASE reply[h].says = "ok" /\ at[h] # "cancelling"
        BY <1>0, <1>5, <2>1, Zenon DEF Reads, AfterAnswer, Listening, Sent
    <2>2. CASE ~(reply[h].says = "ok" /\ at[h] # "cancelling")
        BY <1>2, <1>5, <2>2, Zenon DEF Reads
    <2>3. QED
        BY <2>1, <2>2, Zenon
<1>6. CASE OpenMarker(h) \/ WriteMarker(h) \/ ReadMarker(h) \/ RemoveMarker(h)
    BY <1>6, Zenon DEF OpenMarker, WriteMarker, ReadMarker, RemoveMarker, Goto, Listening
<1>7. CASE ReadEvent(h)
    <2>1. Goto(h, "wait", "off") \/ UNCHANGED at
        BY <1>7, Zenon DEF ReadEvent
    <2>2. wire' = wire
        BY <1>7, Zenon DEF ReadEvent
    <2>3. QED
        BY <1>2, <2>1, <2>2, Zenon
<1>8. CASE TimesOut(h)
    BY <1>2, <1>8, Zenon DEF TimesOut
<1>9. QED
    BY <1>3, <1>4, <1>5, <1>6, <1>7, <1>8, Zenon DEF Helper

\* What the daemon did not change about the others stays right.
LEMMA ReportSame ==
    ASSUME Reports, NEW g \in Helpers, UNCHANGED <<life, up, service, active, nextId, jobs>>,
           listener'[g] = listener[g], mine'[g] = mine[g], ended'[g] = ended[g], inbox'[g] = inbox[g],
           listener[g] # 0 => at'[g] \in Listening /\ wire'[g] # "subscribe"
    PROVE  Listens(g)' /\ Hears(g)' /\ Owns(g)' /\ Right(g)'
<1>1. Listens(g) /\ Hears(g) /\ Owns(g) /\ Right(g)
    BY Zenon DEF Reports
<1>2. Listens(g)'
    BY <1>1, Zenon DEF Listens, Listening
<1>3. Hears(g)'
    BY <1>1, Zenon DEF Hears, Past, Has
<1>4. Owns(g)'
    BY <1>1, Zenon DEF Owns, Has
<1>5. Right(g)'
    BY <1>1, Zenon DEF Right, Truthful
<1>6. QED
    BY <1>2, <1>3, <1>4, <1>5, Zenon

\* A helper that has ended, or not begun, is owed nothing.
LEMMA ReportOff ==
    ASSUME NEW g \in Helpers, life' \in Nat \ {0}, listener'[g] = 0, mine'[g] = None, inbox'[g] = <<>>
    PROVE  Listens(g)' /\ Hears(g)' /\ Owns(g)' /\ Right(g)'
<1>1. mine'[g][1] = 0 /\ 0 <= life' /\ life' # 0
    BY DEF None
<1>2. QED
    BY <1>1, Zenon DEF Listens, Hears, Owns, Right

\* Hears(g) of the next state, line by line.
LEMMA HearsLines ==
    ASSUME NEW g \in Helpers,
           up' /\ listener'[g] = life' =>
               \A k \in DOMAIN inbox'[g] : \E line : line = inbox'[g][k] /\ (Outcome(line) # "nothing" => Past(line.id)')
    PROVE  Hears(g)'
BY Zenon DEF Hears, Past, Has

\* A helper's own steps: it reads its stream in order.
LEMMA HelperReports ==
    ASSUME Exchange, Streams, Reports, NEW h \in Helpers, Helper(h) \/ TimesOut(h)
    PROVE  Reports'
<1>0. \E to : Moves(h, to)
    BY HelperMoves, Zenon
<1>1. \A g \in Helpers \ {h} : at'[g] = at[g] /\ wire'[g] = wire[g]
    BY <1>0, Zenon DEF Moves, Exchange
<1>2. /\ UNCHANGED <<life, up, service, active, nextId, jobs>>
      /\ at[h] \in Listening /\ wire[h] # "subscribe" =>
            listener'[h] = 0 \/ (at'[h] \in Listening /\ wire'[h] # "subscribe")
    BY HelperListens, Zenon
<1>3. Ids'
    BY <1>2, Zenon DEF Reports, Ids, Has, Distinct
<1>4. /\ life \in Nat \ {0} /\ inbox \in [Helpers -> Seq(Lines)] /\ listener \in [Helpers -> Nat]
      /\ mine \in [Helpers -> Nat \X (Sessions \cup {NoSession})] /\ ended \in [Helpers -> Endings]
    BY Zenon DEF Streams
<1>5. \A g \in Helpers : /\ Listens(g) /\ Hears(g) /\ Owns(g) /\ Right(g)
                         /\ listener[g] # 0 => at[g] \in Listening /\ wire[g] # "subscribe"
    BY Zenon DEF Reports, Listens, Listening
<1>6. CASE /\ listener' = [listener EXCEPT ![h] = 0] /\ inbox' = [inbox EXCEPT ![h] = <<>>]
           /\ mine' = [mine EXCEPT ![h] = None] /\ ended' = [ended EXCEPT ![h] = "open"]
    <2>1. /\ listener'[h] = 0 /\ mine'[h] = None /\ inbox'[h] = <<>> /\ life' \in Nat \ {0}
          /\ \A g \in Helpers \ {h} : /\ listener'[g] = listener[g] /\ mine'[g] = mine[g]
                                      /\ ended'[g] = ended[g] /\ inbox'[g] = inbox[g]
        BY <1>2, <1>4, <1>6, Zenon
    <2>2. QED
        BY <1>1, <1>2, <1>3, <1>5, <2>1, ReportSame, ReportOff, Zenon DEF Reports
<1>7. CASE UNCHANGED <<listener, inbox, mine, ended>>
    BY <1>1, <1>2, <1>3, <1>5, <1>7, ReportSame, Zenon DEF Reports
<1>8. CASE /\ UNCHANGED <<listener, mine, ended, at, wire>>
           /\ inbox[h] # <<>> /\ ~Final(Head(inbox[h]), mine[h])
           /\ inbox' = [inbox EXCEPT ![h] = Tail(inbox[h])]
    <2>1. /\ inbox[h] \in Seq(Lines) /\ inbox'[h] = Tail(inbox[h])
          /\ \A g \in Helpers \ {h} : inbox'[g] = inbox[g]
        BY <1>4, <1>8, Zenon
    <2>2. \A g \in Helpers \ {h} : Listens(g)' /\ Hears(g)' /\ Owns(g)' /\ Right(g)'
        BY <1>2, <1>5, <1>8, <2>1, ReportSame, Zenon
    <2>3. /\ Len(inbox[h]) \in Nat /\ DOMAIN inbox[h] = 1 .. Len(inbox[h]) /\ DOMAIN Tail(inbox[h]) = 1 .. Len(inbox[h]) - 1
          /\ \A k \in 1 .. Len(inbox[h]) - 1 : Tail(inbox[h])[k] = inbox[h][k + 1]
        BY <1>8, <2>1, HeadTailProperties, LenProperties
    <2>4. \A k \in DOMAIN inbox'[h] : \E j \in DOMAIN inbox[h] : inbox'[h][k] = inbox[h][j]
        <3>1. \A k \in 1 .. Len(inbox[h]) - 1 : k + 1 \in 1 .. Len(inbox[h])
            BY <2>3
        <3>2. QED
            BY <2>1, <2>3, <3>1, Zenon
    <2>5. Hears(h)'
        <3>1. \A s : Past(s) => Past(s)'
            BY <1>2, Zenon DEF Past, Has
        <3>2. up' /\ listener'[h] = life' => \A j \in DOMAIN inbox[h] : Outcome(inbox[h][j]) # "nothing" => Past(inbox[h][j].id)
            BY <1>2, <1>5, <1>8, Zenon DEF Hears
        <3>3. QED
            BY <2>4, <3>1, <3>2, HearsLines, Zenon
    <2>6. Right(h)'
        <3>1. ~Tells(Head(inbox[h]), mine[h][2])
            BY <1>8, Zenon DEF Final, Tells
        <3>2. QED
            BY <1>5, <1>8, <2>1, <3>1, TruthfulTail, Zenon DEF Right
    <2>7. listener[h] # 0
        BY <1>5, <1>8, Zenon DEF Listens
    <2>8. Listens(h)' /\ Owns(h)'
        BY <1>2, <1>5, <1>8, <2>7, Zenon DEF Listens, Owns, Has
    <2>9. QED
        BY <1>3, <2>2, <2>5, <2>6, <2>8, Zenon DEF Reports
<1>9. QED
    BY <1>6, <1>7, <1>8, HelperStream, Zenon

\* The daemon sends lines about sessions that are over by then, which are right
\* about the sessions of those who wait.
LEMMA BroadcastReports ==
    ASSUME Streams, Reports, UNCHANGED <<life, up, listener, at>>, NEW lines \in Seq(Lines),
           Broadcast(lines) \/ UNCHANGED inbox, Ids',
           \A s : Past(s) => Past(s)',
           \A i \in DOMAIN lines : Outcome(lines[i]) # "nothing" => Past(lines[i].id)',
           \A g \in Helpers : wire'[g] \in {wire[g], "nothing"} /\ mine'[g][1] <= life /\ Owns(g)',
           \A g \in Helpers : mine'[g][1] # 0 /\ listener[g] = mine'[g][1] => Truthful(inbox[g], mine'[g][2], ended'[g]),
           \A g \in Helpers : mine'[g][1] = life => Truthful(lines, mine'[g][2], ended'[g])
    PROVE  Reports'
<1>1. /\ inbox \in [Helpers -> Seq(Lines)] /\ life \in Nat \ {0}
      /\ \A g \in Helpers : Listens(g) /\ Hears(g) /\ listener[g] \in Nat
    BY Zenon DEF Streams, Reports
<1>2. ASSUME NEW g \in Helpers
      PROVE  /\ inbox[g] \in Seq(Lines)
             /\ inbox'[g] = inbox[g] \/ (inbox'[g] = inbox[g] \o lines /\ listener[g] = life)
    BY <1>1, Zenon DEF Broadcast
<1>3. ASSUME NEW g \in Helpers
      PROVE  \A k \in DOMAIN inbox'[g] : (\E j \in DOMAIN inbox[g] : inbox'[g][k] = inbox[g][j])
                                          \/ (\E j \in DOMAIN lines : inbox'[g][k] = lines[j])
    <2>1. CASE inbox'[g] = inbox[g]
        BY <2>1, Zenon
    <2>2. CASE inbox'[g] = inbox[g] \o lines
        <3>1. /\ Len(inbox[g]) \in Nat /\ DOMAIN inbox[g] = 1 .. Len(inbox[g])
              /\ Len(lines) \in Nat /\ DOMAIN lines = 1 .. Len(lines)
              /\ DOMAIN inbox'[g] = 1 .. Len(inbox[g]) + Len(lines)
              /\ \A k \in 1 .. Len(inbox[g]) + Len(lines) :
                    inbox'[g][k] = IF k <= Len(inbox[g]) THEN inbox[g][k] ELSE lines[k - Len(inbox[g])]
            BY <1>2, <2>2, ConcatProperties, LenProperties
        <3>2. \A n, m \in Nat : \A k \in 1 .. n + m : IF k <= n THEN k \in 1 .. n ELSE k - n \in 1 .. m
            OBVIOUS
        <3>3. QED
            BY <3>1, <3>2, Zenon
    <2>3. QED
        BY <1>2, <2>1, <2>2, Zenon
<1>4. ASSUME NEW g \in Helpers PROVE Hears(g)'
    <2>1. ASSUME up', listener'[g] = life', NEW line, \E j \in DOMAIN inbox[g] : inbox[g][j] = line, Outcome(line) # "nothing"
          PROVE  Past(line.id)'
        <3>1. Past(line.id)
            BY <1>1, <2>1, Zenon DEF Hears
        <3>2. QED
            BY <3>1, Zenon
    <2>2. ASSUME up', listener'[g] = life', NEW line, \E j \in DOMAIN lines : lines[j] = line, Outcome(line) # "nothing"
          PROVE  Past(line.id)'
        BY <2>2, Zenon
    <2>3. QED
        BY <1>3, <2>1, <2>2, HearsLines, Zenon
<1>5. ASSUME NEW g \in Helpers PROVE Right(g)'
    <2> SUFFICES ASSUME mine'[g][1] # 0, listener[g] = mine'[g][1] PROVE Truthful(inbox'[g], mine'[g][2], ended'[g])
        BY Zenon DEF Right
    <2>1. Truthful(inbox[g], mine'[g][2], ended'[g])
        BY Zenon
    <2>2. CASE inbox'[g] = inbox[g]
        BY <2>1, <2>2, Zenon
    <2>3. CASE inbox'[g] = inbox[g] \o lines /\ listener[g] = life
        BY <1>2, <2>1, <2>3, TruthfulConcat, Zenon
    <2>4. QED
        BY <1>2, <2>2, <2>3, Zenon
<1>6. ASSUME NEW g \in Helpers PROVE Listens(g)'
    <2>1. listener[g] = 0 => inbox'[g] = inbox[g]
        BY <1>1, <1>2, Zenon
    <2>2. QED
        BY <1>1, <2>1, Zenon DEF Listens
<1>7. QED
    BY <1>4, <1>5, <1>6, Zenon DEF Reports

\* A request that is refused changes nothing.
LEMMA RefusalReports ==
    ASSUME Reports, UNCHANGED <<life, up, service, active, nextId, jobs, listener, mine, ended, inbox, at>>,
           \A g \in Helpers : wire'[g] \in {wire[g], "nothing"}
    PROVE  Reports'
<1>1. Ids'
    BY Zenon DEF Reports, Ids, Has, Distinct
<1>2. \A g \in Helpers : listener[g] # 0 => at'[g] \in Listening /\ wire'[g] # "subscribe"
    BY Zenon DEF Reports, Listens, Listening
<1>3. QED
    BY <1>1, <1>2, ReportSame, Zenon DEF Reports

\* What the lines say.
LEMMA LinesSay ==
    /\ Outcome(Eof) = "nothing"
    /\ \A s : /\ Outcome(Line("transcription_queued", s)) = "nothing"
             /\ Outcome(Line("transcription_completed", s)) = "text" /\ Line("transcription_completed", s).id = s
             /\ Outcome(Line("error_occurred", s)) = "error" /\ Line("error_occurred", s).id = s
             /\ Outcome(Line("session_cancelled", s)) = "cancelled" /\ Line("session_cancelled", s).id = s
BY Zenon DEF Outcome, Eof, Line

\* The recording ends without a transcription: nobody waits for it.
LEMMA RecordingReports ==
    ASSUME Exchange, Streams, Reports, service # "Idle", NEW line \in Lines, line.id = active,
           Broadcast(<<line>>), UNCHANGED <<life, up, nextId, jobs, listener, at, mine, ended>>,
           \/ service' = "Idle"
           \/ service' = "Error" /\ active' = active,
           \A g \in Helpers : wire'[g] \in {wire[g], "nothing"}
    PROVE  Reports'
<1>1. PICK s : s = active
    BY Zenon
<1>2. Ids /\ service' # "Recording"
    BY Zenon DEF Reports
<1>3. Ids' /\ Past(s)'
    BY <1>1, <1>2, Zenon DEF Ids, Has, Distinct, Past
<1>4. \A z : Past(z) => Past(z)'
    BY <1>2, Zenon DEF Past, Has
<1>5. \A g \in Helpers : Owns(g) /\ mine'[g][1] <= life /\ Listens(g) /\ Right(g)
    BY Zenon DEF Reports, Listens
<1>6. \A g \in Helpers : Owns(g)'
    BY <1>5, Zenon DEF Owns, Has
<1>7. up
    BY Zenon DEF Exchange
<1>8. /\ <<line>> \in Seq(Lines) /\ DOMAIN <<line>> = {1} /\ <<line>>[1] = line
    OBVIOUS
<1>9. \A i \in DOMAIN <<line>> : Outcome(<<line>>[i]) # "nothing" => Past(<<line>>[i].id)'
    BY <1>1, <1>3, <1>8, Zenon
<1>10. \A g \in Helpers : mine'[g][1] = life => Truthful(<<line>>, mine'[g][2], ended'[g])
    BY <1>5, <1>7, <1>8, Zenon DEF Owns, Truthful, Tells
<1>11. \A g \in Helpers : mine'[g][1] # 0 /\ listener[g] = mine'[g][1] => Truthful(inbox[g], mine'[g][2], ended'[g])
    BY <1>5, Zenon DEF Right
<1>12. QED
    BY <1>3, <1>4, <1>5, <1>6, <1>8, <1>9, <1>10, <1>11, BroadcastReports, Zenon

\* start_recording: the next session is one nobody has heard of, and a failure to
\* start is told as that of no session.
LEMMA StartReports ==
    ASSUME Exchange, Streams, Reports, NEW h \in Helpers, HandleStart(h)
    PROVE  Reports'
<1> DEFINE failure == Line("error_occurred", NoSession)
<1>0. /\ UNCHANGED <<life, up, jobs, listener, mine, ended, at>> /\ wire' = [wire EXCEPT ![h] = "nothing"]
      /\ up /\ wire \in [Helpers -> Commands \cup {"nothing"}] /\ jobs \in Seq(Sessions)
    BY Zenon DEF HandleStart, Handled, Exchange, Streams
<1>1. \A g \in Helpers : wire'[g] \in {wire[g], "nothing"}
    BY <1>0, Zenon
<1>2. CASE UNCHANGED <<service, active, nextId, inbox>>
    BY <1>0, <1>1, <1>2, RefusalReports, Zenon
<1>3. ASSUME \/ nextId \in Sessions /\ active' = nextId /\ nextId' = nextId + 1
             \/ UNCHANGED <<service, active>> /\ nextId' \in {nextId, nextId + 1},
             service = "Idle", Broadcast(<<failure>>) \/ UNCHANGED inbox
      PROVE  Reports'
    <2>1. Ids /\ nextId \in Nat
        BY Zenon DEF Reports, Ids
    <2>2. \A s \in Sessions : s \in Nat
        BY DictationAssumption, Zenon DEF DictationAssumption
    <2>3. /\ nextId' \in Nat /\ \A s \in Nat : s < nextId => s < nextId' /\ s # nextId
          /\ active' = nextId /\ nextId' = nextId + 1 => active' < nextId'
        BY <1>3, <2>1
    <2>4. \A i \in DOMAIN jobs : jobs[i] \in Nat /\ jobs[i] < nextId
        BY <1>0, <2>1, <2>2, LenProperties DEF Ids
    <2>5. Ids'
        BY <1>0, <1>3, <2>1, <2>3, <2>4, Zenon DEF Ids, Has, Distinct
    <2>6. \A s : Past(s) => Past(s)'
        BY <1>0, <1>3, <2>2, <2>3, Zenon DEF Past, Has
    <2>7. \A g \in Helpers : Owns(g) /\ mine'[g][1] <= life /\ Listens(g) /\ Right(g)
        BY <1>0, Zenon DEF Reports, Listens
    <2>8. \A g \in Helpers : Owns(g)'
        BY <1>0, <1>3, <2>2, <2>3, <2>7, Zenon DEF Owns, Has
    <2>9. <<failure>> \in Seq(Lines) /\ \A i \in DOMAIN <<failure>> : <<failure>>[i].id = NoSession
        <3>1. failure \in Lines /\ failure.id = NoSession
            BY LineTypes, LinesSay, Zenon
        <3> HIDE DEF failure
        <3>2. QED
            BY <3>1
    <2> HIDE DEF failure
    <2>10. /\ \A i \in DOMAIN <<failure>> : Past(<<failure>>[i].id)'
           /\ \A g \in Helpers : mine'[g][1] = life => Truthful(<<failure>>, mine'[g][2], ended'[g])
        <3>1. \A i \in DOMAIN <<failure>> : <<failure>>[i].id \notin Sessions
            BY ONLY <2>9, SessionIdAssumption, Zenon DEF SessionIdAssumption
        <3>2. ASSUME NEW i \in DOMAIN <<failure>> PROVE Past(<<failure>>[i].id)'
            BY ONLY <3>1, <3>2, Zenon DEF Past
        <3>3. ASSUME NEW g \in Helpers, mine'[g][1] = life PROVE Truthful(<<failure>>, mine'[g][2], ended'[g])
            <4>1. mine'[g][2] \in Sessions
                BY <1>0, <2>7, <3>3, Zenon DEF Owns
            <4>2. QED
                BY ONLY <3>1, <4>1, Zenon DEF Truthful, Tells
        <3>4. QED
            BY ONLY <3>2, <3>3, Zenon
    <2>11. \A g \in Helpers : mine'[g][1] # 0 /\ listener[g] = mine'[g][1] => Truthful(inbox[g], mine'[g][2], ended'[g])
        BY <1>0, <2>7, Zenon DEF Right
    <2>12. QED
        BY <1>0, <1>1, <1>3, <2>5, <2>6, <2>7, <2>8, <2>9, <2>10, <2>11, BroadcastReports, Zenon
<1>4. QED
    BY <1>2, <1>3, Zenon DEF HandleStart

\* Queueing a session.
LEMMA Queues ==
    ASSUME NEW q \in Seq(Sessions), NEW s \in Sessions
    PROVE  /\ Append(q, s) \in Seq(Sessions)
           /\ \A z : Has(Append(q, s), z) <=> Has(q, z) \/ z = s
           /\ Distinct(q) /\ ~Has(q, s) => Distinct(Append(q, s))
<1> DEFINE r == Append(q, s)
<1>1. /\ r \in Seq(Sessions) /\ Len(q) \in Nat /\ DOMAIN q = 1 .. Len(q) /\ DOMAIN r = 1 .. Len(q) + 1
      /\ r[Len(q) + 1] = s /\ \A k \in 1 .. Len(q) : r[k] = q[k]
    BY AppendProperties, LenProperties
<1> HIDE DEF r
<1>2. /\ Len(q) + 1 \in 1 .. Len(q) + 1 /\ \A k \in 1 .. Len(q) : k \in 1 .. Len(q) + 1
      /\ \A k \in 1 .. Len(q) + 1 : k \in 1 .. Len(q) \/ k = Len(q) + 1
    BY <1>1
<1>3. \A z : Has(r, z) <=> Has(q, z) \/ z = s
    BY <1>1, <1>2, Zenon DEF Has
<1>4. ASSUME Distinct(q), ~Has(q, s) PROVE Distinct(r)
    <2>1. ASSUME NEW k \in 1 .. Len(q) + 1, NEW l \in 1 .. Len(q) + 1, r[k] = r[l] PROVE k = l
        BY <1>1, <1>2, <1>4, <2>1, Zenon DEF Distinct, Has
    <2>2. QED
        BY <1>1, <2>1, Zenon DEF Distinct
<1>5. QED
    BY <1>1, <1>3, <1>4, Zenon DEF r

\* stop_recording: the session becomes h's own, and nothing was said of it yet.
LEMMA StopReports ==
    ASSUME Exchange, Streams, Reports, NEW h \in Helpers, HandleStop(h)
    PROVE  Reports'
<1>0. /\ UNCHANGED <<life, up, nextId, listener, ended, at>> /\ wire' = [wire EXCEPT ![h] = "nothing"]
      /\ up /\ service = "Recording" /\ wire[h] # "nothing"
      /\ wire \in [Helpers -> Commands \cup {"nothing"}] /\ jobs \in Seq(Sessions) /\ life \in Nat \ {0}
      /\ mine \in [Helpers -> Nat \X (Sessions \cup {NoSession})]
    BY Zenon DEF HandleStop, Handled, Exchange, Streams
<1>1. \A g \in Helpers : wire'[g] \in {wire[g], "nothing"}
    BY <1>0, Zenon
<1>2. PICK s : s = active
    BY Zenon
<1>3. s \in Sessions /\ s < nextId /\ ~Has(jobs, s) /\ Ids
    BY <1>0, <1>2, Zenon DEF Reports, Ids
<1>4. \A g \in Helpers : Owns(g) /\ Hears(g) /\ mine[g][1] <= life /\ Right(g)
    BY Zenon DEF Reports, Listens
<1>5. CASE /\ service' = "Error" /\ Broadcast(<<Line("error_occurred", active)>>)
           /\ UNCHANGED <<jobs, active, mine>>
    <2>1. Line("error_occurred", active) \in Lines /\ Line("error_occurred", active).id = active
        BY <1>2, <1>3, LineTypes, LinesSay, Zenon
    <2>2. service # "Idle"
        BY <1>0, Zenon
    <2>3. QED
        BY <1>0, <1>1, <1>5, <2>1, <2>2, RecordingReports, Zenon
<1>6. CASE /\ jobs' = Append(jobs, active)
           /\ Broadcast(<<Line("transcription_queued", active)>>)
           /\ mine' = [mine EXCEPT ![h] = IF at[h] = "off" THEN None ELSE <<life, active>>]
           /\ service' = "Idle"
    <2>1. /\ jobs' \in Seq(Sessions) /\ Distinct(jobs')
          /\ \A z : Has(jobs', z) <=> Has(jobs, z) \/ z = s
        BY <1>0, <1>2, <1>3, <1>6, Queues, Zenon DEF Ids
    <2>2. \A i \in DOMAIN jobs' : jobs'[i] < nextId
        <3>1. \A z : Has(jobs, z) => z < nextId
            BY <1>3, Zenon DEF Ids, Has
        <3>2. \A i \in DOMAIN jobs' : Has(jobs', jobs'[i])
            BY Zenon DEF Has
        <3>3. QED
            BY <1>3, <2>1, <3>1, <3>2, Zenon
    <2>3. Ids'
        BY <1>0, <1>3, <1>6, <2>1, <2>2, Zenon DEF Ids
    <2>4. \A z : Past(z) => Past(z)'
        <3> SUFFICES ASSUME NEW z \in Sessions, Past(z) PROVE Past(z)'
            BY Zenon DEF Past
        <3>1. z # s /\ ~Has(jobs', z)
            BY <1>0, <1>2, <2>1, Zenon DEF Past
        <3>2. ~Has(jobs, z)'
            BY <3>1, Zenon DEF Has
        <3>3. QED
            BY <1>0, <1>6, <3>2, Zenon DEF Past
    <2>5. mine[h][1] = 0 /\ ended[h] = "open"
        BY <1>0, Zenon DEF Streams
    <2>6. /\ \A g \in Helpers \ {h} : mine'[g] = mine[g]
          /\ mine'[h] = None \/ mine'[h] = <<life, s>>
        BY <1>0, <1>2, <1>6, Zenon
    <2>7. ASSUME NEW g \in Helpers PROVE mine'[g][1] <= life /\ Owns(g)'
        <3>1. CASE g # h
            <4>1. mine'[g] = mine[g] /\ mine'[g][1] <= life
                BY <1>4, <2>6, <3>1, Zenon
            <4>2. ASSUME mine[g][1] = life
                  PROVE  /\ mine[g][2] \in Sessions /\ mine[g][2] < nextId
                         /\ ended[g] = "open" <=> Has(jobs', mine[g][2])
                <5>1. /\ mine[g][2] \in Sessions /\ mine[g][2] < nextId /\ mine[g][2] # active
                      /\ ended[g] = "open" <=> Has(jobs, mine[g][2])
                    BY <1>0, <1>4, <4>2, Zenon DEF Owns
                <5>2. QED
                    BY <1>2, <2>1, <5>1, Zenon
            <4>3. QED
                BY <1>0, <1>6, <4>1, <4>2, Zenon DEF Owns, Has
        <3>2. CASE g = h /\ mine'[h] = None
            <4>1. mine'[g][1] = 0 /\ 0 <= life /\ life' # 0
                BY <1>0, <3>2 DEF None
            <4>2. QED
                BY <4>1, Zenon DEF Owns
        <3>3. CASE g = h /\ mine'[h] = <<life, s>>
            <4>1. mine'[g][1] = life /\ mine'[g][2] = s /\ life <= life
                BY <1>0, <3>3
            <4>2. ended'[g] = "open" /\ Has(jobs', s)
                BY <1>0, <2>1, <2>5, <3>3, Zenon
            <4>3. QED
                BY <1>0, <1>3, <1>6, <4>1, <4>2, Zenon DEF Owns, Has
        <3>4. QED
            BY <2>6, <3>1, <3>2, <3>3, Zenon
    <2>8. ASSUME NEW g \in Helpers, mine'[g][1] # 0, listener[g] = mine'[g][1]
          PROVE  Truthful(inbox[g], mine'[g][2], ended'[g])
        <3>1. CASE g # h
            BY <1>0, <1>4, <2>6, <2>8, <3>1, Zenon DEF Right
        <3>2. CASE g = h
            <4>1. mine'[h] = <<life, s>>
                BY <2>6, <2>8, <3>2 DEF None
            <4>2. listener[h] = life /\ mine'[h][2] = s
                BY <2>8, <3>2, <4>1
            <4>3. \A i \in DOMAIN inbox[h] : ~Tells(inbox[h][i], s)
                BY <1>0, <1>2, <1>3, <1>4, <4>2, Zenon DEF Hears, Past, Tells
            <4>4. QED
                BY <3>2, <4>2, <4>3, Zenon DEF Truthful
        <3>3. QED
            BY <3>1, <3>2, Zenon
    <2>9. PICK line : line = Line("transcription_queued", s)
        BY Zenon
    <2>10. /\ line \in Lines /\ Outcome(line) = "nothing" /\ Broadcast(<<line>>)
        BY <1>2, <1>3, <1>6, <2>9, LineTypes, LinesSay, Zenon
    <2>11. <<line>> \in Seq(Lines) /\ DOMAIN <<line>> = {1} /\ <<line>>[1] = line
        BY <2>10
    <2>12. /\ \A i \in DOMAIN <<line>> : Outcome(<<line>>[i]) # "nothing" => Past(<<line>>[i].id)'
           /\ \A z, end : Truthful(<<line>>, z, end)
        BY <2>10, <2>11, Zenon DEF Truthful, Tells
    <2>13. QED
        BY <1>0, <1>1, <2>3, <2>4, <2>7, <2>8, <2>10, <2>11, <2>12, BroadcastReports, Zenon
<1>7. QED
    BY <1>5, <1>6, Zenon DEF HandleStop

\* The daemon handles a request.
LEMMA HandleReports ==
    ASSUME Exchange, Streams, Reports, NEW h \in Helpers, Handle(h)
    PROVE  Reports'
<1>0. /\ wire \in [Helpers -> Commands \cup {"nothing"}] /\ at \in [Helpers -> Steps \cup {"off"}]
      /\ listener \in [Helpers -> Nat] /\ life \in Nat \ {0} /\ active \in Sessions \cup {NoSession}
    BY Zenon DEF Exchange, Streams
<1>1. wire' = [wire EXCEPT ![h] = "nothing"]
    BY Zenon DEF Handle, HandleStart, HandleStop, HandleStopRefused, HandleCancel, HandleSubscribe, Handled
<1>2. \A g \in Helpers : wire'[g] \in {wire[g], "nothing"}
    BY <1>0, <1>1, Zenon
<1>3. CASE HandleStopRefused(h)
    BY <1>2, <1>3, RefusalReports, Zenon DEF HandleStopRefused, serviceVars
<1>4. CASE HandleCancel(h)
    <2>1. CASE CancelSession
        <3>1. Line("session_cancelled", active) \in Lines /\ Line("session_cancelled", active).id = active
            BY <1>0, LineTypes, LinesSay, Zenon
        <3>2. QED
            BY <1>2, <1>4, <2>1, <3>1, RecordingReports, Zenon DEF HandleCancel, CancelSession
    <2>2. CASE UNCHANGED <<inbox, serviceVars>>
        BY <1>2, <1>4, <2>2, RefusalReports, Zenon DEF HandleCancel, serviceVars
    <2>3. QED
        BY <1>4, <2>1, <2>2, Zenon DEF HandleCancel
<1>5. CASE HandleSubscribe(h)
    <2>1. /\ UNCHANGED <<life, up, service, active, nextId, jobs, inbox, mine, ended, at>>
          /\ listener' = [listener EXCEPT ![h] = IF at[h] = "off" THEN 0 ELSE life]
          /\ wire[h] = "subscribe"
        BY <1>5, Zenon DEF HandleSubscribe, serviceVars
    <2>2. Ids'
        BY <2>1, Zenon DEF Reports, Ids, Has, Distinct
    <2>3. \A g \in Helpers \ {h} : listener'[g] = listener[g] /\ (listener[g] # 0 => at'[g] \in Listening /\ wire'[g] # "subscribe")
        BY <1>0, <1>2, <2>1, Zenon DEF Reports, Listens, Listening
    <2>4. \A g \in Helpers \ {h} : Listens(g)' /\ Hears(g)' /\ Owns(g)' /\ Right(g)'
        BY <2>1, <2>3, ReportSame, Zenon
    <2>5. inbox[h] = <<>> /\ mine[h][1] = 0 /\ at[h] \in {"subscribing", "off"}
        <3>1. mine[h][1] = 0
            BY <2>1, Zenon DEF Streams
        <3>2. at[h] = Waits("subscribe") \/ at[h] = "off"
            BY <2>1, Zenon DEF Exchange
        <3>3. inbox[h] = <<>>
            BY <2>1, Zenon DEF Reports, Listens
        <3>4. QED
            BY <3>1, <3>2, <3>3, Zenon DEF Waits
    <2>6. Listens(h)' /\ Hears(h)' /\ Owns(h)' /\ Right(h)'
        <3>1. /\ inbox'[h] = <<>> /\ mine'[h][1] = 0 /\ life' = life /\ wire'[h] = "nothing"
              /\ listener'[h] = 0 \/ (listener'[h] = life /\ at'[h] = "subscribing")
            BY <1>0, <1>1, <2>1, <2>5, Zenon
        <3>2. Hears(h)' /\ Owns(h)' /\ Right(h)'
            BY <1>0, <3>1 DEF Hears, Owns, Right
        <3>3. Listens(h)'
            BY <1>0, <3>1 DEF Listens
        <3>4. QED
            BY <3>2, <3>3, Zenon
    <2>7. QED
        BY <2>2, <2>4, <2>6, Zenon DEF Reports
<1>6. QED
    BY <1>3, <1>4, <1>5, StartReports, StopReports, Zenon DEF Handle

\* A queued session ends, and the daemon tells so in the same step.
LEMMA ConcludesReports ==
    ASSUME Streams, Reports, up, NEW s, Has(jobs, s), jobs' \in Seq(Sessions), Distinct(jobs'),
           \A z : Has(jobs', z) <=> Has(jobs, z) /\ z # s,
           NEW end, end # "open", Concludes(s, end), NEW lines \in Seq(Lines), Broadcast(lines),
           \A i \in DOMAIN lines : lines[i].id = s, Truthful(lines, s, end),
           UNCHANGED <<life, up, service, active, nextId, listener, mine, at, wire>>
    PROVE  Reports'
<1>0. /\ Ids /\ jobs \in Seq(Sessions) /\ life \in Nat \ {0}
      /\ mine \in [Helpers -> Nat \X (Sessions \cup {NoSession})]
      /\ \A g \in Helpers : Owns(g) /\ Hears(g) /\ mine[g][1] <= life /\ Right(g)
    BY Zenon DEF Reports, Streams, Listens
<1>1. \A z : Has(jobs, z) => z < nextId /\ z \in Sessions
    <2>1. \A i \in DOMAIN jobs : jobs[i] \in Sessions
        BY <1>0, LenProperties
    <2>2. QED
        BY <1>0, <2>1, Zenon DEF Ids, Has
<1>2. \A i \in DOMAIN jobs' : Has(jobs', jobs'[i])
    BY Zenon DEF Has
<1>3. Ids'
    BY <1>0, <1>1, <1>2, Zenon DEF Ids, Has
<1>4. \A z : Past(z) => Past(z)'
    BY Zenon DEF Past, Has
<1>5. Past(s)'
    <2>1. ~(service = "Recording" /\ s = active)
        BY <1>0, Zenon DEF Ids
    <2>2. QED
        BY <1>1, <2>1, Zenon DEF Past, Has
<1>6. ASSUME NEW g \in Helpers
      PROVE  /\ mine[g] = <<life, s>> <=> mine[g][1] = life /\ mine[g][2] = s
             /\ ended'[g] = IF mine[g] = <<life, s>> THEN end ELSE ended[g]
    BY <1>0 DEF Concludes
<1>7. ASSUME NEW g \in Helpers PROVE Owns(g)'
    <2> SUFFICES ASSUME mine[g][1] = life
                 PROVE  /\ mine[g][2] \in Sessions /\ mine[g][2] < nextId
                        /\ service # "Idle" => mine[g][2] # active
                        /\ ended'[g] = "open" <=> Has(jobs', mine[g][2])
        BY Zenon DEF Owns, Has
    <2>1. /\ mine[g][2] \in Sessions /\ mine[g][2] < nextId
          /\ service # "Idle" => mine[g][2] # active
          /\ ended[g] = "open" <=> Has(jobs, mine[g][2])
        BY <1>0, Zenon DEF Owns
    <2>2. ended'[g] = "open" <=> Has(jobs', mine[g][2])
        BY <1>6, <2>1, Zenon
    <2>3. QED
        BY <2>1, <2>2, Zenon
<1>8. ASSUME NEW g \in Helpers, mine[g][1] # 0, listener[g] = mine[g][1]
      PROVE  Truthful(inbox[g], mine[g][2], ended'[g])
    <2>1. CASE mine[g] = <<life, s>>
        <3>1. listener[g] = life /\ mine[g][2] = s
            BY <1>6, <1>8, <2>1, Zenon
        <3>2. \A i \in DOMAIN inbox[g] : ~Tells(inbox[g][i], s)
            BY <1>0, <1>1, <3>1, Zenon DEF Hears, Past, Tells
        <3>3. QED
            BY <3>1, <3>2, Zenon DEF Truthful
    <2>2. CASE mine[g] # <<life, s>>
        BY <1>0, <1>6, <1>8, <2>2, Zenon DEF Right
    <2>3. QED
        BY <2>1, <2>2, Zenon
<1>9. ASSUME NEW g \in Helpers, mine[g][1] = life PROVE Truthful(lines, mine[g][2], ended'[g])
    <2>1. CASE mine[g][2] = s
        BY <1>6, <1>9, <2>1, Zenon
    <2>2. CASE mine[g][2] # s
        BY <2>2, Zenon DEF Truthful, Tells
    <2>3. QED
        BY <2>1, <2>2, Zenon
<1>10. /\ \A i \in DOMAIN lines : Outcome(lines[i]) # "nothing" => Past(lines[i].id)'
       /\ \A g \in Helpers : wire'[g] \in {wire[g], "nothing"} /\ mine'[g] = mine[g] /\ mine'[g][1] <= life
    BY <1>0, <1>5, Zenon
<1>11. QED
    BY <1>3, <1>4, <1>7, <1>8, <1>9, <1>10, BroadcastReports, Zenon

\* A transcription ends: a failed copy is told before the transcript.
LEMMA FinishReports ==
    ASSUME Streams, Reports, NEW end \in {"text", "uncopied", "failed"}, Finish(end)
    PROVE  Reports'
<1>0. /\ jobs \in Seq(Sessions) /\ Distinct(jobs) /\ jobs # <<>> /\ up /\ jobs' = Tail(jobs)
      /\ UNCHANGED <<life, up, service, active, nextId, listener, mine, at, wire>>
    BY Zenon DEF Streams, Reports, Ids, Finish
<1>1. PICK s : s = Head(jobs)
    BY Zenon
<1> DEFINE lines == IF end = "failed" THEN <<Line("error_occurred", s)>> ELSE Completed(s, end = "text")
<1>2. Concludes(s, end) /\ Broadcast(lines)
    BY <1>1, Zenon DEF Finish
<1>3. /\ Tail(jobs) \in Seq(Sessions) /\ Len(jobs) \in Nat \ {0} /\ Len(Tail(jobs)) = Len(jobs) - 1 /\ s = jobs[1]
      /\ \A k \in 1 .. Len(Tail(jobs)) : Tail(jobs)[k] = jobs[k + 1]
      /\ DOMAIN jobs = 1 .. Len(jobs)
    BY <1>0, <1>1, HeadTailProperties, LenProperties
<1>4. /\ 1 \in 1 .. Len(jobs) /\ s \in Sessions
      /\ \A k \in 1 .. Len(Tail(jobs)) : Tail(jobs)[k] = IF k < 1 THEN jobs[k] ELSE jobs[k + 1]
    BY <1>0, <1>3
<1>5. /\ Distinct(jobs') /\ jobs' \in Seq(Sessions)
      /\ \A z : Has(jobs', z) <=> Has(jobs, z) /\ z # s
    BY <1>0, <1>3, <1>4, Without, Zenon
<1>6. Has(jobs, s)
    BY <1>3, <1>4, Zenon DEF Has
<1>7. PICK bad, good : bad = Line("error_occurred", s) /\ good = Line("transcription_completed", s)
    BY Zenon
<1>8. /\ bad \in Lines /\ bad.id = s /\ Outcome(bad) = "error"
      /\ good \in Lines /\ good.id = s /\ Outcome(good) = "text"
    BY <1>4, <1>7, LineTypes, LinesSay, Zenon
<1>9. lines \in Seq(Lines) /\ (\A i \in DOMAIN lines : lines[i].id = s) /\ Truthful(lines, s, end)
    <2>1. CASE end = "failed"
        <3>1. lines = <<bad>>
            BY <1>7, <2>1, Zenon
        <3>2. <<bad>> \in Seq(Lines) /\ DOMAIN <<bad>> = {1} /\ <<bad>>[1] = bad
            BY <1>8
        <3>3. Matches("error", end) /\ Truthful(<<bad>>, s, end)
            BY <1>8, <2>1, <3>2, Zenon DEF Truthful, Matches
        <3>4. QED
            BY <1>8, <3>1, <3>2, <3>3, Zenon
    <2>2. CASE end = "text"
        <3>1. lines = <<good>>
            BY <1>7, <2>2, Zenon DEF Completed
        <3>2. <<good>> \in Seq(Lines) /\ DOMAIN <<good>> = {1} /\ <<good>>[1] = good
            BY <1>8
        <3>3. Truthful(<<good>>, s, end)
            BY <1>8, <2>2, <3>2, Zenon DEF Truthful, Matches
        <3>4. QED
            BY <1>8, <3>1, <3>2, <3>3, Zenon
    <2>3. CASE end = "uncopied"
        <3>1. lines = <<bad, good>>
            BY <1>7, <2>3, Zenon DEF Completed
        <3>2. <<bad, good>> \in Seq(Lines) /\ DOMAIN <<bad, good>> = {1, 2} /\ <<bad, good>>[1] = bad /\ <<bad, good>>[2] = good
            BY <1>8
        <3>3. Tells(bad, s) /\ Matches(Outcome(bad), end) /\ 1 \in 1 .. 2 - 1
            BY <1>8, <2>3 DEF Tells, Matches
        <3>4. Truthful(<<bad, good>>, s, end)
            BY ONLY <3>2, <3>3, Zenon DEF Truthful
        <3>5. QED
            BY <1>8, <3>1, <3>2, <3>4, Zenon
    <2>4. QED
        BY <2>1, <2>2, <2>3, Zenon
<1> HIDE DEF lines
<1>10. end # "open"
    BY Zenon
<1>11. QED
    BY <1>0, <1>2, <1>5, <1>6, <1>9, <1>10, ConcludesReports, Zenon

\* Another client cancels the recording or a job.
LEMMA CancelReports ==
    ASSUME Exchange, Streams, Reports, ClientCancels
    PROVE  Reports'
<1>0. /\ jobs \in Seq(Sessions) /\ Distinct(jobs) /\ up /\ active \in Sessions \cup {NoSession}
      /\ UNCHANGED <<listener, mine, at, wire>>
    BY Zenon DEF Exchange, Streams, Reports, Ids, ClientCancels
<1>1. CASE CancelSession /\ UNCHANGED ended
    <2>1. Line("session_cancelled", active) \in Lines /\ Line("session_cancelled", active).id = active
        BY <1>0, LineTypes, LinesSay, Zenon
    <2>2. \A g \in Helpers : wire'[g] \in {wire[g], "nothing"}
        BY <1>0, Zenon
    <2>3. QED
        BY <1>0, <1>1, <2>1, <2>2, RecordingReports, Zenon DEF CancelSession
<1>2. ASSUME NEW i \in DOMAIN jobs,
             jobs' = SubSeq(jobs, 1, i - 1) \o SubSeq(jobs, i + 1, Len(jobs)),
             Concludes(jobs[i], "cancelled"), Broadcast(<<Line("session_cancelled", jobs[i])>>),
             UNCHANGED <<life, up, service, active, nextId>>
      PROVE  Reports'
    <2>1. PICK s : s = jobs[i]
        BY Zenon
    <2>2. Len(jobs) \in Nat /\ i \in 1 .. Len(jobs) /\ s \in Sessions
        BY <1>0, <2>1, LenProperties, Zenon
    <2> DEFINE front == SubSeq(jobs, 1, i - 1)
               back  == SubSeq(jobs, i + 1, Len(jobs))
    <2>3. /\ front \in Seq(Sessions) /\ Len(front) = i - 1 /\ \A k \in 1 .. i - 1 : front[k] = jobs[k]
          /\ back \in Seq(Sessions) /\ Len(back) = Len(jobs) - i /\ \A k \in 1 .. Len(jobs) - i : back[k] = jobs[i + k]
        BY <1>0, <2>2, SMTT(20)
    <2> HIDE DEF front, back
    <2>4. PICK r : r = front \o back
        BY Zenon
    <2>5. /\ r \in Seq(Sessions) /\ Len(r) = Len(jobs) - 1
          /\ \A k \in 1 .. Len(r) : r[k] = IF k < i THEN jobs[k] ELSE jobs[k + 1]
        <3>1. /\ r \in Seq(Sessions) /\ Len(r) = Len(front) + Len(back)
              /\ \A k \in 1 .. Len(front) + Len(back) : r[k] = IF k <= Len(front) THEN front[k] ELSE back[k - Len(front)]
            BY <2>3, <2>4, ConcatProperties, Zenon
        <3>2. Len(r) = Len(jobs) - 1 /\ Len(front) + Len(back) = Len(jobs) - 1
            BY ONLY <2>2, <2>3, <3>1
        <3>3. ASSUME NEW k \in 1 .. Len(jobs) - 1 PROVE r[k] = IF k < i THEN jobs[k] ELSE jobs[k + 1]
            <4>1. r[k] = IF k <= i - 1 THEN front[k] ELSE back[k - (i - 1)]
                BY <2>3, <3>1, <3>2, Zenon
            <4>2. CASE k < i
                <5>1. k <= i - 1 /\ k \in 1 .. i - 1
                    BY ONLY <2>2, <4>2, k \in 1 .. Len(jobs) - 1
                <5>2. QED
                    BY <2>3, <4>1, <4>2, <5>1, Zenon
            <4>3. CASE ~(k < i)
                <5>1. ~(k <= i - 1) /\ k - (i - 1) \in 1 .. Len(jobs) - i /\ i + (k - (i - 1)) = k + 1
                    BY ONLY <2>2, <4>3, k \in 1 .. Len(jobs) - 1
                <5>2. back[k - (i - 1)] = jobs[k + 1]
                    BY <2>3, <5>1, Zenon
                <5>3. QED
                    BY <4>1, <4>3, <5>1, <5>2, Zenon
            <4>4. QED
                BY <4>2, <4>3, Zenon
        <3>4. QED
            BY <3>1, <3>2, <3>3, Zenon
    <2>6. jobs' = r
        BY <1>2, <2>4, Zenon DEF front, back
    <2>7. /\ Distinct(jobs') /\ jobs' \in Seq(Sessions)
          /\ \A z : Has(jobs', z) <=> Has(jobs, z) /\ z # s
        BY <1>0, <2>1, <2>2, <2>5, <2>6, Without, ZenonT(30)
    <2>8. PICK line : line = Line("session_cancelled", s)
        BY Zenon
    <2>9. line \in Lines /\ line.id = s /\ Outcome(line) = "cancelled" /\ Broadcast(<<line>>) /\ Concludes(s, "cancelled")
        BY <1>2, <2>1, <2>2, <2>8, LineTypes, LinesSay, Zenon
    <2>10. <<line>> \in Seq(Lines) /\ DOMAIN <<line>> = {1} /\ <<line>>[1] = line
        BY <2>9
    <2>11. Truthful(<<line>>, s, "cancelled")
        BY <2>9, <2>10, Zenon DEF Truthful, Matches
    <2>12. Has(jobs, s) /\ "cancelled" # "open" /\ \A k \in DOMAIN <<line>> : <<line>>[k].id = s
        BY <1>2, <2>1, <2>9, <2>10, Zenon DEF Has
    <2>13. QED
        BY <1>0, <1>2, <2>7, <2>9, <2>10, <2>11, <2>12, ConcludesReports, Zenon
<1>3. QED
    BY <1>1, <1>2, Zenon DEF ClientCancels

\* An orderly end reports the jobs as failed, to those whose stream is flushed; the
\* others see the end of the stream.
LEMMA ExitReports ==
    ASSUME Exchange, Streams, Reports, NEW orderly \in BOOLEAN, NEW flushed \in SUBSET Helpers, Exit(orderly, flushed)
    PROVE  Reports'
<1> DEFINE dropped == [i \in DOMAIN jobs |-> Line("error_occurred", jobs[i])]
           first == IF service = "Idle" THEN <<>> ELSE <<Line("session_cancelled", active)>>
           last == IF ~orderly THEN <<>> ELSE first \o dropped
           about(line) == \/ Outcome(line) = "nothing"
                          \/ service # "Idle" /\ line.id = active
                          \/ Has(jobs, line.id) /\ Outcome(line) = "error"
<1>0. /\ active \in Sessions \cup {NoSession} /\ jobs \in Seq(Sessions) /\ life \in Nat \ {0}
      /\ inbox \in [Helpers -> Seq(Lines)] /\ ended \in [Helpers -> Endings]
      /\ \A g \in Helpers : Listens(g) /\ Hears(g) /\ Owns(g) /\ Right(g)
    BY Zenon DEF Exchange, Streams, Reports
<1>1. /\ up /\ up' = FALSE /\ UNCHANGED <<at, listener, mine, life>>
      /\ service' = "Idle" /\ jobs' = <<>> /\ nextId' = 1
      /\ wire' = [g \in Helpers |-> "nothing"]
      /\ inbox' = [g \in Helpers |->
                     IF listener[g] # life THEN inbox[g]
                     ELSE IF g \in flushed THEN inbox[g] \o Append(last, Eof) ELSE <<Eof>>]
      /\ ended' = [g \in Helpers |-> IF mine[g][1] = life /\ ended[g] = "open" THEN "failed" ELSE ended[g]]
    BY Zenon DEF Exit
<1>2. last \in Seq(Lines) /\ \A k \in DOMAIN last : about(last[k])
    <2>1. Len(jobs) \in Nat /\ DOMAIN jobs = 1 .. Len(jobs) /\ \A i \in DOMAIN jobs : jobs[i] \in Sessions
        BY <1>0, LenProperties
    <2>2. \A i \in 1 .. Len(jobs) : Line("error_occurred", jobs[i]) \in Lines /\ about(Line("error_occurred", jobs[i]))
        BY <2>1, LineTypes, LinesSay, Zenon DEF Has
    <2>3. /\ dropped \in [1 .. Len(jobs) -> Lines]
          /\ \A k \in 1 .. Len(jobs) : about(dropped[k])
        BY <2>1, <2>2, Zenon
    <2>4. dropped \in Seq(Lines) /\ DOMAIN dropped = 1 .. Len(dropped) /\ Len(dropped) \in Nat /\ Len(dropped) = Len(jobs)
        <3>1. dropped \in Seq(Lines)
            BY <2>1, <2>3, SeqDef
        <3>2. DOMAIN dropped = 1 .. Len(jobs)
            BY <2>1, Zenon
        <3>3. QED
            BY <2>1, <3>1, <3>2, LenProperties
    <2>5. first \in Seq(Lines) /\ Len(first) \in Nat /\ \A k \in 1 .. Len(first) : about(first[k])
        <3>1. CASE service = "Idle"
            BY <3>1
        <3>2. CASE service # "Idle"
            <4>1. PICK line : line = Line("session_cancelled", active)
                BY Zenon
            <4>2. line \in Lines /\ about(line)
                BY <1>0, <3>2, <4>1, LineTypes, LinesSay, Zenon
            <4>3. first = <<line>>
                BY <3>2, <4>1, Zenon
            <4>4. <<line>> \in Seq(Lines) /\ Len(<<line>>) = 1 /\ <<line>>[1] = line /\ \A k \in 1 .. 1 : k = 1
                BY <4>2
            <4>5. QED
                BY <4>2, <4>3, <4>4, Zenon
        <3>3. QED
            BY <3>1, <3>2, Zenon
    <2> HIDE DEF first, dropped, about
    <2>6. CASE orderly
        <3>1. last = first \o dropped
            BY <2>6, Zenon
        <3>2. /\ first \o dropped \in Seq(Lines) /\ Len(first \o dropped) = Len(first) + Len(dropped)
              /\ \A k \in 1 .. Len(first) + Len(dropped) :
                    (first \o dropped)[k] = IF k <= Len(first) THEN first[k] ELSE dropped[k - Len(first)]
            BY <2>4, <2>5, ConcatProperties, Zenon
        <3>3. DOMAIN (first \o dropped) = 1 .. Len(first) + Len(dropped)
            BY <3>2, LenProperties, Zenon
        <3>4. \A n, m \in Nat : \A k \in 1 .. n + m : IF k <= n THEN k \in 1 .. n ELSE k - n \in 1 .. m
            OBVIOUS
        <3>5. QED
            BY <2>3, <2>4, <2>5, <3>1, <3>2, <3>3, <3>4, Zenon
    <2>7. CASE ~orderly
        BY <2>7
    <2>8. QED
        BY <2>6, <2>7, Zenon
<1> HIDE DEF last, about
<1>3. /\ Append(last, Eof) \in Seq(Lines)
      /\ \A k \in DOMAIN Append(last, Eof) : about(Append(last, Eof)[k])
    <2>1. about(Eof) /\ Eof \in Lines
        BY LinesSay, LineTypes, Zenon DEF about
    <2>2. /\ Append(last, Eof) \in Seq(Lines) /\ Len(last) \in Nat /\ DOMAIN last = 1 .. Len(last)
          /\ DOMAIN Append(last, Eof) = 1 .. Len(last) + 1
          /\ \A k \in 1 .. Len(last) : Append(last, Eof)[k] = last[k]
          /\ Append(last, Eof)[Len(last) + 1] = Eof
        BY <1>2, <2>1, AppendProperties, LenProperties
    <2>3. \A k \in 1 .. Len(last) + 1 : k \in 1 .. Len(last) \/ k = Len(last) + 1
        BY <2>2
    <2>4. QED
        BY <1>2, <2>1, <2>2, <2>3, Zenon
<1>4. Ids'
    BY <1>1 DEF Ids, Has, Distinct
<1>5. ASSUME NEW g \in Helpers PROVE Listens(g)' /\ Hears(g)' /\ Owns(g)'
    <2>1. listener'[g] = 0 => inbox'[g] = inbox[g]
        BY <1>0, <1>1, Zenon
    <2>2. Hears(g)' /\ Owns(g)'
        BY <1>1, Zenon DEF Hears, Owns
    <2>3. wire'[g] # "subscribe"
        BY <1>1, Zenon
    <2>4. QED
        BY <1>0, <1>1, <2>1, <2>2, <2>3, Zenon DEF Listens
<1>6. ASSUME NEW g \in Helpers PROVE Right(g)'
    <2> SUFFICES ASSUME mine[g][1] # 0, listener[g] = mine[g][1] PROVE Truthful(inbox'[g], mine[g][2], ended'[g])
        BY <1>1, Zenon DEF Right
    <2>1. Truthful(inbox[g], mine[g][2], ended[g]) /\ inbox[g] \in Seq(Lines)
        BY <1>0, Zenon DEF Right
    <2>2. CASE listener[g] # life
        <3>1. inbox'[g] = inbox[g] /\ ended'[g] = ended[g]
            BY <1>1, <2>2, Zenon
        <3>2. QED
            BY <2>1, <3>1, Zenon
    <2>3. CASE listener[g] = life /\ g \notin flushed
        <3>1. inbox'[g] = <<Eof>>
            BY <1>1, <2>3, Zenon
        <3>2. DOMAIN <<Eof>> = {1} /\ <<Eof>>[1] = Eof
            OBVIOUS
        <3>3. QED
            BY <3>1, <3>2, LinesSay, ZenonT(30) DEF Truthful, Tells
    <2>4. CASE listener[g] = life /\ g \in flushed
        <3>1. inbox'[g] = inbox[g] \o Append(last, Eof)
            BY <1>1, <2>4, Zenon
        <3>2. /\ service # "Idle" => mine[g][2] # active
              /\ ended[g] = "open" <=> Has(jobs, mine[g][2])
            BY <1>0, <1>1, <2>4, Zenon DEF Owns
        <3>3. \A i \in DOMAIN inbox[g] : Outcome(inbox[g][i]) # "nothing" => ~Has(jobs, inbox[g][i].id)
            <4>1. \A z : Has(jobs, z) => z \in Sessions
                BY DEF Has, Streams
            <4>2. QED
                BY <1>0, <1>1, <2>4, <4>1, Zenon DEF Hears, Past
        <3>4. CASE ended[g] = "open"
            <4>1. ended'[g] = "failed" /\ Matches("error", "failed")
                BY <1>1, <2>4, <3>4, Zenon DEF Matches
            <4>2. Truthful(inbox[g], mine[g][2], "failed")
                BY <3>2, <3>3, <3>4, Zenon DEF Truthful, Tells
            <4>3. Truthful(Append(last, Eof), mine[g][2], "failed")
                BY <1>3, <3>2, <4>1, Zenon DEF Truthful, Tells, about
            <4>4. QED
                BY <1>3, <2>1, <3>1, <4>1, <4>2, <4>3, TruthfulConcat, Zenon
        <3>5. CASE ended[g] # "open"
            <4>1. ended'[g] = ended[g]
                BY <1>1, <3>5, Zenon
            <4>2. Truthful(Append(last, Eof), mine[g][2], ended[g])
                BY <1>3, <3>2, <3>5, Zenon DEF Truthful, Tells, about
            <4>3. QED
                BY <1>3, <2>1, <3>1, <4>1, <4>2, TruthfulConcat, Zenon
        <3>6. QED
            BY <3>4, <3>5, Zenon
    <2>5. QED
        BY <2>2, <2>3, <2>4, Zenon
<1>7. QED
    BY <1>4, <1>5, <1>6, Zenon DEF Reports

\* A new daemon has told nobody anything.
LEMMA AnewReports ==
    ASSUME Exchange, Streams, Reports, Start
    PROVE  Reports'
<1>0. /\ ~up /\ life' = life + 1 /\ UNCHANGED <<service, active, nextId, jobs, listener, mine, inbox, ended, at, wire>>
      /\ life \in Nat \ {0} /\ listener \in [Helpers -> Nat]
      /\ mine \in [Helpers -> Nat \X (Sessions \cup {NoSession})]
    BY Zenon DEF Start, Streams, helperVars
<1>1. Ids'
    BY <1>0, Zenon DEF Reports, Ids, Has, Distinct
<1>2. ASSUME NEW g \in Helpers PROVE Listens(g)' /\ Hears(g)' /\ Owns(g)' /\ Right(g)'
    <2>1. Listens(g) /\ Right(g) /\ listener[g] \in Nat /\ mine[g][1] \in Nat
        BY <1>0, Zenon DEF Reports
    <2>2. listener[g] <= life /\ mine[g][1] <= life
        BY <2>1, Zenon DEF Listens
    <2>3. listener[g] <= life + 1 /\ mine[g][1] <= life + 1 /\ listener[g] # life + 1 /\ mine[g][1] # life + 1
        BY ONLY <1>0, <2>1, <2>2
    <2>4. Listens(g)'
        BY <1>0, <2>1, <2>3, Zenon DEF Listens
    <2>5. Hears(g)' /\ Owns(g)'
        BY <1>0, <2>3, Zenon DEF Hears, Owns
    <2>6. Right(g)'
        BY <1>0, <2>1, Zenon DEF Right, Truthful
    <2>7. QED
        BY <2>4, <2>5, <2>6, Zenon
<1>3. QED
    BY <1>1, <1>2, Zenon DEF Reports

\* Every step keeps what the streams say true.
LEMMA ReportsStep == Exchange /\ Streams /\ Reports /\ [DictationNext]_dictationVars => Reports'
<1> SUFFICES ASSUME Exchange, Streams, Reports, [DictationNext]_dictationVars PROVE Reports'
    BY Zenon
<1>1. CASE UNCHANGED dictationVars
    <2>1. /\ UNCHANGED <<life, up, service, active, nextId, jobs, listener, mine, ended, inbox, at>>
          /\ \A g \in Helpers : wire'[g] \in {wire[g], "nothing"}
        BY <1>1, Zenon DEF dictationVars, helperVars, serviceVars
    <2>2. QED
        BY <2>1, RefusalReports, Zenon
<1>2. QED
    BY <1>1, HelperReports, HandleReports, FinishReports, CancelReports, ExitReports, AnewReports, Zenon
       DEF DictationNext, Quiet, Transcribe

\* A helper reports how its own session ended, and never a text as copied that was
\* not; unless the daemon was replaced between its listener and its stop.
THEOREM ReportIsOwnAlways == DictationSpec => ReportIsOwn
<1> DEFINE Report == \A h \in Helpers :
              ReadEvent(h) /\ at'[h] = "off" /\ listener[h] = mine[h][1] =>
                  LET says == Outcome(Head(inbox[h]))
                  IN  /\ says = "text" => ended[h] = "text"
                      /\ says = "error" => ended[h] \in {"failed", "uncopied"}
                      /\ says = "cancelled" => ended[h] = "cancelled"
<1>1. Exchange /\ Streams /\ Reports /\ [DictationNext]_dictationVars => [Report]_dictationVars
    <2> SUFFICES ASSUME Exchange, Streams, Reports, NEW h \in Helpers,
                        ReadEvent(h), at'[h] = "off", listener[h] = mine[h][1]
                 PROVE  Matches(Outcome(Head(inbox[h])), ended[h])
        BY Zenon DEF Matches
    <2>1. at[h] = "wait" /\ inbox[h] # <<>> /\ Listens(h) /\ Right(h) /\ inbox[h] \in Seq(Lines)
        BY Zenon DEF ReadEvent, Reports, Streams
    <2>2. mine[h][1] # 0
        BY <2>1, Zenon DEF Listens
    <2>3. 1 \in DOMAIN inbox[h] /\ Head(inbox[h]) = inbox[h][1]
        BY <2>1, HeadTailProperties, LenProperties
    <2>4. Head(inbox[h]) = Eof \/ Tells(Head(inbox[h]), mine[h][2])
        <3>1. CASE ~(Head(inbox[h]) = Eof \/ (Head(inbox[h]).id = mine[h][2] /\ Outcome(Head(inbox[h])) # "nothing"))
            <4>1. at' = at
                BY <3>1, Zenon DEF ReadEvent
            <4>2. QED
                BY <2>1, <4>1, Zenon
        <3>2. QED
            BY <3>1, Zenon DEF Tells
    <2>5. CASE Head(inbox[h]) = Eof
        BY <2>5, LinesSay, Zenon DEF Matches
    <2>6. CASE Tells(Head(inbox[h]), mine[h][2])
        <3>1. ~\E k \in 1 .. 1 - 1 : Tells(inbox[h][k], mine[h][2])
            OBVIOUS
        <3>2. QED
            BY <2>1, <2>2, <2>3, <2>6, <3>1, Zenon DEF Right, Truthful
    <2>7. QED
        BY <2>4, <2>5, <2>6, Zenon
<1>2. QED
    BY <1>1, ExchangeStart, StreamsStart, ReportsStart, ExchangeStep, StreamsStep, ReportsStep, PTL
       DEF DictationSpec, ReportIsOwn

-----------------------------------------------------------------------------
(* The types of the fields *)

\* What the invariants above do not bound.
Fields ==
    /\ detached \subseteq Helpers
    /\ presses \in 0 .. MaxPresses
    /\ life \in Lives
    /\ service \in {"Idle", "Recording", "Error"}
    /\ mine \in [Helpers -> (Lives \X Sessions) \cup {None}]

\* How a step may change them.
Changes ==
    /\ detached' \subseteq detached \cup Helpers
    /\ presses' = presses \/ (presses < MaxPresses /\ presses' = presses + 1)
    /\ life' = life \/ (life < MaxLives /\ life' = life + 1)
    /\ service' \in {service, "Idle", "Recording", "Error"}
    /\ \/ mine' = mine
       \/ \E h \in Helpers, m \in (Lives \X Sessions) \cup {None} : mine' = [mine EXCEPT ![h] = m]

\* They keep their types under such changes.
LEMMA ChangesKeepFields == Fields /\ Changes => Fields'
<1> SUFFICES ASSUME Fields, Changes PROVE Fields'
    BY Zenon
<1>1. detached' \subseteq Helpers /\ service' \in {"Idle", "Recording", "Error"}
    BY Zenon DEF Fields, Changes
<1>2. mine' \in [Helpers -> (Lives \X Sessions) \cup {None}]
    BY Zenon DEF Fields, Changes
<1>3. presses' \in 0 .. MaxPresses
    BY DictationAssumption DEF DictationAssumption, Fields, Changes
<1>4. life' \in Lives
    BY DictationAssumption DEF DictationAssumption, Fields, Changes, Lives
<1>5. QED
    BY <1>1, <1>2, <1>3, <1>4, Zenon DEF Fields

\* A helper's own step at most forgets its session.
LEMMA HelperChanges ==
    ASSUME NEW h \in Helpers, Helper(h) \/ TimesOut(h)
    PROVE  Changes
<1> DEFINE Forgets == mine' = mine \/ mine' = [mine EXCEPT ![h] = None]
<1>1. \A from, to : Goto(h, from, to) => Forgets
    BY Zenon DEF Goto
<1> HIDE DEF Forgets
<1>2. ASSUME NEW r \in Requests, Press(h, r)
      PROVE  Forgets /\ presses < MaxPresses /\ presses' = presses + 1 /\ UNCHANGED <<detached, life, service>>
    BY <1>1, <1>2, Zenon DEF Press, serviceVars
<1>3. ASSUME NEW from, NEW command, NEW to, Send(h, from, command, to)
      PROVE  Forgets /\ UNCHANGED <<detached, presses, life, service>>
    BY <1>1, <1>3, Zenon DEF Send, serviceVars
<1>4. ASSUME Reads(h) PROVE Forgets /\ UNCHANGED <<detached, presses, life, service>>
    BY <1>1, <1>4, Zenon DEF Reads, serviceVars, Forgets
<1>5. ASSUME OpenMarker(h) \/ ReadMarker(h) PROVE Forgets /\ UNCHANGED <<detached, presses, life, service>>
    BY <1>1, <1>5, Zenon DEF OpenMarker, ReadMarker, serviceVars
<1>6. ASSUME WriteMarker(h) \/ RemoveMarker(h)
      PROVE  Forgets /\ detached' \subseteq detached \cup Helpers /\ UNCHANGED <<presses, life, service>>
    BY <1>1, <1>6, Zenon DEF WriteMarker, RemoveMarker, serviceVars
<1>7. ASSUME ReadEvent(h) PROVE Forgets /\ UNCHANGED <<detached, presses, life, service>>
    BY <1>1, <1>7, Zenon DEF ReadEvent, serviceVars, Forgets
<1>8. ASSUME TimesOut(h) PROVE Forgets /\ UNCHANGED <<detached, presses, life, service>>
    BY <1>1, <1>8, Zenon DEF TimesOut, serviceVars
<1>9. /\ Forgets /\ detached' \subseteq detached \cup Helpers /\ UNCHANGED <<life, service>>
      /\ presses' = presses \/ (presses < MaxPresses /\ presses' = presses + 1)
    BY <1>2, <1>3, <1>4, <1>5, <1>6, <1>7, <1>8, Zenon DEF Helper, Sends
<1>10. QED
    BY <1>9, Zenon DEF Changes, Forgets

\* Only a stop that is carried out gives a helper a session, and it is the one that
\* was being recorded.
LEMMA HandleChanges ==
    ASSUME Exchange, Fields, NEW h \in Helpers, Handle(h)
    PROVE  Changes
<1>1. CASE HandleStop(h)
    <2>1. active \in Sessions /\ life \in Lives
        BY <1>1, Zenon DEF HandleStop, Exchange, Fields
    <2>2. (IF at[h] = "off" THEN None ELSE <<life, active>>) \in (Lives \X Sessions) \cup {None}
        BY <2>1, Zenon
    <2>3. QED
        BY <1>1, <2>2, Zenon DEF HandleStop, Changes
<1>2. CASE HandleStart(h) \/ HandleStopRefused(h) \/ HandleCancel(h) \/ HandleSubscribe(h)
    BY <1>2, Zenon DEF HandleStart, HandleStopRefused, HandleCancel, CancelSession, HandleSubscribe, serviceVars, Changes
<1>3. QED
    BY <1>1, <1>2, Zenon DEF Handle

\* The fields keep their types, as every step changes them so.
LEMMA FieldsStep == Exchange /\ Fields /\ [DictationNext]_dictationVars => Fields'
<1> SUFFICES ASSUME Exchange, Fields, [DictationNext]_dictationVars PROVE Changes
    BY ChangesKeepFields, Zenon
<1>1. CASE Transcribe \/ ClientCancels
    BY <1>1, Zenon DEF Transcribe, Finish, ClientCancels, CancelSession, Changes
<1>2. CASE Start
    BY <1>2, Zenon DEF Start, helperVars, Changes
<1>3. ASSUME NEW orderly \in BOOLEAN, NEW flushed \in SUBSET Helpers, Exit(orderly, flushed) PROVE Changes
    BY <1>3, Zenon DEF Exit, Changes
<1>4. CASE UNCHANGED dictationVars
    BY <1>4, Zenon DEF dictationVars, helperVars, serviceVars, Changes
<1>5. QED
    BY <1>1, <1>2, <1>3, <1>4, HelperChanges, HandleChanges, Zenon DEF DictationNext, Quiet

\* Type correctness of the helpers, the marker file and the daemon: no step of the
\* script leads out of it, and a helper that owns a session has both its id and the
\* daemon it comes from.
THEOREM DictationTypesAlways == DictationSpec => []DictationTypeOK
<1>1. DictationInit => Fields
    <2> SUFFICES ASSUME DictationInit PROVE Fields
        BY Zenon
    <2>1. 0 \in 0 .. MaxPresses /\ 1 \in Lives
        BY DictationAssumption DEF DictationAssumption, Lives
    <2>2. QED
        BY <2>1, Zenon DEF DictationInit, Fields
<1>2. Exchange /\ Marks /\ Streams /\ Reports /\ Fields => DictationTypeOK
    <2> SUFFICES ASSUME Exchange, Marks, Streams, Reports, Fields PROVE DictationTypeOK
        BY Zenon
    <2>1. ASSUME NEW h \in Helpers PROVE listener[h] \in 0 .. MaxLives
        <3>1. listener[h] \in Nat /\ listener[h] <= life /\ life \in Lives
            BY Zenon DEF Streams, Reports, Listens, Fields
        <3>2. QED
            BY <3>1, DictationAssumption DEF DictationAssumption, Lives
    <2>2. listener \in [Helpers -> 0 .. MaxLives]
        BY <2>1, Zenon DEF Streams
    <2>3. nextId \in Nat
        BY Zenon DEF Reports, Ids
    <2>4. wire \in [Helpers -> {"nothing", "start", "stop", "cancel", "subscribe"}]
        BY Zenon DEF Exchange, Commands
    <2>5. QED
        BY <2>2, <2>3, <2>4, Zenon DEF DictationTypeOK, Exchange, Marks, Streams, Fields, Replies, Endings
<1>3. QED
    BY <1>1, <1>2, ExchangeStart, MarksStart, StreamsStart, ReportsStart,
       ExchangeStep, MarksStep, StreamsStep, ReportsStep, FieldsStep, PTL DEF DictationSpec

=============================================================================
