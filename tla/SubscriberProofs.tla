-------------------------- MODULE SubscriberProofs --------------------------
(***************************************************************************)
(* What subscribers are told, for any set of session ids and any queue     *)
(* capacity, however the threads interleave: the events of a session are   *)
(* always the beginning of a legal life, no session is forgotten before    *)
(* its end was published, and results come in the order of recording.      *)
(***************************************************************************)
EXTENDS SessionManagerProofs, WellFoundedInduction

\* The sessions whose start, and whose result, poll_completed() is to publish.
Begun   == Elements(started)
Drained == {results[i].id : i \in DOMAIN results}

\* What has been published about a session the queue has, or has just handed back:
\* the start only once drain_started() was called after it.
Progress(s) == IF s \in Begun THEN LifeQueued ELSE LifeStarted

\* What has been published about a session follows from where it is: with the
\* session manager ...
LifeHere(s) ==
    /\ s >= nextId \/ (call = "start" /\ s = opening) => events[s] = <<>>
    /\ s = active /\ state = "Recording" => events[s] = IF call = "enqueue" THEN LifeTaken ELSE LifeRecording
    /\ s = active /\ state = "Error" => events[s] \in {LifeLost, LifeRefused}

\* ... in the queue, or on its way back.
LifeThere(s) ==
    /\ s \in Waiting \cup Doomed => events[s] = LifeQueued
    /\ s \in InHand \cup Finished \cup Drained => events[s] = Progress(s)

\* A result is drained in the same call of poll_completed() as the start of its
\* session at the latest, and belongs to no other place.
Handed ==
    /\ results \in Seq(Result)
    /\ call # "poll" => results = <<>>
    /\ \A i, k \in DOMAIN results : results[i].id = results[k].id => i = k
    /\ \A s \in Drained : told[s] \in {"ok", "error"}
    /\ Begun \subseteq InHand \cup Finished \cup Drained

\* The inductive invariant behind PublishedLivesAreLegal.
Stories ==
    /\ Handed
    /\ state = "Error" => Fresh(active)
    /\ events \in [Sessions -> Beginnings]
    /\ \A s \in Sessions : LifeHere(s) /\ LifeThere(s)

\* A session the queue was never given is in none of its places.
LEMMA NotGiven ==
    ASSUME ManagedInv, Stories, NEW s \in Sessions, told[s] = "nothing"
    PROVE  s \notin Waiting /\ s \notin InHand /\ s \notin Finished /\ s \notin Doomed /\ s \notin Drained /\ s \notin Begun
  <1>1. s \notin Waiting \cup InHand \cup Finished \cup Doomed
    BY Zenon DEF ManagedInv, JobsAccounted
  <1>2. s \notin Drained
    BY Zenon DEF Stories, Handed
  <1> QED
    BY <1>1, <1>2, Zenon DEF Stories, Handed

\* The sessions the manager itself has were never given to the queue.
LEMMA NotYetGiven ==
    ASSUME ManagedInv, Stories
    PROVE  /\ \A s \in Sessions : s >= nextId => told[s] = "nothing"
           /\ call = "start" => opening \in Sessions /\ told[opening] = "nothing" /\ opening < nextId
           /\ state \in {"Recording", "Error"} => active \in Sessions /\ told[active] = "nothing" /\ active < nextId
  BY Zenon DEF ManagedInv, Ids, Fresh, Stories

\* A step of the manager that says something only about sessions of its own.
LEMMA HereKeepsThere ==
    ASSUME ManagedInv, Stories, UNCHANGED <<queueVars, results>>, call # "poll" \/ call' = "poll",
           events' \in [Sessions -> Beginnings],
           \A s \in Sessions : told[s] # "nothing" => events'[s] = events[s]
    PROVE  Handed' /\ \A s \in Sessions : LifeThere(s)'
  <1>1. UNCHANGED <<pending, started, completed, wpc, job, dropped, told>>
    BY Zenon DEF queueVars, sharedVars, workerVars, ownerVars
  <1>2. UNCHANGED <<Waiting, Doomed, InHand, Finished, Drained, Begun>>
    BY <1>1, Zenon DEF Waiting, Doomed, InHand, Running, Finished, Drained, Begun, Elements
  <1>3. Handed'
    BY <1>1, <1>2, Zenon DEF Stories, Handed
  <1>4. ASSUME NEW s \in Sessions PROVE LifeThere(s)'
    <2>1. CASE told[s] = "nothing"
      BY <1>2, <2>1, NotGiven, Zenon DEF LifeThere
    <2>2. CASE told[s] # "nothing"
      BY <1>2, <2>2, Zenon DEF LifeThere, Progress, Stories
    <2> QED
      BY <2>1, <2>2, Zenon
  <1> QED
    BY <1>3, <1>4, Zenon

\* A step that says something only about sessions the queue has been given.
LEMMA ThereKeepsHere ==
    ASSUME ManagedInv, Stories, UNCHANGED <<nextId, opening, active, state>>,
           call' = "start" => call = "start", call' = "enqueue" <=> call = "enqueue",
           \A s \in Sessions : told[s] = "nothing" => events'[s] = events[s]
    PROVE  \A s \in Sessions : LifeHere(s)'
  <1> SUFFICES ASSUME NEW s \in Sessions PROVE LifeHere(s)'
    BY Zenon
  <1>1. LifeHere(s)
    BY Zenon DEF Stories
  <1>2. \/ s >= nextId \/ (call = "start" /\ s = opening)
        \/ s = active /\ state \in {"Recording", "Error"}
        => events'[s] = events[s]
    BY NotYetGiven, Zenon
  <1> QED
    BY <1>1, <1>2, Zenon DEF LifeHere

\* The operations of the manager that leave the queue alone.
LEMMA HereSteps ==
    ASSUME ManagedInv, Views, Stories, QueueUntouched
    PROVE  Stories'
  <1> DEFINE Others(a) == \A s \in Sessions \ {a} : events'[s] = events[s]
  <1>0. /\ events \in [Sessions -> Beginnings] /\ Beginnings \subseteq Seq(EventKinds)
        /\ \A s \in Sessions : LifeHere(s)
        /\ nextId \in Nat /\ Sessions \subseteq Nat /\ \A s \in Sessions : s # NoSession
    BY LifeSteps, CounterAssumption, SessionIdAssumption, Zenon DEF Stories, ManagedInv, Ids
  <1>1. /\ UNCHANGED <<queueVars, results>>
        /\ call # "poll" \/ call' = "poll"
    BY Zenon DEF QueueUntouched, StartSessionFails, StartSessionStreams, StartSessionReturns, StopSessionReads,
           StopSessionLost, StopSessionTakes, StopSessionRefused, CancelSessionReads, CancelSessionStops,
           CancelSessionAcknowledges, AudioThread, CanStart, Forget, sessionVars
  <1>t. told' = told
    BY <1>1, Zenon DEF queueVars, ownerVars
  <1>2. ASSUME events' \in [Sessions -> Beginnings],
               \A s \in Sessions : told[s] # "nothing" => events'[s] = events[s],
               state' = "Error" => Fresh(active)',
               \A s \in Sessions : LifeHere(s)'
        PROVE  Stories'
    BY <1>1, <1>2, HereKeepsThere, Zenon DEF Stories
  <1>3. ASSUME UNCHANGED events, state' = "Error" => state = "Error" /\ active' = active /\ nextId' = nextId,
               \A s \in Sessions : LifeHere(s)'
        PROVE  Stories'
    BY <1>0, <1>2, <1>3, <1>t, Zenon DEF Stories, Fresh
  <1>4. CASE StartSessionFails
    BY <1>0, <1>3, <1>4 DEF StartSessionFails, CanStart, RecordFails, LifeHere
  <1>5. CASE StartSessionStreams
    BY <1>0, <1>3, <1>5 DEF StartSessionStreams, CanStart, RecordStreams, LifeHere
  <1>6. CASE StopSessionReads \/ CancelSessionReads
    BY <1>0, <1>3, <1>6, Zenon DEF StopSessionReads, CancelSessionReads, StopReads, LifeHere
  <1>7. CASE AudioThread
    <2>1. UNCHANGED <<events, state, active, nextId, call, opening>>
      BY <1>7, Zenon DEF AudioThread, OnSamples, sessionVars, managerVars
    <2> QED
      BY <1>0, <1>3, <2>1, Zenon DEF LifeHere
  <1>8. ASSUME NEW a \in Sessions, told[a] = "nothing", NEW kinds,
               events' = [events EXCEPT ![a] = events[a] \o kinds], events[a] \o kinds \in Beginnings,
               state' = "Error" => Fresh(active)',
               nextId' = nextId, call' # "start", a < nextId,
               LifeHere(a)',
               \A s \in Sessions \ {a} : s = active' => state' \notin {"Recording", "Error"}
        PROVE  Stories'
    <2>1. /\ events' \in [Sessions -> Beginnings] /\ events'[a] = events[a] \o kinds
          /\ \A s \in Sessions \ {a} : events'[s] = events[s]
      BY <1>0, <1>8, Zenon
    <2>2. ASSUME NEW s \in Sessions PROVE LifeHere(s)'
      <3>1. CASE s = a
        BY <1>8, <3>1, Zenon
      <3>2. CASE s # a
        BY <1>0, <1>8, <2>1, <3>2, Zenon DEF LifeHere
      <3> QED
        BY <3>1, <3>2, Zenon
    <2> QED
      BY <1>2, <1>8, <2>1, <2>2, Zenon
  <1>9. CASE StartSessionReturns
    <2> PICK a : a = opening
      BY Zenon
    <2>1. /\ a \in Sessions /\ told[a] = "nothing" /\ a < nextId
          /\ events[a] = <<>>
      BY <1>0, <1>9, NotYetGiven, Zenon DEF StartSessionReturns, LifeHere
    <2>2. /\ events' = [events EXCEPT ![a] = events[a] \o <<"RecordingStarted">>]
          /\ active' = a /\ state' = "Recording" /\ call' = "none" /\ nextId' = nextId
      BY <1>9, Zenon DEF StartSessionReturns, Publish
    <2>3. events[a] \o <<"RecordingStarted">> = LifeRecording
      BY <2>1, LifeSteps, Zenon
    <2>4. events[a] \o <<"RecordingStarted">> \in Beginnings
      BY <2>3, Zenon DEF Beginnings
    <2>5. events'[a] = LifeRecording
      BY <1>0, <2>1, <2>2, <2>3, Zenon
    <2>6. LifeHere(a)'
      BY <1>0, <2>1, <2>2, <2>5 DEF LifeHere
    <2>7. \A s \in Sessions \ {a} : s # active'
      BY <2>2, Zenon
    <2> QED
      BY <1>8, <2>1, <2>2, <2>4, <2>6, <2>7, Zenon
  <1>10. CASE StopSessionLost \/ StopSessionTakes \/ StopSessionRefused
    <2> PICK a : a = active
      BY Zenon
    <2>1. /\ a \in Sessions /\ told[a] = "nothing" /\ a < nextId /\ state = "Recording"
          /\ active' = a /\ nextId' = nextId /\ call' # "start"
          /\ events[a] = IF call = "enqueue" THEN LifeTaken ELSE LifeRecording
      BY <1>0, <1>10, NotYetGiven, Zenon DEF StopSessionLost, StopSessionTakes, StopSessionRefused, Views, LifeHere
    <2>2. PICK kinds : /\ events' = [events EXCEPT ![a] = events[a] \o kinds]
                       /\ \/ /\ call = "stop" /\ kinds = <<"audio error">> /\ state' = "Error" /\ call' = "none"
                          \/ /\ call = "stop" /\ kinds = <<"RecordingFinished">> /\ state' = "Recording"
                             /\ call' = "enqueue"
                          \/ /\ call = "enqueue" /\ kinds = <<"queue error">> /\ state' = "Error" /\ call' = "none"
      BY <1>10, Zenon DEF StopSessionLost, StopSessionTakes, StopSessionRefused, Views, Publish
    <2>3. \/ events[a] \o kinds = LifeLost /\ state' = "Error" /\ call' = "none"
          \/ events[a] \o kinds = LifeTaken /\ state' = "Recording" /\ call' = "enqueue"
          \/ events[a] \o kinds = LifeRefused /\ state' = "Error" /\ call' = "none"
      BY <2>1, <2>2, LifeSteps, Zenon DEF LifeRefused
    <2>4. events[a] \o kinds \in Beginnings
      BY <2>3, Zenon DEF Beginnings
    <2>5. events'[a] = events[a] \o kinds
      BY <1>0, <2>1, <2>2, Zenon
    <2>6. LifeHere(a)'
      <3>1. ~(a >= nextId')
        BY <1>0, <2>1
      <3> QED
        BY <2>1, <2>3, <2>5, <3>1, Zenon DEF LifeHere
    <2>7. Fresh(active)'
      BY <1>t, <2>1, Zenon DEF Fresh
    <2>8. \A s \in Sessions \ {a} : s # active'
      BY <2>1, Zenon
    <2> QED
      BY <1>8, <2>1, <2>2, <2>4, <2>6, <2>7, <2>8, Zenon
  <1>11. CASE CancelSessionStops \/ CancelSessionAcknowledges
    <2> PICK a : a = active
      BY Zenon
    <2>1. /\ a \in Sessions /\ told[a] = "nothing" /\ a < nextId
          /\ \/ call = "cancel" /\ events[a] = LifeRecording
             \/ call = "none" /\ events[a] \in {LifeLost, LifeRefused}
      BY <1>0, <1>11, NotYetGiven, Zenon DEF CancelSessionStops, CancelSessionAcknowledges, Views, LifeHere
    <2>2. /\ active' = NoSession /\ state' = "Idle" /\ call' = "none" /\ nextId' = nextId
      BY <1>11, Zenon DEF CancelSessionStops, CancelSessionAcknowledges, Forget
    <2>3. PICK kinds : /\ events' = [events EXCEPT ![a] = events[a] \o kinds]
                       /\ \/ kinds = <<"SessionCancelled">>
                          \/ call = "cancel" /\ kinds = <<"RecordingFinished", "SessionCancelled">>
      BY <1>11, Zenon DEF CancelSessionStops, CancelSessionAcknowledges, Publish
    <2>4. events[a] \o kinds \in Beginnings
      BY <2>1, <2>3, LifeSteps, Zenon DEF Beginnings
    <2>5. LifeHere(a)'
      <3>1. ~(a >= nextId')
        BY <1>0, <2>1, <2>2
      <3> QED
        BY <2>2, <3>1, Zenon DEF LifeHere
    <2> QED
      BY <1>8, <2>1, <2>2, <2>3, <2>4, <2>5, Zenon
  <1> QED
    BY <1>4, <1>5, <1>6, <1>7, <1>9, <1>10, <1>11, Zenon DEF QueueUntouched

\* A drained job is in no place of the queue any more.
LEMMA DrainedIsGone ==
    ASSUME ManagedInv, Stories
    PROVE  /\ Drained \cap (Waiting \cup InHand \cup Finished \cup Doomed) = {}
           /\ Drained \subseteq Sessions
           /\ Waiting \cup InHand \cup Finished \cup Doomed \subseteq Sessions
           /\ Begun \subseteq Sessions
  <1>1. Waiting \cup InHand \cup Finished \cup Doomed = {j \in Sessions : told[j] = "queued"}
    BY Zenon DEF ManagedInv, JobsAccounted
  <1>2. \A s \in Drained : told[s] \in {"ok", "error"}
    BY Zenon DEF Stories, Handed
  <1>3. Drained \subseteq Sessions
    <2>1. results \in Seq(Result)
      BY Zenon DEF Stories, Handed
    <2>2. \A i \in DOMAIN results : results[i] \in Result
      BY <2>1
    <2> QED
      BY <2>2, Zenon DEF Drained, Result
  <1> QED
    BY <1>1, <1>2, <1>3, Zenon DEF Stories, Handed

\* What is left to show of a step that enqueues nothing and leaves the manager's
\* own sessions alone.
LEMMA ThereSuffices ==
    ASSUME ManagedInv, Stories, NotEnqueue, UNCHANGED <<nextId, opening, active, state>>,
           call' = "start" => call = "start", call' = "enqueue" <=> call = "enqueue",
           events' \in [Sessions -> Beginnings],
           \A s \in Sessions : told[s] = "nothing" => events'[s] = events[s],
           Handed', \A s \in Sessions : LifeThere(s)'
    PROVE  Stories'
  <1>1. \A s \in Sessions : LifeHere(s)'
    BY ThereKeepsHere, Zenon
  <1>2. \A s \in Sessions : told[s] = "nothing" => told'[s] = "nothing"
    BY NotEnqueueKeeps, Zenon DEF ManagedInv
  <1>3. state' = "Error" => Fresh(active)'
    BY <1>2, Zenon DEF Stories, Fresh
  <1> QED
    BY <1>1, <1>3, Zenon DEF Stories

\* The last step of stop_session(): the session goes from the manager to the queue.
LEMMA QueuesTells ==
    ASSUME ManagedInv, Stories, StopSessionQueues
    PROVE  Stories'
  <1> PICK a : a = active
    BY Zenon
  <1>0. /\ events \in [Sessions -> Beginnings]
        /\ \A s \in Sessions : LifeHere(s) /\ LifeThere(s)
        /\ nextId \in Nat /\ Sessions \subseteq Nat
        /\ QueueTypeOK /\ JobsAccounted
    BY CounterAssumption, Zenon DEF Stories, ManagedInv, Ids
  <1>1. /\ a \in Sessions /\ told[a] = "nothing" /\ a < nextId /\ state = "Recording" /\ call = "enqueue"
    BY NotYetGiven, Zenon DEF StopSessionQueues, ManagedInv, Ids
  <1>2. events[a] = LifeTaken
    BY <1>0, <1>1, Zenon DEF LifeHere
  <1>3. /\ events' = [events EXCEPT ![a] = events[a] \o <<"TranscriptionQueued">>]
        /\ TryEnqueue(a) /\ state' = "Idle" /\ call' = "none" /\ nextId' = nextId /\ results' = results
    BY Zenon DEF StopSessionQueues, Publish
  <1>4. /\ events'[a] = LifeQueued /\ \A s \in Sessions \ {a} : events'[s] = events[s]
        /\ LifeQueued \in Beginnings
    BY <1>0, <1>1, <1>2, <1>3, Zenon DEF LifeQueued, Beginnings
  <1>5. events' \in [Sessions -> Beginnings]
    BY <1>0, <1>1, <1>2, <1>3, <1>4, Zenon DEF LifeQueued
  <1>6. /\ Waiting' = Waiting \cup {a}
        /\ UNCHANGED <<InHand, Finished, Doomed, Drained, Begun>>
        /\ \A s \in Sessions \ {a} : told'[s] = told[s]
    <2>1. Waiting' = Waiting \cup {a} /\ UNCHANGED <<InHand, Finished, Doomed>>
      BY <1>0, <1>1, <1>3, EnqueueMoves, Zenon
    <2>2. told' = [told EXCEPT ![a] = "queued"] /\ started' = started
      BY <1>3, Zenon DEF TryEnqueue
    <2> QED
      BY <1>0, <1>3, <2>1, <2>2, Zenon DEF Drained, Begun, Elements, QueueTypeOK
  <1>7. a \notin Waiting /\ a \notin InHand /\ a \notin Finished /\ a \notin Doomed /\ a \notin Drained /\ a \notin Begun
    BY <1>1, NotGiven, Zenon
  <1>8. Handed'
    BY <1>1, <1>3, <1>6, <1>7, DrainedIsGone, Zenon DEF Stories, Handed
  <1>9. ASSUME NEW s \in Sessions PROVE LifeHere(s)' /\ LifeThere(s)'
    <2>1. CASE s = a
      BY <1>0, <1>1, <1>3, <1>4, <1>6, <1>7, <2>1, SMTT(20) DEF LifeHere, LifeThere
    <2>2. CASE s # a
      BY <1>0, <1>1, <1>3, <1>4, <1>6, <2>2, Zenon DEF LifeHere, LifeThere, Progress
    <2> QED
      BY <2>1, <2>2, Zenon
  <1> QED
    BY <1>3, <1>5, <1>8, <1>9, Zenon DEF Stories

\* cancel_job(): a queued session is told it was cancelled and leaves the queue.
LEMMA CancelTells ==
    ASSUME ManagedInv, Stories, NEW j \in Sessions, CancelJob(j)
    PROVE  Stories'
  <1>0. /\ events \in [Sessions -> Beginnings]
        /\ \A s \in Sessions : LifeHere(s) /\ LifeThere(s)
        /\ QueueTypeOK /\ JobsAccounted
    BY Zenon DEF Stories, ManagedInv
  <1>1. /\ CancelPending(j) /\ NotEnqueue
        /\ events' = [events EXCEPT ![j] = events[j] \o <<"SessionCancelled">>]
        /\ UNCHANGED <<nextId, opening, active, state, call, results>>
    BY Zenon DEF CancelJob, Publish, NotEnqueue, recordingVars, managerVars
  <1>2. /\ j \in Waiting /\ Waiting' = Waiting \ {j}
        /\ UNCHANGED <<InHand, Finished, Doomed>>
    BY <1>0, <1>1, CancelMoves, Zenon
  <1>3. j \notin InHand /\ j \notin Finished /\ j \notin Doomed /\ j \notin Drained /\ told[j] = "queued"
    BY <1>0, <1>2, DrainedIsGone, Zenon DEF JobsAccounted
  <1>4. UNCHANGED <<Drained, Begun>> /\ \A s \in Sessions \ {j} : told'[s] = told[s]
    BY <1>0, <1>1, Zenon DEF CancelPending, Drained, Begun, Elements, QueueTypeOK
  <1>5. events[j] \o <<"SessionCancelled">> \in Beginnings
    BY <1>0, <1>2, LifeSteps, Zenon DEF LifeThere, Beginnings
  <1>6. events' \in [Sessions -> Beginnings] /\ \A s \in Sessions \ {j} : events'[s] = events[s]
    BY <1>0, <1>1, <1>5, Zenon
  <1>7. Handed'
    BY <1>1, <1>2, <1>3, <1>4, DrainedIsGone, Zenon DEF Stories, Handed
  <1>8. \A s \in Sessions : LifeThere(s)'
    BY <1>0, <1>2, <1>3, <1>4, <1>6, Zenon DEF LifeThere, Progress
  <1>9. \A s \in Sessions : told[s] = "nothing" => events'[s] = events[s]
    BY <1>3, <1>6, Zenon
  <1> QED
    BY <1>1, <1>6, <1>7, <1>8, <1>9, ThereSuffices, Zenon

\* The first half of poll_completed(): the finished jobs become results.
LEMMA DrainTells ==
    ASSUME ManagedInv, Stories, PollDrains
    PROVE  Stories'
  <1>0. /\ events \in [Sessions -> Beginnings]
        /\ \A s \in Sessions : LifeHere(s) /\ LifeThere(s)
        /\ QueueTypeOK /\ JobsAccounted
        /\ results = <<>>
    BY Zenon DEF Stories, ManagedInv, Handed, PollDrains
  <1>1. /\ DrainCompleted /\ NotEnqueue
        /\ results' = completed /\ call = "none" /\ call' = "poll"
        /\ UNCHANGED <<nextId, opening, active, state, events, started>>
    BY Zenon DEF PollDrains, NotEnqueue, recordingVars, managerVars, DrainCompleted
  <1>2. Finished' = {} /\ UNCHANGED <<Waiting, InHand, Doomed>>
    BY <1>0, <1>1, DrainMoves, Zenon
  <1>3. Drained' = Finished /\ Drained = {} /\ Begun' = Begun
    <2>1. results = <<>> /\ results' = completed /\ started' = started
      BY <1>0, <1>1, Zenon
    <2>2. Drained = {}
      BY ONLY <2>1 DEF Drained
    <2>3. Drained' = Finished /\ Begun' = Begun
      BY ONLY <2>1, Zenon DEF Drained, Finished, Begun, Elements
    <2> QED
      BY <2>2, <2>3, Zenon
  <1>4. \A s \in Finished : s \in Sessions /\ told'[s] \in {"ok", "error"}
    <2> SUFFICES ASSUME NEW s \in Finished PROVE s \in Sessions /\ told'[s] \in {"ok", "error"}
      BY Zenon
    <2>1. s \in Sessions
      BY DrainedIsGone, Zenon
    <2>2. \E i \in DOMAIN completed : completed[i].id = s
      BY Zenon DEF Finished
    <2> QED
      BY <1>1, <2>1, <2>2, Zenon DEF DrainCompleted
  <1>5. Handed'
    <2>1. results' \in Seq(Result)
      BY <1>0, <1>1, Zenon DEF QueueTypeOK
    <2>2. \A i, k \in DOMAIN completed : completed[i].id = completed[k].id => i = k
      BY <1>0, Zenon DEF JobsAccounted
    <2>3. Begun' \subseteq InHand' \cup Finished' \cup Drained'
      BY <1>2, <1>3, Zenon DEF Stories, Handed
    <2> QED
      BY <1>1, <1>3, <1>4, <2>1, <2>2, <2>3, Zenon DEF Handed
  <1>6. \A s \in Sessions : LifeThere(s)'
    BY <1>0, <1>1, <1>2, <1>3, Zenon DEF LifeThere, Progress
  <1> QED
    BY <1>0, <1>1, <1>5, <1>6, ThereSuffices, Zenon

\* What the second half of poll_completed() adds to a life.
LEMMA OutcomeAdds ==
    ASSUME Stories, NEW s \in Sessions
    PROVE  /\ s \notin Begun /\ s \notin Drained => events[s] \o Outcome(s, started) = events[s]
           /\ s \in Begun /\ s \notin Drained => events[s] \o Outcome(s, started) = events[s] \o <<"TranscriptionStarted">>
           /\ s \in Drained => events[s] \o Outcome(s, started) \in Lives
  <1> DEFINE K  == EventKinds
             ts == "TranscriptionStarted"
             tc == "TranscriptionCompleted"
             se == "speech error"
             p  == \E i \in DOMAIN started : started[i] = s
             q  == \E i \in DOMAIN results : results[i] = [id |-> s, ok |-> TRUE]
             r  == \E i \in DOMAIN results : results[i] = [id |-> s, ok |-> FALSE]
             e  == events[s]
  <1>0. ts \in K /\ tc \in K /\ se \in K /\ e \in Seq(K) /\ LifeQueued \in Seq(K)
    BY LifeSteps, Zenon DEF EventKinds, Stories, Beginnings
  <1>1. /\ p <=> s \in Begun
        /\ q \/ r <=> s \in Drained
        /\ ~(q /\ r)
    <2>1. p <=> s \in Begun
      BY Zenon DEF Begun, Elements
    <2>2. \A i \in DOMAIN results : results[i] \in [id : Sessions, ok : BOOLEAN]
      <3>1. results \in Seq(Result)
        BY Zenon DEF Stories, Handed
      <3>2. \A i \in DOMAIN results : results[i] \in Result
        BY <3>1
      <3> QED
        BY <3>2, Zenon DEF Result
    <2>3. \A i \in DOMAIN results : results[i].id = s <=> results[i] \in {[id |-> s, ok |-> TRUE], [id |-> s, ok |-> FALSE]}
      BY <2>2
    <2>4. q \/ r <=> s \in Drained
      BY <2>3, Zenon DEF Drained
    <2>5. ~(q /\ r)
      <3> SUFFICES ASSUME NEW i \in DOMAIN results, NEW k \in DOMAIN results,
                          results[i] = [id |-> s, ok |-> TRUE], results[k] = [id |-> s, ok |-> FALSE]
                   PROVE  FALSE
        BY Zenon
      <3>1. i = k
        BY DEF Stories, Handed
      <3> QED
        BY <3>1, SMTT(20)
    <2> QED
      BY <2>1, <2>4, <2>5, Zenon
  <1>2. Outcome(s, started) = (IF p THEN <<ts>> ELSE <<>>) \o (IF q THEN <<tc>> ELSE <<>>)
                                 \o (IF r THEN <<se>> ELSE <<>>)
    BY Zenon DEF Outcome
  <1> HIDE DEF K, ts, tc, se, p, q, r, e
  <1>3. /\ \A u \in Seq(K) : u \o <<>> = u /\ <<>> \o u = u
        /\ \A u, v, w \in Seq(K) : (u \o v) \o w = u \o (v \o w)
        /\ \A x \in K : <<x>> \in Seq(K)
        /\ <<>> \in Seq(K)
    BY ConcatEmptySeq, ConcatAssociative, SMTT(20)
  <1>4. \A x, y \in K : <<x>> \o <<y>> \in Seq(K)
    BY <1>3, ConcatProperties, Zenon
  <1>5. /\ ~p /\ ~q /\ ~r => e \o Outcome(s, started) = e
        /\ p /\ ~q /\ ~r => e \o Outcome(s, started) = e \o <<ts>>
        /\ ~p /\ q /\ ~r => e \o Outcome(s, started) = e \o <<tc>>
        /\ ~p /\ ~q /\ r => e \o Outcome(s, started) = e \o <<se>>
        /\ p /\ q /\ ~r => e \o Outcome(s, started) = (e \o <<ts>>) \o <<tc>>
        /\ p /\ ~q /\ r => e \o Outcome(s, started) = (e \o <<ts>>) \o <<se>>
    <2>1. CASE ~p /\ ~q /\ ~r
      <3>1. Outcome(s, started) = (<<>> \o <<>>) \o <<>>
        BY <1>2, <2>1, Zenon
      <3>2. e \in Seq(K) /\ <<>> \in Seq(K)
        BY <1>0, <1>3, Zenon
      <3>3. Outcome(s, started) = <<>>
        BY ONLY <1>3, <3>1, <3>2, Zenon
      <3> QED
        BY ONLY <1>3, <2>1, <3>2, <3>3, Zenon
    <2>2. CASE p /\ ~q /\ ~r
      <3>1. Outcome(s, started) = (<<ts>> \o <<>>) \o <<>>
        BY <1>2, <2>2, Zenon
      <3>2. <<ts>> \in Seq(K)
        BY <1>0, <1>3, Zenon
      <3> QED
        BY ONLY <1>3, <2>2, <3>1, <3>2, Zenon
    <2>3. CASE ~p /\ q /\ ~r
      <3>1. Outcome(s, started) = (<<>> \o <<tc>>) \o <<>>
        BY <1>2, <2>3, Zenon
      <3>2. <<tc>> \in Seq(K)
        BY <1>0, <1>3, Zenon
      <3> QED
        BY ONLY <1>3, <2>3, <3>1, <3>2, Zenon
    <2>4. CASE ~p /\ ~q /\ r
      <3>1. Outcome(s, started) = (<<>> \o <<>>) \o <<se>>
        BY <1>2, <2>4, Zenon
      <3>2. <<se>> \in Seq(K)
        BY <1>0, <1>3, Zenon
      <3> QED
        BY ONLY <1>3, <2>4, <3>1, <3>2, Zenon
    <2>5. CASE p /\ q /\ ~r
      <3>1. Outcome(s, started) = (<<ts>> \o <<tc>>) \o <<>>
        BY <1>2, <2>5, Zenon
      <3>2. <<ts>> \in Seq(K) /\ <<tc>> \in Seq(K) /\ <<ts>> \o <<tc>> \in Seq(K)
        BY <1>0, <1>3, <1>4, Zenon
      <3>3. Outcome(s, started) = <<ts>> \o <<tc>>
        BY ONLY <1>3, <3>1, <3>2, Zenon
      <3>4. e \o (<<ts>> \o <<tc>>) = (e \o <<ts>>) \o <<tc>>
        <4>1. e \in Seq(K)
          BY <1>0, Zenon
        <4> QED
          BY ONLY <1>3, <3>2, <4>1, ZenonT(30)
      <3> QED
        BY ONLY <2>5, <3>3, <3>4, Zenon
    <2>6. CASE p /\ ~q /\ r
      <3>1. Outcome(s, started) = (<<ts>> \o <<>>) \o <<se>>
        BY <1>2, <2>6, Zenon
      <3>2. <<ts>> \in Seq(K) /\ <<se>> \in Seq(K)
        BY <1>0, <1>3, Zenon
      <3>3. Outcome(s, started) = <<ts>> \o <<se>>
        BY ONLY <1>3, <3>1, <3>2, Zenon
      <3>4. e \o (<<ts>> \o <<se>>) = (e \o <<ts>>) \o <<se>>
        <4>1. e \in Seq(K)
          BY <1>0, Zenon
        <4> QED
          BY ONLY <1>3, <3>2, <4>1, ZenonT(30)
      <3> QED
        BY ONLY <2>6, <3>3, <3>4, Zenon
    <2> QED
      BY <2>1, <2>2, <2>3, <2>4, <2>5, <2>6, ZenonT(30)
  <1>6. s \in Drained => e \o Outcome(s, started) \in Lives
    <2> SUFFICES ASSUME s \in Drained PROVE e \o Outcome(s, started) \in Lives
      BY Zenon
    <2>1. e = IF s \in Begun THEN LifeQueued ELSE LifeStarted
      BY Zenon DEF Stories, LifeThere, Progress, e
    <2>2. e \o Outcome(s, started) \in {LifeStarted \o <<tc>>, LifeStarted \o <<se>>}
      <3>1. CASE p
        <4>1. e \o <<ts>> = LifeStarted
          BY <1>1, <2>1, <3>1, Zenon DEF LifeStarted, ts
        <4> QED
          BY <1>1, <1>5, <3>1, <4>1, Zenon
      <3>2. CASE ~p
        <4>1. e = LifeStarted
          BY <1>1, <2>1, <3>2, Zenon
        <4> QED
          BY <1>1, <1>5, <3>2, <4>1, Zenon
      <3> QED
        BY <3>1, <3>2, Zenon
    <2> QED
      BY <2>2, LifeSteps, Zenon DEF tc, se
  <1> QED
    BY <1>1, <1>5, <1>6, Zenon DEF e, ts

\* What the second half of poll_completed() leaves of a life.
LEMMA PublishLeaves ==
    ASSUME Stories, PollPublishes, NEW s \in Sessions
    PROVE  /\ s \notin Begun /\ s \notin Drained => events'[s] = events[s]
           /\ s \in Begun /\ s \notin Drained => events'[s] = LifeStarted
           /\ s \in Drained => events'[s] \in Lives
  <1>1. events'[s] = events[s] \o Outcome(s, started)
    BY Zenon DEF PollPublishes
  <1>2. s \in Begun /\ s \notin Drained => events[s] = LifeQueued
    BY Zenon DEF Stories, Handed, LifeThere, Progress
  <1> QED
    BY <1>1, <1>2, OutcomeAdds, Zenon DEF LifeStarted

\* The second half of poll_completed(): the starts and then the results.
LEMMA PublishTells ==
    ASSUME ManagedInv, Stories, PollPublishes
    PROVE  Stories'
  <1>0. /\ events \in [Sessions -> Beginnings]
        /\ \A s \in Sessions : LifeHere(s) /\ LifeThere(s)
        /\ JobsAccounted
    BY Zenon DEF Stories, ManagedInv
  <1>1. /\ NotEnqueue /\ UNCHANGED <<pending, completed, dropped, InHand>>
        /\ started' = <<>> /\ results' = <<>>
        /\ call = "poll" /\ call' = "none"
        /\ events' = [s \in Sessions |-> events[s] \o Outcome(s, started)]
        /\ UNCHANGED <<nextId, opening, active, state>>
    BY StillMoves, Zenon DEF PollPublishes, NotEnqueue, Still, DrainStarted, recordingVars, managerVars
  <1>2. /\ UNCHANGED <<Waiting, InHand, Finished, Doomed>>
        /\ Begun' = {} /\ Drained' = {}
    <2>1. UNCHANGED <<Waiting, InHand, Finished, Doomed>>
      BY <1>1, Zenon DEF Waiting, Finished, Doomed
    <2>2. Begun' = {}
      BY <1>1 DEF Begun, Elements
    <2>3. Drained' = {}
      BY <1>1 DEF Drained
    <2> QED
      BY <2>1, <2>2, <2>3, Zenon
  <1>3. ASSUME NEW s \in Sessions
        PROVE  /\ s \notin Begun /\ s \notin Drained => events'[s] = events[s]
               /\ s \in Begun /\ s \notin Drained => events'[s] = LifeStarted
               /\ s \in Drained => events'[s] \in Lives
    BY PublishLeaves, Zenon
  <1>4. events' \in [Sessions -> Beginnings]
    <2>1. \A s \in Sessions : events'[s] \in Beginnings
      BY <1>0, <1>3, Zenon DEF Beginnings
    <2> QED
      BY <1>1, <2>1, Zenon
  <1>5. Handed'
    BY <1>1, <1>2, SMTT(20) DEF Handed
  <1>6. ASSUME NEW s \in Sessions PROVE LifeThere(s)'
    <2>1. s \in Waiting \cup Doomed => s \notin Begun /\ s \notin Drained
      BY <1>0, DrainedIsGone, Zenon DEF Stories, Handed, JobsAccounted
    <2>2. s \in InHand \cup Finished => s \notin Drained
      BY DrainedIsGone, Zenon
    <2> QED
      BY <1>0, <1>2, <1>3, <2>1, <2>2, Zenon DEF LifeThere, Progress
  <1>7. \A s \in Sessions : told[s] = "nothing" => events'[s] = events[s]
    BY <1>3, NotGiven, Zenon
  <1> QED
    BY <1>1, <1>4, <1>5, <1>6, <1>7, ThereSuffices, Zenon

\* What the end of shutdown() leaves of a life.
LEMMA ReportLeaves ==
    ASSUME Stories, ShutdownReports, NEW s \in Sessions
    PROVE  /\ s \notin Doomed => events'[s] = events[s]
           /\ s \in Doomed => events'[s] \in Lives
  <1>1. events'[s] = IF s \in Doomed THEN Append(events[s], "queue error") ELSE events[s]
    BY Zenon DEF ShutdownReports
  <1> QED
    BY <1>1, LifeSteps, Zenon DEF Stories, LifeThere

\* shutdown(): the waiting sessions are dropped, and told so at its end.
LEMMA ShutdownTells ==
    ASSUME ManagedInv, Views, Stories, ShutdownBegins \/ ShutdownReports
    PROVE  Stories'
  <1>0. /\ events \in [Sessions -> Beginnings]
        /\ \A s \in Sessions : LifeHere(s) /\ LifeThere(s)
        /\ JobsAccounted /\ Flags
    BY Zenon DEF Stories, ManagedInv
  <1>1. CASE ShutdownBegins
    <2>1. /\ ShutdownLocked /\ NotEnqueue /\ call = "none" /\ call' = "shutdown"
          /\ UNCHANGED <<nextId, opening, active, state, events, results, started, told>>
      BY <1>1, Zenon DEF ShutdownBegins, NotEnqueue, ShutdownLocked, recordingVars, managerVars
    <2>2. Doomed = {} /\ Doomed' = Waiting /\ Waiting' = {} /\ UNCHANGED <<InHand, Finished>>
      BY <1>0, <2>1, LockMoves, Zenon
    <2>3. UNCHANGED <<Begun, Drained>>
      BY <2>1, Zenon DEF Begun, Elements, Drained
    <2>4. Handed'
      BY <2>1, <2>2, <2>3, Zenon DEF Stories, Handed
    <2>5. \A s \in Sessions : LifeThere(s)'
      BY <1>0, <2>1, <2>2, <2>3, Zenon DEF LifeThere, Progress
    <2> QED
      BY <1>0, <2>1, <2>4, <2>5, ThereSuffices, Zenon
  <1>2. CASE ShutdownReports
    <2>1. /\ ShutdownJoin /\ NotEnqueue /\ call = "shutdown" /\ call' = "none"
          /\ events' = [s \in Sessions |-> IF s \in Doomed THEN Append(events[s], "queue error") ELSE events[s]]
          /\ UNCHANGED <<nextId, opening, active, state, results, started>>
      BY <1>2, Zenon DEF ShutdownReports, NotEnqueue, ShutdownJoin, Views, recordingVars, managerVars, sharedVars
    <2>2. Doomed' = {} /\ UNCHANGED <<Waiting, InHand, Finished>>
      BY <1>0, <2>1, JoinMoves, Zenon
    <2>3. UNCHANGED <<Begun, Drained>> /\ results = <<>> /\ Drained = {}
      <3>1. results = <<>>
        BY <2>1, Zenon DEF Stories, Handed
      <3>2. started' = started /\ results' = results
        BY <2>1, Zenon
      <3>3. Begun' = Begun /\ Drained' = Drained
        BY ONLY <3>2, Zenon DEF Begun, Elements, Drained
      <3>4. Drained = {}
        BY ONLY <3>1 DEF Drained
      <3> QED
        BY <3>1, <3>3, <3>4, Zenon
    <2>4. ASSUME NEW s \in Sessions
          PROVE  /\ s \notin Doomed => events'[s] = events[s]
                 /\ s \in Doomed => events'[s] \in Lives
      BY <1>2, ReportLeaves, Zenon
    <2>5. events' \in [Sessions -> Beginnings]
      <3>1. \A s \in Sessions : events'[s] \in Beginnings
        BY <1>0, <2>4, Zenon DEF Beginnings
      <3> QED
        BY <2>1, <3>1, Zenon
    <2>6. Handed'
      BY <2>1, <2>2, <2>3, Zenon DEF Stories, Handed
    <2>7. \A s \in Sessions : LifeThere(s)'
      <3>1. Doomed \cap (Waiting \cup InHand \cup Finished) = {}
        BY <1>0, Zenon DEF JobsAccounted
      <3> QED
        BY <1>0, <2>2, <2>3, <2>4, <3>1, Zenon DEF LifeThere, Progress
    <2>8. \A s \in Sessions : told[s] = "nothing" => events'[s] = events[s]
      BY <2>4, NotGiven, Zenon
    <2> QED
      BY <2>1, <2>5, <2>6, <2>7, <2>8, ThereSuffices, ZenonT(30)
  <1> QED
    BY <1>1, <1>2, Zenon

\* Steps that publish nothing: the worker takes a job, stores its result, or
\* moves on; the abort is requested; the activity callback is set.
LEMMA SilentTells ==
    ASSUME ManagedInv, Stories, UNCHANGED <<recordingVars, sessionVars>>,
           Worker \/ ShutdownAbort \/ \E present \in BOOLEAN : SetActivityCallback(present)
    PROVE  Stories'
  <1>0. /\ events \in [Sessions -> Beginnings]
        /\ \A s \in Sessions : LifeHere(s) /\ LifeThere(s)
        /\ JobsAccounted /\ Flags /\ QueueTypeOK
        /\ UNCHANGED <<nextId, opening, active, state, events, results, call, Drained>>
    BY Zenon DEF Stories, ManagedInv, recordingVars, managerVars, sessionVars, Drained
  <1>1. ASSUME NotEnqueue, told' = told,
               Begun' \subseteq InHand' \cup Finished' \cup Drained, \A s \in Sessions : LifeThere(s)'
        PROVE  Stories'
    <2>1. Handed'
      BY <1>0, <1>1, Zenon DEF Stories, Handed
    <2> QED
      BY <1>0, <1>1, <2>1, ThereSuffices, Zenon
  <1>2. CASE RunTake
    <2>1. /\ Waiting = {Head(pending)} \cup Waiting' /\ Head(pending) \notin Waiting'
          /\ InHand = {} /\ InHand' = {Head(pending)}
          /\ UNCHANGED <<Finished, Doomed>>
      BY <1>0, <1>2, TakeMoves, Zenon
    <2> PICK h : h = Head(pending)
      BY Zenon
    <2>2. h \in Sessions /\ h \in Waiting /\ started \in Seq(Sessions) /\ started' = Append(started, h)
          /\ told' = told
      BY <1>0, <1>2, <2>1, DrainedIsGone, ZenonT(30) DEF RunTake, QueueTypeOK, ownerVars
    <2>3. Begun' = Begun \cup {h}
      <3>1. /\ Len(started') = Len(started) + 1 /\ Len(started) \in Nat
            /\ DOMAIN started = 1 .. Len(started) /\ DOMAIN started' = 1 .. Len(started')
            /\ \A i \in 1 .. Len(started) : started'[i] = started[i]
            /\ started'[Len(started) + 1] = h
        BY <2>2, AppendProperties, LenProperties, SMTT(20)
      <3> QED
        BY <3>1, SMTT(20) DEF Begun, Elements
    <2>4. h \notin Finished /\ h \notin Doomed /\ h \notin Drained
      BY <1>0, <2>2, DrainedIsGone, Zenon DEF JobsAccounted
    <2>5. \A s \in Sessions : LifeThere(s)'
      BY <1>0, <2>1, <2>2, <2>3, <2>4, Zenon DEF LifeThere, Progress
    <2>6. Begun' \subseteq InHand' \cup Finished' \cup Drained
      BY <2>1, <2>3, Zenon DEF Stories, Handed
    <2> QED
      BY <1>1, <1>2, <2>2, <2>5, <2>6, Zenon DEF NotEnqueue
  <1>3. CASE StoreResult
    <2>1. /\ InHand = {job} /\ InHand' = {} /\ Finished' = Finished \cup {job}
          /\ UNCHANGED <<Waiting, Doomed>>
      BY <1>0, <1>3, StoreMoves, Zenon
    <2>2. UNCHANGED <<told, started, Begun>>
      BY <1>3, Zenon DEF StoreResult, ownerVars, Begun, Elements
    <2>3. \A s \in Sessions : LifeThere(s)'
      BY <1>0, <2>1, <2>2, Zenon DEF LifeThere, Progress
    <2>4. Begun' \subseteq InHand' \cup Finished' \cup Drained
      BY <2>1, <2>2, Zenon DEF Stories, Handed
    <2> QED
      BY <1>1, <1>3, <2>2, <2>3, <2>4, Zenon DEF NotEnqueue
  <1>4. CASE \/ RunExit \/ NotifyCopy \/ NotifyCall \/ \E ok \in BOOLEAN : Transcribed(ok)
             \/ ShutdownAbort \/ \E present \in BOOLEAN : SetActivityCallback(present)
    <2>1. Still /\ started' = started
      BY <1>4, Zenon DEF Still, RunExit, NotifyCopy, NotifyCall, Transcribed, ShutdownAbort, SetActivityCallback, sharedVars
    <2>2. UNCHANGED <<told, Waiting, Finished, Doomed, InHand, Begun>>
      BY <2>1, StillMoves, Zenon DEF Waiting, Finished, Doomed, Begun, Elements
    <2>3. \A s \in Sessions : LifeThere(s)'
      BY <1>0, <2>2, Zenon DEF LifeThere, Progress
    <2>4. Begun' \subseteq InHand' \cup Finished' \cup Drained
      BY <2>2, Zenon DEF Stories, Handed
    <2> QED
      BY <1>1, <2>1, <2>2, <2>3, <2>4, Zenon DEF NotEnqueue
  <1> QED
    BY <1>2, <1>3, <1>4, Zenon DEF Worker

\* Every step of every thread continues the stories.
LEMMA StoriesNext ==
    ASSUME ManagedInv, Views, Stories, [SessionNext]_managedVars
    PROVE  Stories'
  <1>1. CASE QueueUntouched
    BY <1>1, HereSteps, Zenon
  <1>2. CASE StopSessionQueues
    BY <1>2, QueuesTells, Zenon
  <1>3. CASE \E s \in Sessions : CancelJob(s)
    BY <1>3, CancelTells, Zenon
  <1>4. CASE PollDrains \/ PollPublishes
    BY <1>4, DrainTells, PublishTells, Zenon
  <1>5. CASE ShutdownBegins \/ ShutdownReports
    BY <1>5, ShutdownTells, Zenon
  <1>6. CASE WorkerThread \/ ShutdownRequestsAbort \/ \E present \in BOOLEAN : SetCallback(present)
    BY <1>6, SilentTells, Zenon DEF WorkerThread, ShutdownRequestsAbort, SetCallback
  <1>7. CASE UNCHANGED managedVars
    <2>1. /\ UNCHANGED <<pending, started, completed, wpc, job, dropped, told, nextId, opening, active, state,
                         call, events, results>>
      BY <1>7, Zenon DEF managedVars, queueVars, sharedVars, workerVars, ownerVars, recordingVars, managerVars, sessionVars
    <2>2. /\ UNCHANGED <<queueVars, results>>
      BY <1>7, Zenon DEF managedVars, sessionVars
    <2>3. Handed' /\ \A s \in Sessions : LifeThere(s)'
      BY <2>1, <2>2, HereKeepsThere, Zenon DEF Stories
    <2> QED
      BY <2>1, <2>3, Zenon DEF Stories, LifeHere, Fresh
  <1> QED
    BY <1>1, <1>2, <1>3, <1>4, <1>5, <1>6, <1>7, ZenonT(30)
       DEF SessionNext, ControllingThread, ShutdownSteps, QueueUntouched

\* A session that was announced and has not been given its end is with the
\* manager, in the queue, or among the results about to be published.
Somewhere == Waiting \cup InHand \cup Finished \cup Doomed \cup Drained

Told(s) == events[s] = <<>> \/ events[s] \in Lives

NoneForgotten ==
    \A s \in Sessions : Told(s) \/ (s = active /\ state # "Idle") \/ s \in Somewhere

\* A step that moves no session keeps all of them in sight when it says nothing
\* about a session other than the one the manager has before, or after it.
LEMMA HereForgetsNone ==
    ASSUME ManagedInv, Views, Stories, NoneForgotten, QueueUntouched
    PROVE  NoneForgotten'
  <1>0. /\ events \in [Sessions -> Beginnings] /\ \A s \in Sessions : LifeHere(s)
    BY Zenon DEF Stories
  <1>1. UNCHANGED <<queueVars, results>>
    BY Zenon DEF QueueUntouched, StartSessionFails, StartSessionStreams, StartSessionReturns, StopSessionReads,
           StopSessionLost, StopSessionTakes, StopSessionRefused, CancelSessionReads, CancelSessionStops,
           CancelSessionAcknowledges, AudioThread, CanStart, Forget, sessionVars
  <1>2. Somewhere' = Somewhere
    <2>1. UNCHANGED <<pending, completed, wpc, job, dropped>>
      BY <1>1, Zenon DEF queueVars, sharedVars, workerVars, ownerVars
    <2> QED
      BY <1>1, <2>1, ZenonT(30) DEF Somewhere, Waiting, Doomed, InHand, Running, Finished, Drained
  <1>3. CASE \/ StartSessionFails \/ StartSessionStreams \/ StopSessionReads \/ CancelSessionReads \/ AudioThread
    <2>1. UNCHANGED <<events, state, active>>
      BY <1>3, Zenon DEF StartSessionFails, StartSessionStreams, StopSessionReads, CancelSessionReads, AudioThread, sessionVars
    <2> QED
      BY <1>2, <2>1, Zenon DEF NoneForgotten, Told
  <1>4. CASE StartSessionReturns
    <2> PICK a : a = opening
      BY Zenon
    <2>1. /\ events' = [events EXCEPT ![a] = events[a] \o <<"RecordingStarted">>]
          /\ active' = a /\ state' = "Recording" /\ state = "Idle"
      BY <1>4, Zenon DEF StartSessionReturns, Publish, Views
    <2>2. \A s \in Sessions \ {a} : events'[s] = events[s]
      BY <1>0, <2>1, Zenon
    <2> QED
      BY <1>2, <2>1, <2>2, Zenon DEF NoneForgotten, Told
  <1>5. CASE StopSessionLost \/ StopSessionTakes \/ StopSessionRefused
    <2> PICK a : a = active
      BY Zenon
    <2>1. PICK kinds : events' = [events EXCEPT ![a] = events[a] \o kinds]
      BY <1>5, Zenon DEF StopSessionLost, StopSessionTakes, StopSessionRefused, Views, Publish
    <2>2. active' = a /\ state' # "Idle"
      BY <1>5, Zenon DEF StopSessionLost, StopSessionTakes, StopSessionRefused, Views
    <2>3. \A s \in Sessions \ {a} : events'[s] = events[s]
      BY <1>0, <2>1, Zenon
    <2> QED
      BY <1>2, <2>2, <2>3, Zenon DEF NoneForgotten, Told
  <1>6. CASE CancelSessionStops \/ CancelSessionAcknowledges
    <2> PICK a : a = active
      BY Zenon
    <2>1. /\ a \in Sessions
          /\ \/ call = "cancel" /\ events[a] = LifeRecording
             \/ call = "none" /\ events[a] \in {LifeLost, LifeRefused}
      BY <1>0, <1>6, NotYetGiven, Zenon DEF CancelSessionStops, CancelSessionAcknowledges, Views, LifeHere
    <2>2. PICK kinds : /\ events' = [events EXCEPT ![a] = events[a] \o kinds]
                       /\ \/ kinds = <<"SessionCancelled">>
                          \/ call = "cancel" /\ kinds = <<"RecordingFinished", "SessionCancelled">>
      BY <1>6, Zenon DEF CancelSessionStops, CancelSessionAcknowledges, Publish
    <2>3. events[a] \o kinds \in Lives
      BY <2>1, <2>2, LifeSteps, Zenon
    <2>4. events'[a] \in Lives /\ \A s \in Sessions \ {a} : events'[s] = events[s]
      BY <1>0, <2>1, <2>2, <2>3, Zenon
    <2> QED
      BY <1>2, <2>4, Zenon DEF NoneForgotten, Told
  <1> QED
    BY <1>3, <1>4, <1>5, <1>6, Zenon DEF QueueUntouched

\* Every step keeps every session in sight until its end has been published.
LEMMA ForgetsNone ==
    ASSUME ManagedInv, Views, Stories, NoneForgotten, [SessionNext]_managedVars
    PROVE  NoneForgotten'
  <1>0. /\ events \in [Sessions -> Beginnings] /\ \A s \in Sessions : LifeHere(s) /\ LifeThere(s)
        /\ QueueTypeOK /\ Flags /\ JobsAccounted
    BY Zenon DEF Stories, ManagedInv
  <1> USE DEF Somewhere
  <1>1. CASE QueueUntouched
    BY <1>1, HereForgetsNone, Zenon
  <1>2. CASE StopSessionQueues
    <2> PICK a : a = active
      BY Zenon
    <2>1. /\ a \in Sessions /\ told[a] = "nothing" /\ TryEnqueue(a) /\ results' = results
          /\ events' = [events EXCEPT ![a] = events[a] \o <<"TranscriptionQueued">>]
      BY <1>2, NotYetGiven, Zenon DEF StopSessionQueues, Publish, ManagedInv, Ids
    <2>2. Waiting' = Waiting \cup {a} /\ UNCHANGED <<InHand, Finished, Doomed>>
      BY <1>0, <2>1, EnqueueMoves, Zenon
    <2>3. Drained' = Drained /\ \A s \in Sessions \ {a} : events'[s] = events[s]
      BY <1>0, <2>1, Zenon DEF Drained
    <2> QED
      BY <2>2, <2>3, Zenon DEF NoneForgotten, Told
  <1>3. ASSUME NEW j \in Sessions, CancelJob(j) PROVE NoneForgotten'
    <2>1. /\ CancelPending(j) /\ UNCHANGED <<active, state, results>>
          /\ events' = [events EXCEPT ![j] = events[j] \o <<"SessionCancelled">>]
      BY <1>3, Zenon DEF CancelJob, Publish
    <2>2. j \in Waiting /\ Waiting' = Waiting \ {j} /\ UNCHANGED <<InHand, Finished, Doomed>>
      BY <1>0, <2>1, CancelMoves, Zenon
    <2>3. events[j] \o <<"SessionCancelled">> \in Lives
      BY <1>0, <2>2, LifeSteps, Zenon DEF LifeThere
    <2>4. events'[j] \in Lives /\ \A s \in Sessions \ {j} : events'[s] = events[s]
      BY <1>0, <2>1, <2>3, Zenon
    <2>5. Drained' = Drained
      BY <2>1, Zenon DEF Drained
    <2> QED
      BY <2>1, <2>2, <2>4, <2>5, Zenon DEF NoneForgotten, Told
  <1>4. CASE PollDrains
    <2>1. DrainCompleted /\ results' = completed /\ results = <<>> /\ UNCHANGED <<active, state, events>>
      BY <1>4, Zenon DEF PollDrains, Stories, Handed
    <2>2. Drained' = Finished /\ Drained = {}
      BY <2>1 DEF Drained, Finished
    <2>3. UNCHANGED <<Waiting, InHand, Doomed>>
      BY <1>0, <2>1, DrainMoves, Zenon
    <2> QED
      BY <2>1, <2>2, <2>3, Zenon DEF NoneForgotten, Told
  <1>5. CASE PollPublishes
    <2>1. DrainStarted /\ UNCHANGED <<active, state>>
      BY <1>5, Zenon DEF PollPublishes
    <2>2. UNCHANGED <<pending, completed, dropped, InHand>>
      BY <2>1, StillMoves, Zenon DEF Still
    <2>3. UNCHANGED <<Waiting, InHand, Finished, Doomed>>
      BY <2>2, Zenon DEF Waiting, Finished, Doomed
    <2>4. Begun \subseteq InHand \cup Finished \cup Drained
      BY Zenon DEF Stories, Handed
    <2> QED
      BY <1>5, <2>1, <2>3, <2>4, PublishLeaves, Zenon DEF NoneForgotten, Told
  <1>6. CASE ShutdownBegins
    <2>1. ShutdownLocked /\ UNCHANGED <<active, state, events, results>>
      BY <1>6, Zenon DEF ShutdownBegins
    <2>2. Doomed' = Waiting /\ Doomed = {} /\ UNCHANGED <<InHand, Finished>>
      BY <1>0, <2>1, LockMoves, Zenon
    <2>3. Drained' = Drained
      BY <2>1, Zenon DEF Drained
    <2> QED
      BY <2>1, <2>2, <2>3, Zenon DEF NoneForgotten, Told
  <1>7. CASE ShutdownReports
    <2>1. ShutdownJoin /\ UNCHANGED <<active, state, results>>
      BY <1>7, Zenon DEF ShutdownReports
    <2>2. UNCHANGED <<Waiting, InHand, Finished>>
      BY <1>0, <2>1, JoinMoves, Zenon
    <2>3. Drained' = Drained
      BY <2>1, Zenon DEF Drained
    <2> QED
      BY <1>7, <2>1, <2>2, <2>3, ReportLeaves, Zenon DEF NoneForgotten, Told
  <1>8. CASE WorkerThread \/ ShutdownRequestsAbort \/ \E present \in BOOLEAN : SetCallback(present)
    <2>1. UNCHANGED <<active, state, events, results>>
      BY <1>8, Zenon DEF WorkerThread, ShutdownRequestsAbort, SetCallback, sessionVars
    <2>2. Drained' = Drained
      BY <2>1, Zenon DEF Drained
    <2>3. Waiting \cup InHand \cup Finished \cup Doomed \subseteq Waiting' \cup InHand' \cup Finished' \cup Doomed'
      <3>1. CASE RunTake
        BY <1>0, <3>1, TakeMoves, Zenon
      <3>2. CASE StoreResult
        BY <1>0, <3>2, StoreMoves, Zenon
      <3>3. CASE Still
        <4>1. UNCHANGED <<pending, completed, dropped, InHand>>
          BY <3>3, StillMoves, Zenon
        <4> QED
          BY <4>1, Zenon DEF Waiting, Finished, Doomed
      <3> QED
        BY <1>8, <3>1, <3>2, <3>3, Zenon DEF WorkerThread, Worker, ShutdownRequestsAbort, SetCallback, Still
    <2> QED
      BY <2>1, <2>2, <2>3, Zenon DEF NoneForgotten, Told
  <1>9. CASE UNCHANGED managedVars
    <2>1. UNCHANGED <<pending, completed, wpc, job, dropped, active, state, events, results>>
      BY <1>9, Zenon DEF managedVars, queueVars, sharedVars, workerVars, ownerVars, sessionVars
    <2> QED
      BY <2>1, ZenonT(30) DEF NoneForgotten, Told, Waiting, Finished, Doomed, InHand, Running, Drained
  <1> QED
    BY <1>1, <1>2, <1>3, <1>4, <1>5, <1>6, <1>7, <1>8, <1>9, ZenonT(30)
       DEF SessionNext, ControllingThread, ShutdownSteps, QueueUntouched

\* Both hold in every reachable state: what is published of a session follows
\* from where it is, and it is somewhere until its end has been published.
THEOREM StoriesAlways == SessionSpec => [](Stories /\ NoneForgotten)
  <1>1. SessionInit => Stories /\ NoneForgotten
    <2> SUFFICES ASSUME SessionInit PROVE Stories /\ NoneForgotten
      BY Zenon
    <2>1. /\ events = [s \in Sessions |-> <<>>] /\ results = <<>> /\ started = <<>> /\ pending = <<>>
          /\ completed = <<>> /\ dropped = <<>> /\ wpc = "wait" /\ state = "Idle"
      BY Zenon DEF SessionInit, QueueInit
    <2>2. Begun = {} /\ Drained = {} /\ Waiting = {} /\ Finished = {} /\ Doomed = {} /\ InHand = {}
      BY <2>1, SMTT(20) DEF Begun, Elements, Drained, Waiting, Finished, Doomed, InHand, Running
    <2>3. Handed
      BY <2>1, <2>2, SMTT(20) DEF Handed
    <2>4. Stories
      BY <2>1, <2>2, <2>3, Zenon DEF Stories, Beginnings, LifeHere, LifeThere
    <2> QED
      BY <2>1, <2>4, Zenon DEF NoneForgotten, Told
  <1>2. ManagedInv /\ Views /\ Stories /\ NoneForgotten /\ [SessionNext]_managedVars => Stories' /\ NoneForgotten'
    BY StoriesNext, ForgetsNone, Zenon
  <1> QED
    BY <1>1, <1>2, ManagedInvariant, ViewsAlways, PTL DEF SessionSpec

\* What subscribers are told of a session is always the beginning of a legal
\* life, for any number of sessions and any capacity: starts and results drained
\* in two steps, cancellations and shutdown never publish out of order or twice.
THEOREM PublishedLivesAreLegalAlways == SessionSpec => []PublishedLivesAreLegal
  <1>1. Stories => PublishedLivesAreLegal
    BY BeginningsAreLegal, Zenon DEF Stories, PublishedLivesAreLegal
  <1> QED
    BY <1>1, StoriesAlways, PTL

-----------------------------------------------------------------------------
(* The order of the results *)

\* Of the positions of a sequence that have a property, one is the last.
LEMMA LastPosition ==
    ASSUME NEW n \in Nat, NEW T, T \subseteq 1 .. n, T # {}
    PROVE  \E i \in T : \A k \in T : k <= i
  <1> DEFINE R == OpToRel(<, Nat)
             U == {n - i : i \in T}
  <1>1. U \subseteq Nat /\ U # {}
    <2>1. \A i \in T : n - i \in Nat
      OBVIOUS
    <2>2. PICK i : i \in T
      BY Zenon
    <2> QED
      BY <2>1, <2>2, Zenon
  <1>2. PICK x \in U : \A y \in U : ~(<<y, x>> \in R)
    <2>1. IsWellFoundedOn(R, Nat)
      BY NatLessThanWellFounded, Zenon
    <2> HIDE DEF R, U
    <2> QED
      BY <1>1, <2>1, WFMin, Zenon
  <1>3. \A y \in U : ~(y < x)
    BY <1>1, <1>2, Zenon DEF OpToRel
  <1>4. PICK i \in T : x = n - i
    BY <1>2, Zenon
  <1>5. ASSUME NEW k \in T PROVE k <= i
    <2>1. n - k \in U /\ ~(n - k < x)
      BY <1>3, Zenon
    <2> QED
      BY <1>4, <2>1
  <1> QED
    BY <1>5, Zenon

\* The ids whose outcome was published last, and what it is for ids to precede
\* others and to rise along a sequence.
Published == {lastCompleted, lastFailed} \ {NoSession}

Before(A, B) == \A a \in A, b \in B : a < b
Rising(s)    == \A i, k \in DOMAIN s : i < k => s[i] < s[k]
RisingIds(s) == \A i, k \in DOMAIN s : i < k => s[i].id < s[k].id

\* Sessions are in order of their ids from the last one published back to the end
\* of the line; ...
InLine ==
    /\ Rising(pending) /\ RisingIds(completed) /\ RisingIds(results)
    /\ Before(Published, Drained \cup Finished \cup InHand \cup Waiting)
    /\ Before(Drained, Finished \cup InHand \cup Waiting)
    /\ Before(Finished, InHand \cup Waiting)
    /\ Before(InHand, Waiting)

\* ... and the one being recorded, which will join the line, is the latest of all.
Latest ==
    /\ call = "start" => opening = nextId - 1
    /\ state = "Recording" => active = nextId - 1

\* The inductive invariant behind ResultsInOrder.
InOrder == InLine /\ Latest /\ \A s \in Published : s \in Sessions /\ told[s] # "nothing"


\* What rises still rises when something later is appended, when the front is
\* taken, and when a position is erased.
LEMMA RisingKept ==
    ASSUME NEW s \in Seq(Sessions), Rising(s)
    PROVE  /\ \A e \in Sessions : Before(Elements(s), {e}) => Rising(Append(s, e))
           /\ s # <<>> => Rising(Tail(s)) /\ Before({Head(s)}, Elements(Tail(s)))
           /\ \A i \in 1 .. Len(s) : Rising(Erase(s, i))
  <1>0. /\ Len(s) \in Nat /\ DOMAIN s = 1 .. Len(s) /\ \A k \in 1 .. Len(s) : s[k] \in Nat
    BY LenProperties, ElementOfSeq, CounterAssumption, Zenon DEF CounterAssumption
  <1>1. ASSUME NEW e \in Sessions, Before(Elements(s), {e}) PROVE Rising(Append(s, e))
    <2> DEFINE t == Append(s, e)
    <2>1. /\ DOMAIN t = 1 .. Len(s) + 1 /\ t[Len(s) + 1] = e /\ \A k \in 1 .. Len(s) : t[k] = s[k]
      BY <1>0, AppendProperties, LenProperties
    <2>2. \A k \in 1 .. Len(s) : s[k] < e
      BY <1>0, <1>1, Zenon DEF Before, Elements
    <2> HIDE DEF t
    <2>3. ASSUME NEW i \in DOMAIN t, NEW k \in DOMAIN t, i < k PROVE t[i] < t[k]
      BY <1>0, <2>1, <2>2, <2>3, SMTT(20) DEF Rising
    <2> QED
      BY <2>3, Zenon DEF Rising, t
  <1>2. ASSUME s # <<>> PROVE Rising(Tail(s)) /\ Before({Head(s)}, Elements(Tail(s)))
    <2> DEFINE t == Tail(s)
    <2>1. /\ t \in Seq(Sessions) /\ Len(t) = Len(s) - 1 /\ \A i \in 1 .. Len(t) : t[i] = s[i + 1]
      BY <1>2, HeadTailProperties, Zenon
    <2>2. /\ Head(s) = s[1] /\ Len(s) # 0
      BY <1>2, EmptySeq
    <2>3. DOMAIN t = 1 .. Len(s) - 1
      BY <2>1, LenProperties, Zenon
    <2> HIDE DEF t
    <2>4. ASSUME NEW i \in DOMAIN t, NEW k \in DOMAIN t, i < k PROVE t[i] < t[k]
      <3>1. /\ i + 1 \in DOMAIN s /\ k + 1 \in DOMAIN s /\ i + 1 < k + 1
            /\ t[i] = s[i + 1] /\ t[k] = s[k + 1]
        BY <1>0, <2>1, <2>3, <2>4, SMTT(20)
      <3> QED
        BY <3>1, Zenon DEF Rising
    <2>5. ASSUME NEW k \in DOMAIN t PROVE s[1] < t[k]
      <3>1. 1 \in DOMAIN s /\ k + 1 \in DOMAIN s /\ 1 < k + 1 /\ t[k] = s[k + 1]
        BY <1>0, <2>1, <2>2, <2>3, SMTT(20)
      <3> QED
        BY <3>1, Zenon DEF Rising
    <2> QED
      BY <2>2, <2>4, <2>5, Zenon DEF Rising, Before, Elements, t
  <1>3. ASSUME NEW i \in 1 .. Len(s) PROVE Rising(Erase(s, i))
    <2> DEFINE t == Erase(s, i)
    <2>1. /\ t \in Seq(Sessions) /\ Len(t) = Len(s) - 1
          /\ \A k \in 1 .. Len(s) - 1 : t[k] = IF k < i THEN s[k] ELSE s[k + 1]
      BY EraseAt, Zenon
    <2> HIDE DEF t
    <2>2. DOMAIN t = 1 .. Len(s) - 1
      BY <2>1, LenProperties, Zenon
    <2>3. ASSUME NEW k \in DOMAIN t, NEW m \in DOMAIN t, k < m PROVE t[k] < t[m]
      <3> DEFINE p(n) == IF n < i THEN n ELSE n + 1
      <3>1. p(k) \in DOMAIN s /\ t[k] = s[p(k)]
        BY <1>0, <2>1, <2>2, SMTT(20)
      <3>2. p(m) \in DOMAIN s /\ t[m] = s[p(m)]
        BY <1>0, <2>1, <2>2, SMTT(20)
      <3>3. p(k) < p(m)
        BY <1>0, <2>2, <2>3
      <3> QED
        BY <3>1, <3>2, <3>3, Zenon DEF Rising
    <2> QED
      BY <2>3, Zenon DEF Rising, t
  <1> QED
    BY <1>1, <1>2, <1>3, Zenon

\* Storing the result of a job later than all stored ones keeps them in order.
LEMMA StoreRises ==
    ASSUME QueueTypeOK, Flags, StoreResult, RisingIds(completed), Before(Finished, {job})
    PROVE  RisingIds(completed')
  <1> DEFINE r == [id |-> job, ok |-> result]
  <1>1. job \in Sessions /\ r \in Result /\ r.id = job
    BY Zenon DEF StoreResult, Flags, Running, QueueTypeOK, Result
  <1>2. completed' = Append(completed, r) /\ completed \in Seq(Result)
    BY Zenon DEF StoreResult, QueueTypeOK
  <1> HIDE DEF r
  <1>3. /\ Len(completed) \in Nat /\ DOMAIN completed = 1 .. Len(completed)
        /\ DOMAIN completed' = 1 .. Len(completed) + 1
        /\ \A i \in 1 .. Len(completed) : completed'[i] = completed[i]
        /\ completed'[Len(completed) + 1] = r
    BY <1>1, <1>2, AppendProperties, LenProperties, SMTT(20)
  <1>4. \A i \in 1 .. Len(completed) : completed[i].id < job
    BY <1>3, Zenon DEF Before, Finished
  <1>5. ASSUME NEW i \in DOMAIN completed', NEW k \in DOMAIN completed', i < k
        PROVE  completed'[i].id < completed'[k].id
    BY <1>1, <1>3, <1>4, <1>5, SMTT(20) DEF RisingIds
  <1> QED
    BY <1>5, Zenon DEF RisingIds

\* poll_completed() records as last outcome one of the results it publishes.
LEMMA LastIsDrained ==
    ASSUME Stories, PollPublishes
    PROVE  Published' \subseteq Published \cup Drained
  <1>0. results \in Seq(Result)
    BY Zenon DEF Stories, Handed
  <1>1. ASSUME NEW ok \in BOOLEAN, NEW before PROVE LastWith(ok, before) \in Drained \cup {before}
    <2> DEFINE T == {i \in DOMAIN results : results[i].ok = ok}
               Last(i) == /\ results[i].ok = ok
                          /\ \A k \in DOMAIN results : k > i => results[k].ok # ok
    <2>1. CASE T = {}
      BY <2>1, Zenon DEF LastWith
    <2>2. CASE T # {}
      <3>1. Len(results) \in Nat /\ DOMAIN results = 1 .. Len(results)
        BY <1>0, LenProperties, Zenon
      <3>2. PICK i \in T : \A k \in T : k <= i
        BY <2>2, <3>1, LastPosition, Zenon
      <3>3. \E j \in DOMAIN results : Last(j)
        BY <3>1, <3>2
      <3>4. (CHOOSE j \in DOMAIN results : Last(j)) \in DOMAIN results
        BY <3>3, Zenon
      <3>5. LastWith(ok, before) = results[CHOOSE j \in DOMAIN results : Last(j)].id
        BY <2>2, Zenon DEF LastWith
      <3> QED
        BY <3>4, <3>5, Zenon DEF Drained
    <2> QED
      BY <2>1, <2>2, Zenon
  <1>2. lastCompleted' = LastWith(TRUE, lastCompleted) /\ lastFailed' = LastWith(FALSE, lastFailed)
    BY Zenon DEF PollPublishes
  <1> QED
    BY <1>1, <1>2, Zenon DEF Published

\* The steps that leave the queue alone: no session moves, and the one being
\* recorded stays the latest.
LEMMA HereInOrder ==
    ASSUME ManagedInv, Views, InOrder, QueueUntouched
    PROVE  InOrder'
  <1>1. UNCHANGED <<queueVars, results, lastCompleted, lastFailed>>
    BY Zenon DEF QueueUntouched, StartSessionFails, StartSessionStreams, StartSessionReturns, StopSessionReads,
           StopSessionLost, StopSessionTakes, StopSessionRefused, CancelSessionReads, CancelSessionStops,
           CancelSessionAcknowledges, AudioThread, CanStart, Forget, sessionVars
  <1>2. UNCHANGED <<pending, completed, wpc, job, told>>
    BY <1>1, Zenon DEF queueVars, sharedVars, workerVars, ownerVars
  <1>3. UNCHANGED <<Published, Drained, Finished, InHand, Waiting>>
    BY <1>1, <1>2, Zenon DEF Published, Drained, Finished, InHand, Running, Waiting
  <1>4. InLine'
    BY <1>1, <1>2, <1>3, Zenon DEF InOrder, InLine
  <1>5. Latest'
    <2>1. Latest /\ nextId \in Nat
      BY Zenon DEF InOrder, ManagedInv, Ids
    <2>2. CASE StartSessionFails \/ StartSessionStreams
      BY <2>1, <2>2 DEF StartSessionFails, StartSessionStreams, CanStart, RecordStreams, Latest
    <2>3. CASE StartSessionReturns
      BY <2>1, <2>3, Zenon DEF StartSessionReturns, Latest
    <2>4. CASE StopSessionReads \/ StopSessionLost \/ StopSessionTakes \/ StopSessionRefused
      BY <2>1, <2>4, Zenon DEF StopSessionReads, StopSessionLost, StopSessionTakes, StopSessionRefused, Latest
    <2>5. CASE CancelSessionReads \/ CancelSessionStops \/ CancelSessionAcknowledges
      BY <2>1, <2>5, Zenon DEF CancelSessionReads, CancelSessionStops, CancelSessionAcknowledges, Forget, Latest
    <2>6. CASE AudioThread
      BY <2>1, <2>6, Zenon DEF AudioThread, OnSamples, managerVars, sessionVars, Latest
    <2> QED
      BY <2>2, <2>3, <2>4, <2>5, <2>6, Zenon DEF QueueUntouched
  <1> QED
    BY <1>2, <1>3, <1>4, <1>5, Zenon DEF InOrder

\* Every step keeps the order.
LEMMA OrderNext ==
    ASSUME ManagedInv, Views, Stories, InOrder, [SessionNext]_managedVars
    PROVE  InOrder'
  <1>0. /\ QueueTypeOK /\ Flags /\ JobsAccounted
        /\ pending \in Seq(Sessions) /\ Rising(pending)
        /\ Waiting = Elements(pending) /\ Waiting' = Elements(pending')
        /\ nextId \in Nat /\ Sessions \subseteq Nat
        /\ told \in [Sessions -> {"nothing", "queued", "cancelled", "dropped", "ok", "error"}]
    BY CounterAssumption, Zenon DEF CounterAssumption, ManagedInv, Ids, QueueTypeOK, InOrder, InLine, Waiting, Elements
  <1>1. Waiting \cup InHand \cup Finished \cup Drained \subseteq Sessions
    BY DrainedIsGone, Zenon
  \* It is enough to look at the line when the step leaves the manager's own
  \* sessions alone and publishes no outcome.
  <1>2. ASSUME InLine', UNCHANGED <<opening, nextId, state, active>>, call' = "start" => call = "start",
               UNCHANGED <<lastCompleted, lastFailed>>,
               \A s \in Sessions : told[s] # "nothing" => told'[s] # "nothing"
        PROVE  InOrder'
    BY <1>2, Zenon DEF InOrder, Latest, Published
  <1>3. CASE QueueUntouched
    BY <1>3, HereInOrder, Zenon
  <1>4. CASE StopSessionQueues
    <2> PICK a : a = active
      BY Zenon
    <2>1. /\ a \in Sessions /\ told[a] = "nothing" /\ a = nextId - 1 /\ TryEnqueue(a)
          /\ call' = "none" /\ state' = "Idle" /\ UNCHANGED <<results, lastCompleted, lastFailed, completed>>
      BY <1>4, NotYetGiven, Zenon DEF StopSessionQueues, ManagedInv, Ids, InOrder, Latest, TryEnqueue
    <2>2. Waiting' = Waiting \cup {a} /\ UNCHANGED <<InHand, Finished, Published, Drained>>
      BY <1>0, <2>1, EnqueueMoves, Zenon DEF Published, Drained
    <2>3. \A s \in Sessions : told[s] # "nothing" => s < a /\ told'[s] # "nothing"
      <3>1. \A s \in Sessions : told[s] # "nothing" => s < nextId /\ s # a
        BY <1>0, <2>1 DEF ManagedInv, Ids
      <3>2. \A s \in Sessions : s < nextId /\ s # a => s < a
        BY <1>0, <2>1
      <3> QED
        BY <1>0, <2>1, <3>1, <3>2, Zenon DEF TryEnqueue
    <2>4. \A s \in Waiting \cup InHand \cup Finished \cup Drained \cup Published : s < a
      <3>1. \A s \in Waiting \cup InHand \cup Finished \cup Drained : told[s] # "nothing"
        BY <1>1, NotGiven, Zenon
      <3> QED
        BY <1>1, <2>3, <3>1, Zenon DEF InOrder
    <2>5. Rising(pending')
      BY <1>0, <2>1, <2>4, RisingKept, Zenon DEF Before, TryEnqueue
    <2>6. InLine'
      <3>1. Before(Published, {a}) /\ Before(Drained, {a}) /\ Before(Finished, {a}) /\ Before(InHand, {a})
        BY <2>4, Zenon DEF Before
      <3>2. /\ Before(Published', (Drained \cup Finished \cup InHand \cup Waiting)')
            /\ Before(Drained', (Finished \cup InHand \cup Waiting)')
            /\ Before(Finished', (InHand \cup Waiting)')
            /\ Before(InHand', Waiting')
        BY <2>2, <3>1, Zenon DEF InOrder, InLine, Before
      <3>3. RisingIds(completed') /\ RisingIds(results')
        BY <2>1, Zenon DEF InOrder, InLine
      <3> QED
        BY <2>5, <3>2, <3>3, Zenon DEF InLine
    <2> QED
      BY <2>1, <2>2, <2>3, <2>6, ZenonT(30) DEF InOrder, Latest
  <1>5. ASSUME NEW j \in Sessions, CancelJob(j) PROVE InOrder'
    <2>1. /\ CancelPending(j) /\ UNCHANGED <<call, nextId, opening, active, state, results, lastCompleted, lastFailed, completed>>
      BY <1>5, Zenon DEF CancelJob, CancelPending, recordingVars, managerVars
    <2>2. Waiting' = Waiting \ {j} /\ UNCHANGED <<InHand, Finished, Published, Drained>>
      BY <1>0, <2>1, CancelMoves, Zenon DEF Published, Drained
    <2>3. PICK i \in DOMAIN pending : pending' = Erase(pending, i)
      BY <2>1, Zenon DEF CancelPending, Erase
    <2>4. Rising(pending')
      BY <1>0, <2>3, LenProperties, RisingKept, Zenon
    <2>5. InLine'
      BY <2>1, <2>2, <2>4, Zenon DEF InOrder, InLine, Before
    <2> QED
      BY <1>0, <1>2, <2>1, <2>5, Zenon DEF CancelPending
  <1>6. CASE PollDrains
    <2>1. /\ DrainCompleted /\ results' = completed /\ results = <<>> /\ call' = "poll" /\ completed' = <<>>
          /\ UNCHANGED <<nextId, opening, active, state, lastCompleted, lastFailed, pending>>
      BY <1>6, Zenon DEF PollDrains, DrainCompleted, Stories, Handed, recordingVars, managerVars
    <2>2. /\ Drained' = Finished /\ Drained = {} /\ Finished' = {} /\ UNCHANGED <<Waiting, InHand, Published>>
      BY <1>0, <2>1, DrainMoves, Zenon DEF Drained, Finished, Published
    <2>3. InLine'
      BY <2>1, <2>2, Zenon DEF InOrder, InLine, Before, RisingIds
    <2> QED
      BY <1>0, <1>2, <2>1, <2>3, Zenon DEF DrainCompleted
  <1>7. CASE PollPublishes
    <2>1. /\ DrainStarted /\ results' = <<>> /\ call' = "none"
          /\ UNCHANGED <<nextId, opening, active, state, told>>
      BY <1>7, Zenon DEF PollPublishes, DrainStarted, ownerVars, recordingVars, managerVars
    <2>2. UNCHANGED <<pending, completed, InHand>>
      BY <2>1, StillMoves, Zenon DEF Still
    <2>3. UNCHANGED <<Waiting, InHand, Finished>> /\ Drained' = {}
      BY <2>1, <2>2 DEF Waiting, Finished, Drained
    <2>4. Published' \subseteq Published \cup Drained
      BY <1>7, LastIsDrained, Zenon
    <2>5. InLine'
      BY <2>1, <2>2, <2>3, <2>4, SMTT(20) DEF InOrder, InLine, Before, RisingIds
    <2>6. \A s \in Published' : s \in Sessions /\ told[s] # "nothing"
      BY <1>1, <2>4, NotGiven, Zenon DEF InOrder
    <2> QED
      BY <2>1, <2>5, <2>6, Zenon DEF InOrder, Latest
  <1>8. CASE ShutdownBegins
    <2>1. /\ ShutdownLocked /\ call' = "shutdown" /\ pending' = <<>>
          /\ UNCHANGED <<nextId, opening, active, state, results, lastCompleted, lastFailed, completed, told>>
      BY <1>8, Zenon DEF ShutdownBegins, ShutdownLocked, recordingVars, managerVars
    <2>2. Waiting' = {} /\ UNCHANGED <<InHand, Finished, Published, Drained>>
      BY <1>0, <2>1, LockMoves, ZenonT(30) DEF Published, Drained
    <2>3. InLine'
      BY <2>1, <2>2 DEF InOrder, InLine, Before, Rising
    <2> QED
      BY <1>2, <2>1, <2>3, Zenon
  <1>9. CASE ShutdownReports
    <2>1. /\ ShutdownJoin /\ call' = "none"
          /\ UNCHANGED <<nextId, opening, active, state, results, lastCompleted, lastFailed, completed, pending>>
      BY <1>9, Zenon DEF ShutdownReports, ShutdownJoin, recordingVars, managerVars, sharedVars
    <2>2. UNCHANGED <<Waiting, InHand, Finished, Published, Drained>>
      BY <1>0, <2>1, JoinMoves, Zenon DEF Published, Drained
    <2>3. InLine'
      BY <2>1, <2>2, Zenon DEF InOrder, InLine
    <2> QED
      BY <1>0, <1>2, <2>1, <2>3, ZenonT(30) DEF ShutdownJoin
  <1>10. CASE WorkerThread \/ ShutdownRequestsAbort \/ (\E present \in BOOLEAN : SetCallback(present)) \/ UNCHANGED managedVars
    <2>1. UNCHANGED <<call, nextId, opening, active, state, results, lastCompleted, lastFailed, Published, Drained>>
      BY <1>10, Zenon DEF WorkerThread, ShutdownRequestsAbort, SetCallback, managedVars, recordingVars, managerVars, sessionVars,
                   Published, Drained
    <2>2. CASE RunTake
      <3>1. /\ Waiting = {Head(pending)} \cup Waiting' /\ InHand = {} /\ InHand' = {Head(pending)}
            /\ Finished' = Finished
        BY <1>0, <2>2, TakeMoves, Zenon
      <3>2. pending # <<>> /\ pending' = Tail(pending) /\ UNCHANGED <<completed, told>>
        BY <2>2, Zenon DEF RunTake, ownerVars
      <3>3. Rising(pending') /\ Before(InHand', Waiting')
        BY <1>0, <3>1, <3>2, RisingKept, ZenonT(30)
      <3>4. InLine'
        BY <2>1, <3>1, <3>2, <3>3, Zenon DEF InOrder, InLine, Before
      <3> QED
        BY <1>2, <2>1, <3>2, <3>4, Zenon
    <2>3. CASE StoreResult
      <3>1. InHand = {job} /\ InHand' = {} /\ Finished' = Finished \cup {job} /\ Waiting' = Waiting
        BY <1>0, <2>3, StoreMoves, Zenon
      <3>2. RisingIds(completed') /\ UNCHANGED <<pending, told>>
        BY <1>0, <2>3, <3>1, StoreRises, Zenon DEF InOrder, InLine, Before, StoreResult, ownerVars
      <3>3. InLine'
        BY <2>1, <3>1, <3>2, Zenon DEF InOrder, InLine, Before
      <3> QED
        BY <1>2, <2>1, <3>2, <3>3, Zenon
    <2>4. CASE Still
      <3>1. UNCHANGED <<pending, completed, told, InHand>>
        BY <2>4, StillMoves, Zenon
      <3>2. UNCHANGED <<Waiting, Finished>>
        BY <3>1, Zenon DEF Waiting, Finished
      <3>3. InLine'
        BY <2>1, <3>1, <3>2, Zenon DEF InOrder, InLine
      <3> QED
        BY <1>2, <2>1, <3>1, <3>3, Zenon
    <2> QED
      BY <1>10, <2>2, <2>3, <2>4, ZenonT(30)
         DEF WorkerThread, Worker, ShutdownRequestsAbort, SetCallback, managedVars, Still
  <1> QED
    BY <1>3, <1>4, <1>5, <1>6, <1>7, <1>8, <1>9, <1>10, ZenonT(30)
       DEF SessionNext, ControllingThread, ShutdownSteps, QueueUntouched

\* The line is in order in every reachable state of the manager.
THEOREM InOrderAlways == SessionSpec => []InOrder
  <1>1. SessionInit => InOrder
    BY DEF SessionInit, QueueInit, InOrder, InLine, Latest, Before, Rising, RisingIds, Published, Drained,
           Finished, InHand, Running, Waiting
  <1>2. ManagedInv /\ Views /\ Stories /\ InOrder /\ [SessionNext]_managedVars => InOrder'
    BY OrderNext, Zenon
  <1> QED
    BY <1>1, <1>2, ManagedInvariant, ViewsAlways, StoriesAlways, PTL DEF SessionSpec

\* Results are published in the order the sessions were recorded, for any number
\* of sessions, although starts and results are drained under separate locks and
\* jobs are cancelled and dropped in between.
THEOREM ResultsInOrderAlways == SessionSpec => []ResultsInOrder
  <1>1. ASSUME ManagedInv, Stories, InOrder PROVE ResultsInOrder
    <2> DEFINE u == results \o completed
    <2>1. results \in Seq(Result) /\ completed \in Seq(Result)
      BY <1>1, Zenon DEF ManagedInv, QueueTypeOK, Stories, Handed
    <2>2. /\ \A i \in DOMAIN u :
                \/ i \in DOMAIN results /\ u[i] = results[i]
                \/ i \notin DOMAIN results /\ i - Len(results) \in DOMAIN completed /\ u[i] = completed[i - Len(results)]
          /\ \A i, k \in DOMAIN u :
                i < k /\ i \notin DOMAIN results => k \notin DOMAIN results /\ i - Len(results) < k - Len(results)
      BY <2>1, ConcatAt, Zenon
    <2> HIDE DEF u
    <2>3. \A i \in DOMAIN u : u[i].id \in IF i \in DOMAIN results THEN Drained ELSE Finished
      BY <2>2, Zenon DEF Drained, Finished
    <2>4. ASSUME NEW i \in DOMAIN u, NEW k \in DOMAIN u, i < k PROVE u[i].id < u[k].id
      <3>1. CASE i \notin DOMAIN results
        BY <1>1, <2>2, <2>4, <3>1, Zenon DEF InOrder, InLine, RisingIds
      <3>2. CASE i \in DOMAIN results /\ k \in DOMAIN results
        BY <1>1, <2>2, <2>4, <3>2, ZenonT(30) DEF InOrder, InLine, RisingIds
      <3>3. CASE i \in DOMAIN results /\ k \notin DOMAIN results
        BY <1>1, <2>3, <3>3, Zenon DEF InOrder, InLine, Before
      <3> QED
        BY <3>1, <3>2, <3>3, Zenon
    <2>5. ASSUME NEW i \in DOMAIN u, NEW s \in Published PROVE s < u[i].id
      BY <1>1, <2>3, Zenon DEF InOrder, InLine, Before
    <2> QED
      BY <2>4, <2>5, Zenon DEF ResultsInOrder, Published, u
  <1> QED
    BY <1>1, ManagedInvariant, StoriesAlways, InOrderAlways, PTL

-----------------------------------------------------------------------------
(* The types of the fields *)

\* What the layers before leave open.
Fields ==
    /\ active \in Sessions \cup {NoSession}
    /\ phase \in SessionStates
    /\ nextId # 0
    /\ call \in Calls

\* Each step keeps the fields of their types.
LEMMA FieldsNext ==
    ASSUME RecordingInv, nextId \in Nat, Fields, [SessionNext]_managedVars
    PROVE  Fields'
  <1> USE DEF Fields, SessionStates, Calls
  <1>1. \A from \in SessionStates, to \in SessionStates : TryTransition(from, to) \in SessionStates
    BY Zenon DEF TryTransition
  <1>2. CASE StartSessionFails \/ StartSessionStreams
    <2>1. nextId' = nextId + 1 /\ call' \in {call, "start"} /\ UNCHANGED <<active, phase>>
      BY <1>2, Zenon DEF StartSessionFails, StartSessionStreams
    <2>2. nextId' # 0
      BY ONLY <2>1, nextId \in Nat
    <2> QED
      BY <2>1, <2>2, Zenon
  <1>3. CASE StartSessionReturns
    BY <1>1, <1>3, Zenon DEF StartSessionReturns, RecordingInv
  <1>4. CASE StopSessionReads \/ StopSessionLost \/ StopSessionTakes \/ StopSessionRefused \/ CancelSessionReads
    <2>1. /\ call' \in Calls /\ UNCHANGED <<active, nextId>>
          /\ phase' \in {phase, TryTransition(phase, "Failed"), TryTransition(phase, "Processing")}
      BY <1>4, Zenon DEF StopSessionReads, StopSessionLost, StopSessionTakes, StopSessionRefused, CancelSessionReads
    <2> QED
      BY <1>1, <2>1, Zenon
  <1>5. CASE StopSessionQueues \/ CancelSessionStops \/ CancelSessionAcknowledges
    BY <1>5, Zenon DEF StopSessionQueues, CancelSessionStops, CancelSessionAcknowledges, Forget
  <1>6. CASE (\E s \in Sessions : CancelJob(s)) \/ PollDrains \/ PollPublishes \/ ShutdownSteps
    <2>1. call' \in Calls /\ UNCHANGED <<active, phase, nextId>>
      BY <1>6, Zenon DEF CancelJob, PollDrains, PollPublishes, ShutdownSteps, ShutdownBegins,
                         ShutdownRequestsAbort, ShutdownReports, sessionVars
    <2> QED
      BY <2>1, Zenon
  <1>7. CASE (\E present \in BOOLEAN : SetCallback(present)) \/ WorkerThread \/ AudioThread \/ UNCHANGED managedVars
    <2>1. UNCHANGED <<active, phase, nextId, call>>
      BY <1>7, Zenon DEF SetCallback, WorkerThread, AudioThread, managedVars, sessionVars
    <2> QED
      BY <2>1, Zenon
  <1> QED
    BY <1>2, <1>3, <1>4, <1>5, <1>6, <1>7, Zenon DEF SessionNext, ControllingThread

\* The audio of a recording comes from an opening of the device.
LEMMA RecordingTypes == ASSUME RecordingInv PROVE RecordingTypeOK
  <1>1. opens \in 0 .. MaxOpens /\ frames \in 0 .. MaxBuffers /\ MaxOpens \in Nat /\ MaxBuffers \in Nat
    BY DeviceAssumption, Zenon DEF DeviceAssumption, RecordingInv, DeviceInv, DeviceTypeOK
  <1>2. CASE initialized
    <2>1. opens > 0 /\ samples = Delivered
      BY <1>2, Zenon DEF RecordingInv
    <2>2. \A n \in 1 .. frames : opens \in 1 .. MaxOpens /\ n \in 1 .. MaxBuffers
      BY ONLY <1>1, <2>1
    <2>3. frames \in Nat
      BY ONLY <1>1
    <2>4. Delivered \in [1 .. frames -> Buffer]
      BY <2>2, Zenon DEF Delivered, Buffer
    <2>5. samples \in Seq(Buffer)
      BY <2>1, <2>3, <2>4, SeqDef, Zenon
    <2> QED
      BY <2>5, Zenon DEF RecordingInv, DeviceInv, RecordingTypeOK
  <1>3. CASE ~initialized
    BY <1>3, EmptySeq, Zenon DEF RecordingInv, DeviceInv, RecordingTypeOK
  <1>4. initialized \in BOOLEAN
    BY Zenon DEF RecordingInv, DeviceInv, DeviceTypeOK
  <1> QED
    BY <1>2, <1>3, <1>4, Zenon

\* Type correctness of the session manager, its queue and its recorder: a call is
\* always at one of its points, try_transition() never leaves the known states, and the
\* ids and the audio that are kept are ids of sessions and buffers of the device.
THEOREM SessionTypesAlways == SessionSpec => []SessionTypeOK
  <1>1. SessionInit => Fields
    BY DEF SessionInit, Fields, SessionStates, Calls
  <1>2. ManagedInv => nextId \in Nat
    BY Zenon DEF ManagedInv, Ids
  <1>3. RecordingInv /\ ManagedInv /\ Fields /\ [SessionNext]_managedVars => Fields'
    BY <1>2, FieldsNext, Zenon
  <1>4. ASSUME ManagedInv, RecordingInv, Views, Stories, InOrder, Fields PROVE SessionTypeOK
    <2>1. nextId \in Nat \ {0}
      BY <1>2, <1>4, Zenon DEF Fields
    <2>2. lastCompleted \in Sessions \cup {NoSession} /\ lastFailed \in Sessions \cup {NoSession}
      BY <1>4, Zenon DEF InOrder, Published
    <2>3. events \in [Sessions -> Seq(EventKinds)] /\ results \in Seq(Result)
      BY <1>4, LifeSteps, Zenon DEF Stories, Handed
    <2>4. state \in {"Idle", "Recording", "Error"} /\ QueueTypeOK /\ RecordingTypeOK
      BY <1>4, RecordingTypes, Zenon DEF Views, ManagedInv
    <2> QED
      BY <1>4, <2>1, <2>2, <2>3, <2>4, Zenon DEF SessionTypeOK, Fields
  <1> QED
    BY <1>1, <1>3, <1>4, ManagedInvariant, RecordingInvAlways, SessionUsesRecorderProperly, ViewsAlways,
       StoriesAlways, InOrderAlways, PTL DEF SessionSpec
=============================================================================
