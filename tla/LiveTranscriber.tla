--------------------------- MODULE LiveTranscriber ---------------------------
(***************************************************************************)
(* domains/session/live_transcriber: the preview of a recording.  Audio is *)
(* counted in units of one spoken word, so the word at position p is in    *)
(* the p-th unit; the speaker may say the same word again.  A tick reads   *)
(* the uncommitted window, has it transcribed and settles what is          *)
(* committed; audio arrives at any moment of it.                           *)
(* Early returns that change nothing (min_interval, an empty window, no    *)
(* active session) are no steps.                                           *)
(***************************************************************************)
EXTENDS Integers, Sequences

CONSTANTS Texts,         \* what a word can be, its trailing punctuation stripped
          MaxAudio,      \* bound: units captured in one recording
          MaxSegment,    \* max_segment_duration
          Trailing,      \* vad_trailing_duration
          Keep,          \* keep_duration
          Steady         \* whether the first word of a window is always heard, and heard right

ASSUME LiveAssumption ==
    /\ MaxAudio \in Nat
    /\ Keep \in Nat \ {0} /\ Trailing \in Nat /\ MaxSegment \in Nat
    /\ Keep <= Trailing /\ Keep < MaxSegment
    /\ Steady \in BOOLEAN

VARIABLES spoken,       \* the recording's buffer: the word spoken in each unit of audio
          workerBusy,   \* transcription_busy()
          paused,       \* paused_for_worker_
          segment,      \* committed_sample_count_: where the segment begins
          count,        \* committed_word_count_
          committed,    \* committed_text_
          tail,         \* tail_text_
          previous,     \* previous_words_
          carried,      \* carried_words_
          tpc,          \* where tick() is
          window,       \* tick()'s local window: its length
          shown,        \* history: the last TranscriptionPartial of this recording
          skipped       \* history: the audio a pause made the preview skip

bookVars == <<segment, count, committed, tail, previous, carried>>
liveVars == <<spoken, workerBusy, paused, bookVars, tpc, window, shown, skipped>>

\* The units in the buffer.
captured == Len(spoken)

\* A recognised word: what was understood, whether it is marked as cut off
\* ("word..."), and, for the properties only, the unit it was heard in.
Word == [at : 1 .. MaxAudio, text : Texts, cut : BOOLEAN]

\* The fields of LiveTranscriber; the segment and the window lie within the
\* captured audio.
LiveTypeOK ==
    /\ spoken \in Seq(Texts) /\ captured <= MaxAudio
    /\ workerBusy \in BOOLEAN /\ paused \in BOOLEAN
    /\ segment \in 0 .. captured
    /\ count \in Nat
    /\ {committed, tail, previous, carried} \subseteq Seq(Word)
    /\ tpc \in {"out", "reread", "decode"}
    /\ window \in 0 .. captured
    /\ shown \in [committed : Seq(Word), tail : Seq(Word)]
    /\ skipped \in 0 .. captured

Nothing == [committed |-> <<>>, tail |-> <<>>]

LiveInit ==
    /\ spoken = <<>>
    /\ workerBusy \in BOOLEAN
    /\ paused = FALSE
    /\ segment = 0 /\ count = 0
    /\ committed = <<>> /\ tail = <<>> /\ previous = <<>> /\ carried = <<>>
    /\ tpc = "out" /\ window = 0
    /\ shown = Nothing /\ skipped = 0

-----------------------------------------------------------------------------
(* Words *)

\* words_match(): strip_trailing_punctuation() drops the dots, and all that is
\* left to compare is the text.
WordsMatch(a, b) == a.text = b.text

CommonPrefixLength(a, b) ==
    LET agree(k) == k <= Len(a) /\ k <= Len(b) /\ \A i \in 1 .. k : WordsMatch(a[i], b[i])
    IN  CHOOSE k \in 0 .. Len(a) : agree(k) /\ ~agree(k + 1)

\* The longest end of `before` that reappears as the beginning of `now`.
OverlapPrefixLength(before, now) ==
    LET overlaps(k) == /\ k <= Len(before) /\ k <= Len(now)
                       /\ \A i \in 1 .. k : WordsMatch(before[Len(before) - k + i], now[i])
    IN  CHOOSE k \in 0 .. Len(now) :
            overlaps(k) /\ \A m \in k + 1 .. Len(now) : ~overlaps(m)

\* What transcribe_partial() may make of the units from + 1 .. upto: the words
\* spoken there, where the one at the edge may be missing, marked as cut off or
\* mistaken for another.
Heard(from, upto) ==
    LET n        == upto - from
        right(k) == [i \in 1 .. k |-> [at |-> from + i, text |-> spoken[from + i], cut |-> FALSE]]
        edges    == {[at |-> upto, text |-> spoken[upto], cut |-> TRUE]}
                      \cup {[at |-> upto, text |-> t, cut |-> FALSE] : t \in Texts}
        all      == {right(n - 1)} \cup {Append(right(n - 1), edge) : edge \in edges}
    IN  {words \in all : Steady => words # <<>> /\ words[1].text = spoken[from + 1]}

-----------------------------------------------------------------------------
(* Outside tick(): the audio thread, the worker and RecordingStarted. *)

AudioArrives ==
    /\ captured < MaxAudio
    /\ \E t \in Texts : spoken' = Append(spoken, t)
    /\ UNCHANGED <<workerBusy, paused, bookVars, tpc, window, shown, skipped>>

\* During a recording jobs only leave the queue.
WorkerIdle ==
    /\ workerBusy
    /\ workerBusy' = FALSE
    /\ UNCHANGED <<spoken, paused, bookVars, tpc, window, shown, skipped>>

\* The recording ends and another one starts, perhaps while the worker still
\* transcribes the first: reset().
Reset ==
    /\ tpc = "out"
    /\ spoken' = <<>>
    /\ workerBusy' \in BOOLEAN
    /\ paused' = FALSE
    /\ segment' = 0 /\ count' = 0
    /\ committed' = <<>> /\ tail' = <<>> /\ previous' = <<>> /\ carried' = <<>>
    /\ shown' = Nothing /\ skipped' = 0
    /\ window' = 0
    /\ UNCHANGED tpc

-----------------------------------------------------------------------------
(* tick() *)

TickPauses ==
    /\ tpc = "out"
    /\ workerBusy
    /\ paused' = TRUE
    /\ UNCHANGED <<spoken, workerBusy, bookVars, tpc, window, shown, skipped>>

\* Fault: the length of the window is not tested before it is shortened.
TooFarBehindAlways == paused

\* What piled up during a pause is more than a segment.
TooFarBehind == paused /\ captured - segment > MaxSegment

TickReads ==
    /\ tpc = "out"
    /\ ~workerBusy
    /\ captured > segment
    /\ ~TooFarBehind
    /\ paused' = FALSE
    /\ window' = captured - segment
    /\ tpc' = "decode"
    /\ UNCHANGED <<spoken, workerBusy, bookVars, shown, skipped>>

\* After a pause, the oldest audio is skipped and the buffer read again.
TickSkips ==
    /\ tpc = "out"
    /\ ~workerBusy
    /\ TooFarBehind
    /\ paused' = FALSE
    /\ segment' = captured - MaxSegment
    /\ skipped' = captured - MaxSegment
    /\ count' = 0
    /\ previous' = <<>> /\ carried' = <<>>
    /\ tpc' = "reread"
    /\ UNCHANGED <<spoken, workerBusy, committed, tail, window, shown>>

TickRereads ==
    /\ tpc = "reread"
    /\ window' = captured - segment
    /\ tpc' = "decode"
    /\ UNCHANGED <<spoken, workerBusy, paused, bookVars, shown, skipped>>

\* transcribe_partial() failed: the next tick tries again.
TickFails ==
    /\ tpc = "decode"
    /\ tpc' = "out"
    /\ window' = 0
    /\ UNCHANGED <<spoken, workerBusy, paused, bookVars, shown, skipped>>

\* Fault: the words carried over the segment boundary are not looked for.
AlreadyCommittedNoOverlap(words) == count

\* The first tick of a segment: how many of its words were committed before.
AlreadyCommitted(words) ==
    IF count = 0 /\ previous = <<>> /\ carried # <<>> THEN OverlapPrefixLength(carried, words) ELSE count

CarriedAfter == IF count = 0 /\ previous = <<>> THEN <<>> ELSE carried

\* force_commit: the window is long enough, or it may end in silence.
MustForce == window >= MaxSegment
MayForce  == MustForce \/ window > Trailing

\* Fault: no audio is kept for the next segment.
NextSegmentKeepsNothing == segment + window

\* The next segment begins with the audio that is kept.
NextSegment == segment + (IF window > Keep THEN window - Keep ELSE window)

\* SubSeq() of an empty range is empty, as join_words() is.
ForceCommit(words) ==
    /\ MayForce
    /\ committed' = committed \o SubSeq(words, AlreadyCommitted(words) + 1, Len(words))
    /\ tail' = <<>>
    /\ carried' = words
    /\ segment' = NextSegment
    /\ count' = 0
    /\ previous' = <<>>

CommitAgreed(words) ==
    LET agreement == CommonPrefixLength(previous, words)
        safeUpper == IF agreement < Len(words) THEN agreement ELSE IF words = <<>> THEN 0 ELSE Len(words) - 1
        upto      == IF safeUpper > AlreadyCommitted(words) THEN safeUpper ELSE AlreadyCommitted(words)
    IN  /\ ~MustForce
        /\ committed' = committed \o SubSeq(words, AlreadyCommitted(words) + 1, upto)
        /\ count' = upto
        /\ tail' = SubSeq(words, upto + 1, Len(words))
        /\ previous' = words
        /\ carried' = CarriedAfter
        /\ UNCHANGED segment

\* Fault: only the committed text is compared.
PublishPartialCommitted ==
    shown' = IF committed' = committed THEN shown ELSE [committed |-> committed', tail |-> tail']

\* An event is published unless both texts are what they were.
PublishPartial ==
    shown' = IF committed' = committed /\ tail' = tail THEN shown
             ELSE [committed |-> committed', tail |-> tail']

TickDecodes ==
    /\ tpc = "decode"
    /\ \E words \in Heard(segment, segment + window) : ForceCommit(words) \/ CommitAgreed(words)
    /\ PublishPartial
    /\ tpc' = "out"
    /\ window' = 0
    /\ UNCHANGED <<spoken, workerBusy, paused, skipped>>

Tick == TickPauses \/ TickReads \/ TickSkips \/ TickRereads \/ TickFails \/ TickDecodes

LiveNext == AudioArrives \/ WorkerIdle \/ Reset \/ Tick

LiveSpec == LiveInit /\ [][LiveNext]_liveVars

-----------------------------------------------------------------------------
(* Properties *)

\* A spoken word that appears in committed_text is not committed a second time,
\* across segments, overlaps and pauses: TranscriptionPartial, "once a span of
\* words appears here, it is never revised or repeated in a later event".  Saying
\* the same word twice is no repetition.
NeverRepeated ==
    \A i, k \in DOMAIN committed :
        i # k /\ committed[i].at = committed[k].at => ~WordsMatch(committed[i], committed[k])

\* The word said at p, or the one before it, was said earlier.
Echo(said, p) == \E r \in {p - 1, p} : \E q \in 1 .. r - 1 : said[q] = said[r]

\* Committed words follow the order they were spoken in.  Everything before the
\* segment that no pause skipped has been committed, although the last word of a
\* segment may not have been heard, with one exception: a word that follows or is
\* a repetition may be taken by overlap_prefix_length() for the kept audio and
\* dropped.
CommittedCoversAudio ==
    /\ \A i, k \in DOMAIN committed : i < k => committed[i].at <= committed[k].at
    /\ \A p \in skipped + 1 .. segment : Echo(spoken, p) \/ \E i \in DOMAIN committed : committed[i].at = p

\* A client that keeps the last event it received sees exactly the current
\* texts, although ticks that change nothing publish nothing.
ShownIsCurrent == tpc = "out" => shown = [committed |-> committed, tail |-> tail]
=============================================================================
