------------------------------ MODULE LiveProofs ------------------------------
(***************************************************************************)
(* Proofs about the live transcript, for recordings of any length and      *)
(* whatever is said: what is shown is what was committed and the tail; and *)
(* when the kept audio is one word and the first word of a window is heard *)
(* right, no word is committed twice, and none before the segment is left  *)
(* out unless it is or follows a repetition, wherever the windows are cut. *)
(***************************************************************************)
EXTENDS LiveTranscriber, WellFoundedInduction, TLAPS

\* What transcribe_partial() returns for a window that begins at `from`, in a buffer
\* where `said` was said: one word per unit, all of them right but perhaps the last.
Transcript(words, from, said) ==
    /\ from + Len(words) <= Len(said)
    /\ \A i \in 1 .. Len(words) :
          words[i].at = from + i /\ (i < Len(words) => words[i].text = said[from + i])

\* More may have been said since.
Continues(more, said) == Len(said) <= Len(more) /\ \A i \in 1 .. Len(said) : more[i] = said[i]

\* LiveTypeOK and ShownIsCurrent, with what they need: the window lies behind the
\* beginning of the segment, and the words that are compared are transcripts.
LiveShape ==
    /\ LiveTypeOK
    /\ tpc # "out" => segment < captured
    /\ tpc = "decode" => window > 0 /\ segment + window <= captured
    /\ Transcript(previous, segment, spoken)
    /\ shown = [committed |-> committed, tail |-> tail]

\* A sequence of words has a length, and a word at each of its positions.
LEMMA Words ==
    ASSUME NEW words \in Seq(Word)
    PROVE  /\ Len(words) \in Nat /\ DOMAIN words = 1 .. Len(words)
           /\ \A i \in 1 .. Len(words) : words[i] \in Word /\ words[i].at \in Int
           /\ words = <<>> <=> Len(words) = 0
  <1>1. \A word \in Word : word.at \in Int
    BY DEF Word
  <1> QED
    BY <1>1

\* `after` is `before` followed by the words after position m up to position n.
Longer(after, before, words, m, n) ==
    /\ after \in Seq(Word)
    /\ Len(after) = Len(before) + (IF n > m THEN n - m ELSE 0)
    /\ \A i \in 1 .. Len(before) : after[i] = before[i]
    /\ \A i \in Len(before) + 1 .. Len(after) :
          m + (i - Len(before)) \in m + 1 .. n /\ after[i] = words[m + (i - Len(before))]

\* Committing the words after position m up to position n.
LEMMA Committing ==
    ASSUME NEW before \in Seq(Word), NEW words \in Seq(Word), NEW m \in Nat, NEW n \in Nat,
           n <= Len(words) \/ n = m, NEW after, after = before \o SubSeq(words, m + 1, n)
    PROVE  Longer(after, before, words, m, n)
  <1> DEFINE more == SubSeq(words, m + 1, n)
             more_len == IF n > m THEN n - m ELSE 0
  <1>1. Len(words) \in Nat /\ Len(before) \in Nat
    BY Words, Zenon
  <1>2. more \in Seq(Word) /\ Len(more) = more_len /\ \A i \in 1 .. more_len : more[i] = words[m + i]
    <2>1. CASE n > m
      BY <1>1, <2>1
    <2>2. CASE ~(n > m)
      BY <1>1, <2>2
    <2> QED
      BY <2>1, <2>2, Zenon
  <1>3. /\ after \in Seq(Word) /\ Len(after) = Len(before) + Len(more)
        /\ \A i \in 1 .. Len(before) : after[i] = before[i]
        /\ \A i \in Len(before) + 1 .. Len(after) : after[i] = more[i - Len(before)]
    BY <1>2
  <1> QED
    BY <1>1, <1>2, <1>3 DEF Longer

\* What the buffer holds.
LEMMA Buffer ==
    ASSUME LiveTypeOK
    PROVE  /\ captured \in Nat /\ captured = Len(spoken) /\ MaxAudio \in Nat /\ captured <= MaxAudio
           /\ \A i \in 1 .. captured : spoken[i] \in Texts
           /\ segment \in 0 .. captured /\ window \in 0 .. captured /\ skipped \in 0 .. captured
  BY LiveAssumption DEF LiveAssumption, LiveTypeOK, captured

\* What is heard in a window is a transcript of it that leaves out at most the
\* word at the edge, and then is right throughout; with Steady, its first word is
\* heard and heard right.
LEMMA Hearing ==
    ASSUME LiveTypeOK, NEW from \in Nat, NEW upto \in 1 .. captured, from < upto, NEW words \in Heard(from, upto)
    PROVE  /\ words \in Seq(Word) /\ Transcript(words, from, spoken)
           /\ \/ Len(words) = upto - from
              \/ Len(words) = upto - from - 1 /\ \A i \in 1 .. Len(words) : words[i].text = spoken[from + i]
           /\ Steady => words # <<>> /\ words[1].text = spoken[from + 1]
  <1> DEFINE n == upto - from
             word(i) == [at |-> from + i, text |-> spoken[from + i], cut |-> FALSE]
             right(k) == [i \in 1 .. k |-> word(i)]
             front == right(n - 1)
             edges == {[at |-> upto, text |-> spoken[upto], cut |-> TRUE]}
                        \cup {[at |-> upto, text |-> t, cut |-> FALSE] : t \in Texts}
  <1>0. /\ n \in Nat \ {0} /\ n - 1 \in Nat /\ captured \in Nat /\ upto \in Nat /\ upto <= captured
        /\ captured <= MaxAudio /\ MaxAudio \in Nat /\ captured = Len(spoken)
        /\ \A i \in 1 .. captured : spoken[i] \in Texts /\ i \in 1 .. MaxAudio
    BY Buffer
  <1>1. /\ words = front \/ \E edge \in edges : words = Append(front, edge)
        /\ Steady => words # <<>> /\ words[1].text = spoken[from + 1]
    BY Zenon DEF Heard
  <1>2. /\ front \in Seq(Word) /\ Len(front) = n - 1
        /\ \A i \in 1 .. n - 1 : front[i].at = from + i /\ front[i].text = spoken[from + i]
    <2>1. \A i \in 1 .. n - 1 : word(i) \in Word
      <3> SUFFICES ASSUME NEW i \in 1 .. n - 1 PROVE word(i) \in Word
        BY Zenon
      <3>1. from + i \in 1 .. captured
        BY <1>0
      <3> QED
        BY <1>0, <3>1, Zenon DEF Word
    <2>2. \A i \in 1 .. n - 1 : word(i).at = from + i /\ word(i).text = spoken[from + i]
      OBVIOUS
    <2> HIDE DEF word
    <2> QED
      BY <1>0, <2>1, <2>2
  <1>3. ASSUME NEW edge \in edges
        PROVE  edge \in Word /\ edge.at = upto
    <2>1. PICK t \in Texts, b \in BOOLEAN : edge = [at |-> upto, text |-> t, cut |-> b]
      BY <1>0, Zenon
    <2>2. upto \in 1 .. MaxAudio
      BY <1>0, Zenon
    <2> QED
      BY <2>1, <2>2, Zenon DEF Word
  <1> HIDE DEF front, edges
  <1>4. CASE words = front
    <2>1. Len(words) = n - 1 /\ from + (n - 1) <= Len(spoken)
      BY <1>0, <1>2, <1>4
    <2> QED
      BY <1>1, <1>2, <1>4, <2>1, Zenon DEF Transcript
  <1>5. CASE \E edge \in edges : words = Append(front, edge)
    <2>1. PICK edge \in edges : words = Append(front, edge)
      BY <1>5, Zenon
    <2>2. edge \in Word /\ edge.at = upto
      BY <1>3, Zenon
    <2>3. /\ words \in Seq(Word) /\ Len(words) = n
          /\ \A i \in 1 .. n - 1 : words[i] = front[i]
          /\ words[n] = edge
      BY <1>0, <1>2, <2>1, <2>2
    <2>4. ASSUME NEW i \in 1 .. n
          PROVE  words[i].at = from + i /\ (i < n => words[i].text = spoken[from + i])
      <3>1. CASE i = n
        BY <1>0, <2>2, <2>3, <3>1
      <3>2. CASE i # n
        <4>1. i \in 1 .. n - 1
          BY <1>0, <3>2
        <4> QED
          BY <1>2, <2>3, <4>1, Zenon
      <3> QED
        BY <3>1, <3>2, Zenon
    <2>5. from + n <= Len(spoken)
      BY <1>0
    <2>6. Transcript(words, from, spoken)
      BY <2>3, <2>4, <2>5, Zenon DEF Transcript
    <2> QED
      BY <1>1, <2>3, <2>6, Zenon
  <1> QED
    BY <1>1, <1>4, <1>5, Zenon

\* A transcript stays one as more is said.
LEMMA TranscriptStays ==
    ASSUME NEW words \in Seq(Word), NEW from \in Int, NEW said \in Seq(Texts), NEW more \in Seq(Texts),
           Transcript(words, from, said), Continues(more, said)
    PROVE  Transcript(words, from, more)
  <1>1. Len(words) \in Nat /\ Len(said) \in Nat /\ Len(more) \in Nat
    OBVIOUS
  <1>2. from + Len(words) <= Len(more)
    BY <1>1 DEF Transcript, Continues
  <1>3. ASSUME NEW i \in 1 .. Len(words)
        PROVE  words[i].at = from + i /\ (i < Len(words) => words[i].text = more[from + i])
    <2>1. words[i].at = from + i /\ (i < Len(words) => words[i].text = said[from + i])
      BY Zenon DEF Transcript
    <2>2. from + i \in 1 .. MaxAudio
      <3>1. words[i] \in Word
        BY Words, Zenon
      <3> QED
        BY <2>1, <3>1 DEF Word
    <2>3. from + i \in 1 .. Len(said)
      <3>1. from + Len(words) <= Len(said)
        BY Zenon DEF Transcript
      <3> QED
        BY ONLY <1>1, <2>2, <3>1, from \in Int, i \in 1 .. Len(words)
    <2> QED
      BY <2>1, <2>3, Zenon DEF Continues
  <1> QED
    BY <1>2, <1>3, Zenon DEF Transcript

\* Two transcripts of one segment agree up to the edge of the shorter one, so
\* CommonPrefixLength() is defined.
LEMMA Agreement ==
    ASSUME NEW a \in Seq(Word), NEW b \in Seq(Word), NEW from \in Int,
           NEW said, Transcript(a, from, said), Transcript(b, from, said)
    PROVE  CommonPrefixLength(a, b) \in Nat
  <1> DEFINE agree(k) == k <= Len(a) /\ k <= Len(b) /\ \A i \in 1 .. k : WordsMatch(a[i], b[i])
             m == IF Len(a) < Len(b) THEN Len(a) ELSE Len(b)
  <1>1. Len(a) \in Nat /\ Len(b) \in Nat /\ m \in Nat /\ m <= Len(a) /\ m <= Len(b) /\ (m = Len(a) \/ m = Len(b))
    BY Words
  <1>2. \A i \in 1 .. m : i < m => WordsMatch(a[i], b[i])
    <2> SUFFICES ASSUME NEW i \in 1 .. m, i < m PROVE WordsMatch(a[i], b[i])
      BY Zenon
    <2>1. i \in 1 .. Len(a) /\ i < Len(a) /\ i \in 1 .. Len(b) /\ i < Len(b)
      BY <1>1
    <2>2. a[i].text = said[from + i] /\ b[i].text = said[from + i]
      BY <2>1, Zenon DEF Transcript
    <2> QED
      BY <2>2, Zenon DEF WordsMatch
  <1>3. \E k \in 0 .. Len(a) : agree(k) /\ ~agree(k + 1)
    <2> HIDE DEF m
    <2>1. CASE m = 0 \/ WordsMatch(a[m], b[m])
      <3>1. agree(m) /\ ~agree(m + 1)
        BY <1>1, <1>2, <2>1
      <3> QED
        BY <1>1, <3>1
    <2>2. CASE m # 0 /\ ~WordsMatch(a[m], b[m])
      <3>1. m - 1 \in 0 .. Len(a) /\ (m - 1) + 1 = m /\ m \in 1 .. m
        BY <1>1, <2>2
      <3>2. agree(m - 1)
        BY <1>1, <1>2, <2>2
      <3>3. ~agree((m - 1) + 1)
        BY <2>2, <3>1, Zenon
      <3> QED
        BY <3>1, <3>2, <3>3, Zenon
    <2> QED
      BY <2>1, <2>2, Zenon
  <1>4. CommonPrefixLength(a, b) = CHOOSE k \in 0 .. Len(a) : agree(k) /\ ~agree(k + 1)
    BY Zenon DEF CommonPrefixLength
  <1> HIDE DEF agree
  <1>5. CommonPrefixLength(a, b) \in 0 .. Len(a)
    BY <1>3, <1>4, Zenon
  <1> QED
    BY <1>1, <1>5

\* A set of numbers up to n that contains 0 has a greatest member.
LEMMA Greatest ==
    ASSUME NEW n \in Nat, NEW T \in SUBSET (0 .. n), 0 \in T
    PROVE  \E k \in T : \A m \in k + 1 .. n : m \notin T
  <1> DEFINE D == {n - k : k \in T}
  <1>1. D \subseteq Nat /\ n \in D
    OBVIOUS
  <1>2. PICK d \in D : \A e \in D : <<e, d>> \notin OpToRel(<, Nat)
    <2>1. D # {}
      BY <1>1
    <2> HIDE DEF D
    <2> QED
      BY <1>1, <2>1, NatLessThanWellFounded, WFMin, Zenon
  <1>3. \A e \in D : ~(e < d)
    BY <1>1, <1>2, Zenon DEF OpToRel
  <1>4. PICK k \in T : d = n - k
    OBVIOUS
  <1>5. ASSUME NEW m \in k + 1 .. n, m \in T
        PROVE  FALSE
    <2>1. n - m \in D
      BY <1>5
    <2>2. ~(n - m < n - k)
      BY <1>3, <1>4, <2>1, Zenon
    <2> QED
      BY ONLY <1>5, <2>2, n \in Nat, k \in 0 .. n
  <1> QED
    BY <1>5, Zenon

\* An end of the words carried over a boundary matches the first o of a transcript,
\* and o is not 0 when the last word carried over comes first there.
Overlapping(before, now, o) ==
    /\ o \in 0 .. Len(now) /\ o <= Len(before)
    /\ \A i \in 1 .. o : before[Len(before) - o + i].text = now[i].text
    /\ now # <<>> /\ before[Len(before)].text = now[1].text => o # 0

\* That is what overlap_prefix_length() finds.
LEMMA Overlap ==
    ASSUME NEW before \in Seq(Word), before # <<>>, NEW now \in Seq(Word),
           NEW o, o = OverlapPrefixLength(before, now)
    PROVE  Overlapping(before, now, o)
  <1> DEFINE overlaps(k) == /\ k <= Len(before) /\ k <= Len(now)
                            /\ \A i \in 1 .. k : WordsMatch(before[Len(before) - k + i], now[i])
             best(k) == overlaps(k) /\ \A m \in k + 1 .. Len(now) : ~overlaps(m)
             T == {k \in 0 .. Len(now) : overlaps(k)}
  <1>1. Len(before) \in Nat \ {0} /\ Len(now) \in Nat /\ (now = <<>> <=> Len(now) = 0)
    BY Words
  <1>2. overlaps(0)
    BY <1>1
  <1>3. o = CHOOSE k \in 0 .. Len(now) : best(k)
    BY Zenon DEF OverlapPrefixLength
  <1>4. ASSUME now # <<>>, before[Len(before)].text = now[1].text
        PROVE  overlaps(1)
    <2>1. \A i \in 1 .. 1 : i = 1 /\ Len(before) - 1 + i = Len(before)
      BY <1>1
    <2>2. \A i \in 1 .. 1 : WordsMatch(before[Len(before) - 1 + i], now[i])
      BY <1>4, <2>1, Zenon DEF WordsMatch
    <2> QED
      BY <1>1, <1>4, <2>2
  <1>5. \E k \in 0 .. Len(now) : best(k)
    <2> HIDE DEF overlaps
    <2>1. T \in SUBSET (0 .. Len(now)) /\ 0 \in T
      BY <1>1, <1>2
    <2>2. PICK k \in T : \A m \in k + 1 .. Len(now) : m \notin T
      <3> HIDE DEF T
      <3> QED
        BY <1>1, <2>1, Greatest, Zenon
    <2>3. \A m \in k + 1 .. Len(now) : m \in 0 .. Len(now)
      BY <1>1
    <2> QED
      BY <2>2, <2>3, Zenon
  <1>6. o \in 0 .. Len(now) /\ best(o)
    <2> HIDE DEF best
    <2> QED
      BY <1>3, <1>5, Zenon
  <1>7. ASSUME now # <<>>, before[Len(before)].text = now[1].text
        PROVE  o # 0
    <2> HIDE DEF overlaps
    <2>1. 1 \in 0 + 1 .. Len(now) /\ overlaps(1)
      BY <1>1, <1>4, <1>7
    <2> QED
      BY <1>6, <2>1, Zenon
  <1> QED
    BY <1>6, <1>7, Zenon DEF WordsMatch, Overlapping

\* What ForceCommit leaves of the books, apart from the committed words.
Forced(words) ==
    /\ MayForce
    /\ tail' = <<>> /\ carried' = words
    /\ segment' = NextSegment
    /\ count' = 0 /\ previous' = <<>>

\* What CommitAgreed leaves of them when the words up to n are committed.
Agreed(words, m, n) ==
    /\ n = m \/ (n > m /\ n < Len(words))
    /\ count' = n
    /\ tail' = SubSeq(words, n + 1, Len(words))
    /\ previous' = words /\ carried' = CarriedAfter
    /\ segment' = segment

\* What a tick makes of its window: it commits the words after the m-th up to the
\* n-th.
Decoded(words, n) ==
    LET m == AlreadyCommitted(words)
    IN  /\ Transcript(words, segment, spoken)
        /\ \/ Len(words) = window
           \/ Len(words) = window - 1 /\ \A i \in 1 .. Len(words) : words[i].text = spoken[segment + i]
        /\ Steady => words # <<>> /\ words[1].text = spoken[segment + 1]
        /\ m \in Nat /\ m <= n /\ (n <= Len(words) \/ n = m)
        /\ committed' = committed \o SubSeq(words, m + 1, n)
        /\ (n >= Len(words) /\ Forced(words)) \/ Agreed(words, m, n)

\* That is what a tick does.
LEMMA Decoding ==
    ASSUME LiveShape, TickDecodes
    PROVE  \E words \in Seq(Word), n \in Nat : Decoded(words, n)
  <1>1. PICK words \in Heard(segment, segment + window) : ForceCommit(words) \/ CommitAgreed(words)
    BY Zenon DEF TickDecodes
  <1>2. /\ segment \in Nat /\ window \in Nat \ {0} /\ captured \in Nat /\ count \in Nat
        /\ segment + window <= captured /\ LiveTypeOK
    BY Buffer DEF LiveShape, LiveTypeOK, TickDecodes
  <1>3. {previous, carried} \subseteq Seq(Word) /\ Transcript(previous, segment, spoken)
    BY Zenon DEF LiveShape, LiveTypeOK
  <1>4. /\ words \in Seq(Word) /\ Transcript(words, segment, spoken)
        /\ \/ Len(words) = window
           \/ Len(words) = window - 1 /\ \A i \in 1 .. Len(words) : words[i].text = spoken[segment + i]
        /\ Steady => words # <<>> /\ words[1].text = spoken[segment + 1]
    <2>1. segment + window \in 1 .. captured /\ segment < segment + window /\ (segment + window) - segment = window
      BY <1>2
    <2> DEFINE upto == segment + window
    <2>2. /\ words \in Seq(Word) /\ Transcript(words, segment, spoken)
          /\ \/ Len(words) = upto - segment
             \/ Len(words) = upto - segment - 1 /\ \A i \in 1 .. Len(words) : words[i].text = spoken[segment + i]
          /\ Steady => words # <<>> /\ words[1].text = spoken[segment + 1]
      BY <1>2, <2>1, Hearing, Zenon
    <2> QED
      BY <2>1, <2>2, Zenon
  <1>5. Len(words) \in Nat /\ (words = <<>> <=> Len(words) = 0)
    BY <1>4, Words, Zenon
  <1>6. AlreadyCommitted(words) \in Nat
    <2>1. CASE count = 0 /\ previous = <<>> /\ carried # <<>>
      <3>1. OverlapPrefixLength(carried, words) \in 0 .. Len(words)
        BY <1>3, <1>4, <2>1, Overlap, Zenon DEF Overlapping
      <3> QED
        BY <1>5, <2>1, <3>1 DEF AlreadyCommitted
    <2>2. CASE ~(count = 0 /\ previous = <<>> /\ carried # <<>>)
      BY <1>2, <2>2, Zenon DEF AlreadyCommitted
    <2> QED
      BY <2>1, <2>2, Zenon
  <1> DEFINE m == AlreadyCommitted(words)
  <1>7. CASE ForceCommit(words)
    <2> DEFINE n == IF Len(words) > m THEN Len(words) ELSE m
    <2>1. committed' = committed \o SubSeq(words, m + 1, Len(words)) /\ Forced(words)
      BY <1>7, Zenon DEF ForceCommit, Forced
    <2> HIDE DEF m
    <2>2. m \in Nat
      BY <1>6, Zenon DEF m
    <2>3. n \in Nat /\ m <= n /\ (n <= Len(words) \/ n = m) /\ n >= Len(words)
      BY <1>5, <2>2
    <2>4. SubSeq(words, m + 1, Len(words)) = SubSeq(words, m + 1, n)
      BY <1>4, <1>5, <2>2
    <2> HIDE DEF n
    <2> QED
      BY <1>4, <2>1, <2>2, <2>3, <2>4, Zenon DEF Decoded, m
  <1>8. CASE CommitAgreed(words)
    <2> DEFINE agreement == CommonPrefixLength(previous, words)
               safeUpper == IF agreement < Len(words) THEN agreement ELSE IF words = <<>> THEN 0 ELSE Len(words) - 1
               n         == IF safeUpper > m THEN safeUpper ELSE m
    <2>1. agreement \in Nat
      <3>1. segment \in Int
        BY <1>2
      <3> QED
        BY <1>3, <1>4, <3>1, Agreement, Zenon
    <2>2. /\ committed' = committed \o SubSeq(words, m + 1, n)
          /\ count' = n
          /\ tail' = SubSeq(words, n + 1, Len(words))
          /\ previous' = words /\ carried' = CarriedAfter /\ segment' = segment
      BY <1>8, Zenon DEF CommitAgreed
    <2>3. /\ m \in Nat /\ n \in Nat /\ m <= n
          /\ n <= Len(words) \/ n = m
          /\ n = m \/ (n > m /\ n < Len(words))
      <3> HIDE DEF agreement, m
      <3>1. m \in Nat
        BY <1>6, Zenon DEF m
      <3> QED
        BY <1>5, <2>1, <3>1
    <2> HIDE DEF n
    <2>4. Agreed(words, m, n)
      BY <2>2, <2>3, Zenon DEF Agreed
    <2> QED
      BY <1>4, <2>2, <2>3, <2>4, Zenon DEF Decoded
  <1> QED
    BY <1>1, <1>7, <1>8, Zenon

\* Every step keeps the books well-formed.
LEMMA ShapeNext ==
    ASSUME LiveShape, [LiveNext]_liveVars
    PROVE  LiveShape'
  <1>0. /\ MaxAudio \in Nat /\ Keep \in Nat \ {0} /\ MaxSegment \in Nat \ {0}
        /\ <<>> \in Seq(Word)
    BY LiveAssumption DEF LiveAssumption
  <1>1. /\ spoken \in Seq(Texts) /\ captured \in Nat /\ captured = Len(spoken) /\ captured <= MaxAudio
        /\ segment \in 0 .. captured /\ count \in Nat /\ window \in 0 .. captured
        /\ skipped \in 0 .. captured
        /\ tpc # "out" => segment < captured
        /\ tpc = "decode" => window > 0 /\ segment + window <= captured
    BY Buffer, Zenon DEF LiveShape, LiveTypeOK
  <1>2. /\ committed \in Seq(Word) /\ tail \in Seq(Word) /\ previous \in Seq(Word) /\ carried \in Seq(Word)
        /\ workerBusy \in BOOLEAN /\ paused \in BOOLEAN /\ tpc \in {"out", "reread", "decode"}
        /\ Transcript(previous, segment, spoken)
        /\ shown = [committed |-> committed, tail |-> tail]
    BY Zenon DEF LiveShape, LiveTypeOK
  <1>3. \A from \in Int : \A said : from <= Len(said) => Transcript(<<>>, from, said)
    BY DEF Transcript
  <1>a. spoken' = spoken => captured' = captured
    BY Zenon DEF captured
  <1>4. CASE AudioArrives
    <2>1. PICK t \in Texts : spoken' = Append(spoken, t)
      BY <1>4, Zenon DEF AudioArrives
    <2>2. /\ spoken' \in Seq(Texts) /\ captured' = Len(spoken') /\ captured' = captured + 1 /\ captured' <= MaxAudio
          /\ Continues(spoken', spoken)
      BY <1>0, <1>1, <1>4, <2>1 DEF AudioArrives, captured, Continues
    <2>3. UNCHANGED <<workerBusy, paused, segment, count, committed, tail, previous, carried, tpc, window, shown, skipped>>
      BY <1>4, Zenon DEF AudioArrives, bookVars
    <2>4. /\ segment \in 0 .. captured' /\ window \in 0 .. captured' /\ skipped \in 0 .. captured' /\ segment \in Int
          /\ segment < captured' /\ (tpc = "decode" => window > 0 /\ segment + window <= captured')
      BY <1>1, <2>2
    <2>5. Transcript(previous, segment, spoken')
      BY <1>1, <1>2, <2>2, <2>4, TranscriptStays, Zenon
    <2>6. LiveTypeOK'
      BY <1>1, <1>2, <2>2, <2>3, <2>4, Zenon DEF LiveTypeOK
    <2>7. Transcript(previous', segment', spoken')
      BY <2>3, <2>5, Zenon
    <2> QED
      BY <1>2, <2>3, <2>4, <2>6, <2>7, Zenon DEF LiveShape
  <1>5. CASE WorkerIdle
    BY <1>1, <1>2, <1>5, <1>a, Zenon DEF WorkerIdle, bookVars, LiveShape, LiveTypeOK, Transcript
  <1>6. CASE Reset
    <2>1. /\ spoken' = <<>> /\ workerBusy' \in BOOLEAN /\ paused' = FALSE /\ segment' = 0 /\ count' = 0
          /\ committed' = <<>> /\ tail' = <<>> /\ previous' = <<>> /\ carried' = <<>>
          /\ tpc' = "out" /\ window' = 0 /\ skipped' = 0
          /\ shown' = [committed |-> <<>>, tail |-> <<>>]
      BY <1>6, Zenon DEF Reset, Nothing
    <2>2. Transcript(previous, segment, spoken)'
      BY <2>1 DEF Transcript
    <2>a. spoken' \in Seq(Texts) /\ captured' = 0
      BY <2>1 DEF captured
    <2>3. /\ committed' \in Seq(Word) /\ tail' \in Seq(Word) /\ previous' \in Seq(Word) /\ carried' \in Seq(Word)
          /\ shown' = [committed |-> committed', tail |-> tail']
      BY <1>0, <2>1, Zenon
    <2>4. /\ spoken' \in Seq(Texts) /\ captured' = 0 /\ workerBusy' \in BOOLEAN /\ paused' = FALSE
          /\ segment' = 0 /\ count' = 0 /\ tpc' = "out" /\ window' = 0 /\ skipped' = 0
      BY <2>1, <2>a, Zenon
    <2>5. /\ captured' <= MaxAudio /\ segment' \in 0 .. captured' /\ count' \in Nat /\ window' \in 0 .. captured'
          /\ skipped' \in 0 .. captured'
      BY ONLY <1>0, <2>4
    <2>6. shown' \in [committed : Seq(Word), tail : Seq(Word)]
      BY ONLY <2>3, Zenon
    <2>7. {committed', tail', previous', carried'} \subseteq Seq(Word)
      BY ONLY <2>3, Zenon
    <2>8. LiveTypeOK'
      BY ONLY <2>4, <2>5, <2>6, <2>7, Zenon DEF LiveTypeOK
    <2> QED
      BY ONLY <2>2, <2>3, <2>4, <2>8, Zenon DEF LiveShape
  <1>7. CASE TickPauses
    BY <1>1, <1>2, <1>7, <1>a, Zenon DEF TickPauses, bookVars, LiveShape, LiveTypeOK, Transcript
  <1>8. CASE TickReads
    <2>1. captured > segment /\ window' = captured - segment /\ paused' = FALSE /\ tpc' = "decode"
      BY <1>8, Zenon DEF TickReads
    <2>2. UNCHANGED <<spoken, captured, workerBusy, segment, count, committed, tail, previous, carried, shown, skipped>>
      BY <1>8, <1>a, Zenon DEF TickReads, bookVars
    <2>3. window' \in 0 .. captured /\ window' > 0 /\ segment + window' <= captured /\ segment < captured
      BY <1>1, <2>1
    <2> QED
      BY <1>1, <1>2, <2>1, <2>2, <2>3, Zenon DEF LiveShape, LiveTypeOK, Transcript
  <1>9. CASE TickSkips
    <2>1. /\ captured - segment > MaxSegment /\ paused' = FALSE /\ tpc' = "reread"
          /\ segment' = captured - MaxSegment /\ skipped' = captured - MaxSegment
          /\ count' = 0 /\ previous' = <<>> /\ carried' = <<>>
          /\ UNCHANGED <<spoken, captured, workerBusy, committed, tail, window, shown>>
      BY <1>9, <1>a, Zenon DEF TickSkips, TooFarBehind
    <2>2. segment' \in 0 .. captured /\ skipped' \in 0 .. captured /\ segment' < captured
      BY <1>0, <1>1, <2>1
    <2>3. Transcript(previous, segment, spoken)'
      <3>1. segment' \in Int /\ segment' <= Len(spoken')
        BY <1>1, <2>1, <2>2
      <3> QED
        BY <1>3, <2>1, <3>1, Zenon
    <2>4. /\ previous' \in Seq(Word) /\ carried' \in Seq(Word)
          /\ count' = 0 /\ paused' = FALSE /\ tpc' = "reread"
          /\ UNCHANGED <<spoken, captured, workerBusy, committed, tail, window, shown>>
      BY <1>0, <2>1, Zenon
    <2> QED
      BY ONLY <1>1, <1>2, <2>2, <2>3, <2>4, Zenon DEF LiveShape, LiveTypeOK
  <1>10. CASE TickRereads
    BY <1>1, <1>2, <1>10, <1>a DEF TickRereads, bookVars, LiveShape, LiveTypeOK, Transcript
  <1>11. CASE TickFails
    BY <1>1, <1>2, <1>11, <1>a DEF TickFails, bookVars, LiveShape, LiveTypeOK, Transcript
  <1>12. CASE TickDecodes
    <2>1. PICK words \in Seq(Word), n \in Nat : Decoded(words, n)
      BY <1>12, Decoding, Zenon
    <2>a. /\ Transcript(words, segment, spoken)
          /\ AlreadyCommitted(words) \in Nat
          /\ n <= Len(words) \/ n = AlreadyCommitted(words)
          /\ committed' = committed \o SubSeq(words, AlreadyCommitted(words) + 1, n)
          /\ Forced(words) \/ Agreed(words, AlreadyCommitted(words), n)
      BY <2>1, Zenon DEF Decoded
    <2>2. committed' \in Seq(Word)
      BY <1>2, <2>a, Committing, Zenon DEF Longer
    <2>3. tpc = "decode" /\ tpc' = "out" /\ window' = 0 /\ UNCHANGED <<spoken, captured, workerBusy, paused, skipped>>
      BY <1>12, <1>a, Zenon DEF TickDecodes
    <2>4. tail' \in Seq(Word) /\ previous' \in Seq(Word) /\ carried' \in Seq(Word) /\ count' \in Nat
      <3>1. CASE Forced(words)
        BY <1>0, <3>1, Zenon DEF Forced
      <3>2. CASE Agreed(words, AlreadyCommitted(words), n)
        <4>1. SubSeq(words, n + 1, Len(words)) \in Seq(Word)
          OBVIOUS
        <4>2. CarriedAfter \in Seq(Word)
          BY <1>0, <1>2, Zenon DEF CarriedAfter
        <4> QED
          BY <3>2, <4>1, <4>2, Zenon DEF Agreed
      <3> QED
        BY <2>a, <3>1, <3>2, Zenon
    <2>5. segment' \in 0 .. captured /\ Transcript(previous', segment', spoken)
      <3>1. CASE Forced(words)
        <4>1. segment' = segment + (IF window > Keep THEN window - Keep ELSE window) /\ previous' = <<>>
          BY <3>1, Zenon DEF Forced, NextSegment
        <4> QED
          BY <1>0, <1>1, <1>3, <2>3, <4>1
      <3>2. CASE Agreed(words, AlreadyCommitted(words), n)
        BY <1>1, <2>a, <3>2, Zenon DEF Agreed
      <3> QED
        BY <2>a, <3>1, <3>2, Zenon
    <2>6. shown' = [committed |-> committed', tail |-> tail']
      BY <1>2, <1>12, Zenon DEF TickDecodes, PublishPartial
    <2>7. Transcript(previous, segment, spoken)'
      BY <2>3, <2>5, Zenon
    <2> QED
      BY <1>1, <1>2, <2>2, <2>3, <2>4, <2>5, <2>6, <2>7 DEF LiveShape, LiveTypeOK
  <1>13. CASE UNCHANGED liveVars
    BY <1>1, <1>2, <1>13, <1>a, Zenon DEF liveVars, bookVars, LiveShape, LiveTypeOK, Transcript
  <1> QED
    BY <1>4, <1>5, <1>6, <1>7, <1>8, <1>9, <1>10, <1>11, <1>12, <1>13, Zenon DEF LiveNext, Tick

\* The books stay well-formed, whatever is heard and whenever ticks run.
THEOREM ShapeAlways == LiveSpec => []LiveShape
  <1>1. LiveInit => LiveShape
    <2> SUFFICES ASSUME LiveInit PROVE LiveShape
      BY Zenon
    <2>1. MaxAudio \in Nat /\ <<>> \in Seq(Word)
      BY LiveAssumption DEF LiveAssumption
    <2>2. Transcript(previous, segment, spoken)
      BY DEF LiveInit, Transcript
    <2>3. /\ committed \in Seq(Word) /\ tail \in Seq(Word) /\ previous \in Seq(Word) /\ carried \in Seq(Word)
          /\ shown = [committed |-> committed, tail |-> tail]
      BY <2>1, Zenon DEF LiveInit, Nothing
    <2>4. /\ spoken = <<>> /\ workerBusy \in BOOLEAN /\ paused = FALSE /\ segment = 0 /\ count = 0
          /\ tpc = "out" /\ window = 0 /\ skipped = 0
      BY Zenon DEF LiveInit
    <2>a. spoken \in Seq(Texts) /\ captured = 0
      BY <2>4 DEF captured
    <2>5. /\ captured <= MaxAudio /\ segment \in 0 .. captured /\ count \in Nat /\ window \in 0 .. captured
          /\ skipped \in 0 .. captured
      BY ONLY <2>1, <2>4, <2>a
    <2>6. shown \in [committed : Seq(Word), tail : Seq(Word)]
      BY ONLY <2>3, Zenon
    <2>7. {committed, tail, previous, carried} \subseteq Seq(Word)
      BY ONLY <2>3, Zenon
    <2>8. LiveTypeOK
      BY ONLY <2>4, <2>5, <2>6, <2>7, <2>a, Zenon DEF LiveTypeOK
    <2> QED
      BY ONLY <2>2, <2>3, <2>4, <2>8, Zenon DEF LiveShape
  <1> QED
    BY <1>1, ShapeNext, PTL DEF LiveSpec

\* The segment and the window lie within the captured audio, and the texts are
\* made of words spoken in it.
THEOREM LiveTypesAlways == LiveSpec => []LiveTypeOK
  <1>1. LiveShape => LiveTypeOK
    BY Zenon DEF LiveShape
  <1> QED
    BY <1>1, ShapeAlways, PTL

\* publish_partial() compares both texts, so between ticks a client that kept the
\* last TranscriptionPartial shows the current ones.
THEOREM ShownIsCurrentAlways == LiveSpec => []ShownIsCurrent
  <1>1. LiveShape => ShownIsCurrent
    BY Zenon DEF LiveShape, ShownIsCurrent
  <1> QED
    BY <1>1, ShapeAlways, PTL

-----------------------------------------------------------------------------
(* What is committed, when the kept audio is one word and the first word of a *)
(* window is heard right. *)

\* A pause only happens before the first tick that reads.
Untouched ==
    /\ committed = <<>> /\ previous = <<>> /\ carried = <<>>
    /\ segment = 0 /\ count = 0 /\ tpc = "out" /\ skipped = 0

\* b may be committed after a: it was spoken later, or it corrects what a was
\* mistaken for.
MayFollow(a, b) == a.at < b.at \/ (a.at = b.at /\ a.text # b.text)

Ordered(text) == \A i, k \in 1 .. Len(text) : i < k => MayFollow(text[i], text[k])

\* What was said from `from` on is in the text, unless it was a repetition.
Covered(text, p, said) == Echo(said, p) \/ \E i \in 1 .. Len(text) : text[i].at = p

Covers(text, from, upto, said) == \A p \in from + 1 .. upto : Covered(text, p, said)

\* The word lies among the first m of the segment that begins at base; or it is
\* the first one of the segment, and mistaken.
InFront(word, base, m, said) ==
    word.at <= base + m \/ (m = 0 /\ word.at = base + 1 /\ word.text # said[base + 1])

AllInFront(text, base, m, said) == \A i \in 1 .. Len(text) : InFront(text[i], base, m, said)

\* The last word of a window is not in the text unless it is also the first one.
Behind(text, base, edge) == \A i \in 1 .. Len(text) : text[i].at <= edge /\ (text[i].at = edge => edge = base + 1)

\* The next tick is the first one of a segment that follows another.
AtBoundary == count = 0 /\ previous = <<>> /\ carried # <<>>

\* The words carried over a boundary are a transcript up to the end of the segment
\* before it, or up to the unit that is kept, which is then taken care of.
Carries(words, text, base, skip, said) ==
    LET last == words[Len(words)]
    IN  /\ Transcript(words, last.at - Len(words), said)
        /\ \/ last.at = base /\ last.text = said[base]
           \/ last.at = base + 1 /\ Covers(text, skip, base + 1, said)

LastCarried == carried[Len(carried)]

\* NeverRepeated and CommittedCoversAudio, with what they need: everything up to
\* the count is taken care of and nothing beyond it committed, except that at a
\* boundary the word that is kept may have been committed already.
LiveBook ==
    /\ workerBusy \/ paused => Untouched
    /\ Ordered(committed)
    /\ \A i \in 1 .. Len(committed) :
          \/ InFront(committed[i], segment, count, spoken)
          \/ AtBoundary /\ committed[i].at = segment + 1 /\ committed[i] = LastCarried
    /\ Covers(committed, skipped, segment + count, spoken)
    /\ AtBoundary => Carries(carried, committed, segment, skipped, spoken)
    /\ segment + count <= captured /\ Behind(committed, segment, captured)
    /\ tpc = "decode" => count <= window /\ Behind(committed, segment, segment + window)

\* Where a word and the one d units before it are the same, it is a repetition, and
\* the next one follows one.
LEMMA Repeated ==
    ASSUME NEW said, NEW p \in Int, NEW d \in Nat \ {0}, p - d >= 1, said[p - d] = said[p]
    PROVE  Echo(said, p) /\ Echo(said, p + 1)
  <1>1. p - d \in 1 .. p - 1 /\ (p + 1) - 1 = p
    OBVIOUS
  <1>2. \E q \in 1 .. p - 1 : said[q] = said[p]
    BY <1>1, Zenon
  <1>3. \A x : x = p \/ x - 1 = p => Echo(said, x)
    BY <1>2, Zenon DEF Echo
  <1> QED
    BY <1>1, <1>3, Zenon

\* Where an end of the words carried over a boundary is found again at the beginning
\* of a transcript, everything it makes the tick leave out is taken care of: the
\* kept word, and what repeats words said before.
LEMMA Dropped ==
    ASSUME NEW before \in Seq(Word), before # <<>>, NEW now \in Seq(Word), NEW base \in Nat, NEW skip \in Nat,
           NEW said, NEW text, Transcript(now, base, said), Carries(before, text, base, skip, said),
           Covers(text, skip, base, said),
           now # <<>>, now[1].text = said[base + 1],
           NEW o, o \in 0 .. Len(now), o <= Len(before),
           \A i \in 1 .. o : before[Len(before) - o + i].text = now[i].text
    PROVE  Covers(text, skip, base + o, said)
  <1> DEFINE l == Len(before)
             e == before[l].at
             d == base + o - e
  <1>1. l \in Nat \ {0} /\ Len(now) \in Nat \ {0} /\ o \in Nat /\ o <= l /\ o <= Len(now)
    BY Words
  <1>2. /\ Transcript(before, e - l, said)
        /\ \/ e = base /\ before[l].text = said[base]
           \/ e = base + 1 /\ Covers(text, skip, base + 1, said)
    BY Zenon DEF Carries
  <1>3. e \in {base, base + 1} /\ e \in Int
    BY <1>2
  <1> HIDE DEF e, l
  <1>4. ASSUME NEW i \in 1 .. o - 1
        PROVE  said[(base + i) - d] = said[base + i] /\ (base + i) - d >= 1
    <2> DEFINE k == l - o + i
    <2>1. i \in 1 .. Len(now) /\ i < Len(now) /\ i \in 1 .. o /\ k \in 1 .. l /\ k < l /\ e - l + k = (base + i) - d
      BY <1>1, <1>3
    <2>2. now[i].text = said[base + i]
      BY <2>1, Zenon DEF Transcript
    <2>3. before[k].at = e - l + k /\ before[k].text = said[e - l + k]
      <3> HIDE DEF k
      <3> QED
        BY <1>2, <2>1, Zenon DEF Transcript, l
    <2>4. before[k].text = now[i].text
      BY <2>1, Zenon DEF l
    <2>5. before[k].at >= 1
      <3> HIDE DEF k
      <3>1. before[k] \in Word
        BY <2>1, Words, Zenon DEF l
      <3> QED
        BY <3>1 DEF Word
    <2> QED
      BY <2>1, <2>2, <2>3, <2>4, <2>5, Zenon
  <1>5. ASSUME NEW i \in 1 .. o - 1, d # 0
        PROVE  Echo(said, base + i) /\ Echo(said, base + i + 1)
    <2>1. base + i \in Int /\ d \in Nat \ {0}
      BY <1>1, <1>3, <1>5
    <2> DEFINE p == base + i
    <2>2. said[p - d] = said[p] /\ p - d >= 1
      BY <1>4, Zenon
    <2>3. Echo(said, p) /\ Echo(said, p + 1)
      <3>1. p \in Int
        BY <2>1, Zenon
      <3> HIDE DEF d, p
      <3> QED
        BY <2>1, <2>2, <3>1, Repeated, Zenon
    <2> QED
      BY <2>3, Zenon
  <1> SUFFICES ASSUME NEW p \in skip + 1 .. base + o
               PROVE  Covered(text, p, said)
    BY Zenon DEF Covers
  <1>6. CASE p <= base
    <2>1. p \in skip + 1 .. base
      BY <1>6
    <2> QED
      BY <2>1, Zenon DEF Covers
  <1>7. CASE e = base + 1 /\ p = base + 1
    <2>1. p \in skip + 1 .. base + 1 /\ e # base
      BY <1>7
    <2> QED
      BY <1>2, <2>1, Zenon DEF Covers
  <1>8. CASE e = base /\ o = 1 /\ p = base + 1
    <2>1. l - o + 1 = l /\ 1 \in 1 .. o /\ p - 1 = base /\ p \in Int /\ 1 \in Nat \ {0}
      BY <1>1, <1>8
    <2>2. before[l].text = now[1].text
      BY <2>1, Zenon DEF l
    <2>3. said[p - 1] = said[p]
      <3>1. base # base + 1
        OBVIOUS
      <3> QED
        BY <1>2, <1>8, <2>1, <2>2, <3>1, Zenon
    <2>4. base >= 1
      <3>1. before[l] \in Word
        BY <1>1 DEF l
      <3> QED
        BY <1>8, <3>1 DEF Word, e
    <2>5. Echo(said, p)
      BY <2>1, <2>3, <2>4, Repeated, Zenon
    <2> QED
      BY <2>5, Zenon DEF Covered
  <1>9. CASE p > base /\ ~(e = base + 1 /\ p = base + 1) /\ ~(e = base /\ o = 1 /\ p = base + 1)
    <2>1. d # 0 /\ o >= 2
      BY <1>1, <1>3, <1>9
    <2>2. p - base \in 1 .. o - 1 \/ (p - base - 1 \in 1 .. o - 1 /\ p = base + (p - base - 1) + 1)
      BY <1>1, <1>9, <2>1
    <2>3. base + (p - base) = p
      OBVIOUS
    <2> HIDE DEF d
    <2>4. Echo(said, p)
      BY <1>5, <2>1, <2>2, <2>3, Zenon
    <2> QED
      BY <2>4, Zenon DEF Covered
  <1> QED
    BY <1>3, <1>6, <1>7, <1>8, <1>9

\* What the first tick of a segment finds committed is committed or was repeated;
\* a word committed before that it does not find was mistaken.
LEMMA Recognised ==
    ASSUME LiveShape, LiveBook, tpc = "decode", NEW words \in Seq(Word), Transcript(words, segment, spoken),
           words # <<>>, words[1].text = spoken[segment + 1], Len(words) <= window,
           NEW m, m = AlreadyCommitted(words)
    PROVE  /\ m \in Nat /\ m <= window
           /\ AllInFront(committed, segment, m, spoken)
           /\ Covers(committed, skipped, segment + m, spoken)
  <1>0. segment \in Nat /\ count \in Nat /\ window \in Nat /\ skipped \in Nat /\ captured \in Nat
    BY Buffer DEF LiveShape, LiveTypeOK
  <1>1. carried \in Seq(Word) /\ committed \in Seq(Word)
    BY Zenon DEF LiveShape, LiveTypeOK
  <1>2. /\ \A i \in 1 .. Len(committed) :
              \/ InFront(committed[i], segment, count, spoken)
              \/ AtBoundary /\ committed[i].at = segment + 1 /\ committed[i] = LastCarried
        /\ Covers(committed, skipped, segment + count, spoken)
        /\ AtBoundary => Carries(carried, committed, segment, skipped, spoken)
        /\ count <= window
    BY Zenon DEF LiveBook
  <1>3. CASE ~AtBoundary
    <2>1. m = count
      BY <1>3, Zenon DEF AtBoundary, AlreadyCommitted
    <2> QED
      BY <1>0, <1>2, <1>3, <2>1, Zenon DEF AllInFront
  <1>4. CASE AtBoundary
    <2>1. count = 0 /\ carried # <<>> /\ m = OverlapPrefixLength(carried, words)
      BY <1>4, Zenon DEF AtBoundary, AlreadyCommitted
    <2>2. /\ m \in 0 .. Len(words) /\ m <= Len(carried)
          /\ \A i \in 1 .. m : carried[Len(carried) - m + i].text = words[i].text
          /\ LastCarried.text = words[1].text => m # 0
      <3>1. Overlapping(carried, words, m)
        BY <1>1, <2>1, Overlap, Zenon
      <3> QED
        BY <3>1, Zenon DEF LastCarried, Overlapping
    <2>3. Len(words) \in Nat /\ m \in Nat /\ m <= window
      <3>1. Len(words) \in Nat
        BY Words, Zenon
      <3> QED
        BY <1>0, <2>2, <3>1
    <2>4. ASSUME NEW i \in 1 .. Len(committed)
          PROVE  InFront(committed[i], segment, m, spoken)
      <3>1. committed[i].at \in Int
        BY <1>1, Words, Zenon
      <3>2. CASE m = 0
        <4>1. CASE InFront(committed[i], segment, count, spoken)
          BY <2>1, <3>2, <4>1, Zenon
        <4>2. CASE committed[i].at = segment + 1 /\ committed[i] = LastCarried
          BY <2>2, <3>2, <4>2, Zenon DEF InFront
        <4> QED
          BY <1>2, <4>1, <4>2, Zenon
      <3>3. CASE m # 0
        <4>1. committed[i].at <= segment + count \/ committed[i].at = segment + 1
          BY <1>2, Zenon DEF InFront
        <4>2. committed[i].at <= segment + m
          BY <1>0, <2>1, <2>3, <3>1, <3>3, <4>1
        <4> QED
          BY <4>2, Zenon DEF InFront
      <3> QED
        BY <3>2, <3>3, Zenon
    <2>5. Covers(committed, skipped, segment + m, spoken)
      <3>1. Covers(committed, skipped, segment, spoken) /\ Carries(carried, committed, segment, skipped, spoken)
        <4>1. segment + count = segment
          BY <1>0, <2>1
        <4> QED
          BY <1>2, <1>4, <4>1, Zenon
      <3> QED
        BY <1>0, <1>1, <2>1, <2>2, <3>1, Dropped, Zenon
    <2> QED
      BY <2>3, <2>4, <2>5, Zenon DEF AllInFront
  <1> QED
    BY <1>3, <1>4, Zenon

\* The text keeps the order, covers the audio, and consists of words committed
\* before and of the words m + 1 .. n of this transcript.
Extended(text, before, words, base, skip, m, n, said) ==
    /\ Ordered(text)
    /\ Covers(text, skip, base + n, said)
    /\ \A i \in 1 .. Len(text) :
          \/ \E k \in 1 .. Len(before) : text[i] = before[k]
          \/ \E j \in m + 1 .. n : j <= Len(words) /\ text[i] = words[j] /\ text[i].at = base + j

\* Committing the words m + 1 .. n of a transcript, when all committed words lie
\* among the first m, keeps the order and extends what is covered.
LEMMA Commits ==
    ASSUME NEW before \in Seq(Word), NEW words \in Seq(Word), NEW base \in Nat, NEW skip \in Nat,
           NEW m \in Nat, NEW n \in Nat, m <= n, n <= Len(words) \/ n = m,
           NEW said, Transcript(words, base, said), words[1].text = said[base + 1],
           Ordered(before), Covers(before, skip, base + m, said), AllInFront(before, base, m, said),
           NEW after, Longer(after, before, words, m, n)
    PROVE  Extended(after, before, words, base, skip, m, n, said)
  <1> DEFINE l == Len(before)
  <1>1. l \in Nat /\ Len(words) \in Nat
    BY Words, Zenon
  <1>2. /\ after \in Seq(Word)
        /\ Len(after) = l + (n - m)
        /\ \A i \in 1 .. l : after[i] = before[i]
        /\ \A i \in l + 1 .. Len(after) : m + (i - l) \in m + 1 .. n /\ after[i] = words[m + (i - l)]
    <2>1. n - m = IF n > m THEN n - m ELSE 0
      OBVIOUS
    <2> QED
      BY <2>1, Zenon DEF Longer
  <1> HIDE DEF l
  <1>3. ASSUME NEW i \in l + 1 .. Len(after)
        PROVE  /\ m + (i - l) \in m + 1 .. n /\ m + (i - l) <= Len(words) /\ after[i] = words[m + (i - l)]
               /\ after[i].at = base + m + (i - l)
    <2>1. m + (i - l) \in m + 1 .. n /\ after[i] = words[m + (i - l)]
      BY <1>2, Zenon
    <2>2. m + (i - l) \in 1 .. Len(words)
      BY <1>1, <2>1
    <2>3. words[m + (i - l)].at = base + (m + (i - l))
      BY <2>2, Zenon DEF Transcript
    <2>4. base + (m + (i - l)) = base + m + (i - l) /\ m + (i - l) <= Len(words)
      BY ONLY <1>1, <2>2, base \in Nat, m \in Nat, i \in l + 1 .. Len(after)
    <2> QED
      BY <2>1, <2>3, <2>4, Zenon
  <1>4. \A i \in 1 .. Len(after) : i \in 1 .. l \/ i \in l + 1 .. Len(after)
    BY <1>1, <1>2
  <1>5. \A i \in 1 .. l : i \in 1 .. Len(after) /\ after[i] = before[i] /\ InFront(after[i], base, m, said)
    BY <1>1, <1>2 DEF l, AllInFront
  <1>6. \A i \in 1 .. Len(after) : after[i].at \in Int
    BY <1>2, Words, Zenon
  <1>7. Ordered(after)
    <2> SUFFICES ASSUME NEW i \in 1 .. Len(after), NEW k \in 1 .. Len(after), i < k
                 PROVE  MayFollow(after[i], after[k])
      BY Zenon DEF Ordered
    <2>1. CASE k \in 1 .. l
      <3>1. i \in 1 .. l
        BY <1>1, <2>1
      <3> QED
        BY <1>5, <2>1, <3>1, Zenon DEF Ordered, l
    <2>2. CASE k \in l + 1 .. Len(after) /\ i \in l + 1 .. Len(after)
      <3>1. after[i].at = base + m + (i - l) /\ after[k].at = base + m + (k - l)
        BY <1>3, <2>2, Zenon
      <3>2. after[i].at < after[k].at
        BY <1>1, <3>1
      <3> QED
        BY <3>2, Zenon DEF MayFollow
    <2>3. CASE k \in l + 1 .. Len(after) /\ i \in 1 .. l
      <3>1. after[k].at = base + m + (k - l) /\ after[k] = words[m + (k - l)]
        BY <1>3, <2>3, Zenon
      <3>a. k - l \in Nat \ {0}
        BY <1>1, <2>3
      <3>2. CASE after[i].at <= base + m
        <4>1. after[i].at \in Int
          BY <1>6, Zenon
        <4>2. after[i].at < base + m + (k - l)
          <5>1. \A x, y \in Int, z \in Nat \ {0} : x <= y => x < y + z
            BY ONLY SMTT(20)
          <5>2. base + m \in Int
            OBVIOUS
          <5> QED
            BY <3>2, <3>a, <4>1, <5>1, <5>2, Zenon
        <4> QED
          BY <3>1, <4>2, Zenon DEF MayFollow
      <3>3. CASE m = 0 /\ after[i].at = base + 1 /\ after[i].text # said[base + 1]
        <4>1. CASE k - l = 1
          <5>1. m + (k - l) = 1 /\ base + m + (k - l) = base + 1
            BY <1>1, <3>3, <4>1
          <5>2. after[k].at = base + 1 /\ after[k].text = said[base + 1]
            BY <3>1, <5>1, Zenon
          <5> QED
            BY <3>3, <5>2, Zenon DEF MayFollow
        <4>2. CASE k - l # 1
          <5>1. after[i].at < after[k].at
            BY <3>1, <3>3, <3>a, <4>2
          <5> QED
            BY <5>1, Zenon DEF MayFollow
        <4> QED
          BY <4>1, <4>2, Zenon
      <3> QED
        BY <1>5, <2>3, <3>2, <3>3, Zenon DEF InFront
    <2> QED
      BY <1>4, <2>1, <2>2, <2>3, Zenon
  <1>8. Covers(after, skip, base + n, said)
    <2> SUFFICES ASSUME NEW p \in skip + 1 .. base + n
                 PROVE  Covered(after, p, said)
      BY Zenon DEF Covers
    <2>1. CASE p <= base + m
      <3>1. p \in skip + 1 .. base + m
        BY <2>1
      <3>2. Echo(said, p) \/ \E i \in 1 .. l : before[i].at = p
        BY <3>1, Zenon DEF Covers, Covered, l
      <3> QED
        BY <1>5, <3>2, Zenon DEF Covered
    <2>2. CASE ~(p <= base + m)
      <3> DEFINE i == l + (p - base - m)
      <3>1. i \in l + 1 .. Len(after) /\ base + m + (i - l) = p /\ i \in 1 .. Len(after)
        BY <1>1, <1>2, <2>2
      <3> HIDE DEF i
      <3>2. after[i].at = p
        BY <1>3, <3>1, Zenon
      <3> QED
        BY <3>1, <3>2, Zenon DEF Covered
    <2> QED
      BY <2>1, <2>2, Zenon
  <1>9. ASSUME NEW i \in 1 .. Len(after)
        PROVE  \/ \E k \in 1 .. l : after[i] = before[k]
               \/ \E j \in m + 1 .. n : j <= Len(words) /\ after[i] = words[j] /\ after[i].at = base + j
    <2>1. CASE i \in 1 .. l
      BY <1>5, <2>1, Zenon
    <2>2. CASE i \in l + 1 .. Len(after)
      <3>1. base + m + (i - l) = base + (m + (i - l))
        BY <1>1
      <3> QED
        BY <1>3, <2>2, <3>1, Zenon
    <2> QED
      BY <1>4, <2>1, <2>2, Zenon
  <1> QED
    BY <1>7, <1>8, <1>9, Zenon DEF Extended, l

\* A tick that decodes keeps the books: what it commits follows what was
\* committed, and the next segment begins with the last unit of this one.
LEMMA BookDecodes ==
    ASSUME Steady, Keep = 1, LiveShape, LiveBook, TickDecodes
    PROVE  LiveBook'
  <1>1. PICK words \in Seq(Word), n \in Nat : Decoded(words, n)
    BY Decoding, Zenon
  <1> DEFINE m == AlreadyCommitted(words)
             L == Len(words)
  <1>a. /\ Transcript(words, segment, spoken)
        /\ \/ L = window
           \/ L = window - 1 /\ \A i \in 1 .. L : words[i].text = spoken[segment + i]
        /\ words # <<>> /\ words[1].text = spoken[segment + 1]
        /\ m <= n /\ (n <= L \/ n = m)
        /\ committed' = committed \o SubSeq(words, m + 1, n)
        /\ (n >= L /\ Forced(words)) \/ Agreed(words, m, n)
    BY <1>1, Zenon DEF Decoded
  <1>2. /\ tpc = "decode" /\ tpc' = "out" /\ spoken' = spoken /\ captured' = captured
        /\ workerBusy' = workerBusy /\ paused' = paused /\ skipped' = skipped
    BY Zenon DEF TickDecodes, captured
  <1>3. /\ segment \in Nat /\ window \in Nat \ {0} /\ captured \in Nat /\ skipped \in Nat
        /\ segment + window <= captured
    BY <1>2, Buffer DEF LiveShape
  <1>4. /\ committed \in Seq(Word) /\ Ordered(committed) /\ ~workerBusy /\ ~paused
        /\ Behind(committed, segment, captured) /\ Behind(committed, segment, segment + window)
    <2>1. committed \in Seq(Word)
      BY Zenon DEF LiveShape, LiveTypeOK
    <2> QED
      BY <1>2, <2>1, Zenon DEF LiveBook, Untouched
  <1>5. L \in Nat \ {0} /\ L \in {window - 1, window} /\ L <= window
    <2>1. L \in Nat \ {0}
      BY <1>a, Words, Zenon
    <2>2. L \in {window - 1, window}
      BY <1>a, Zenon DEF L
    <2> QED
      BY ONLY <1>3, <2>1, <2>2
  <1>6. /\ m \in Nat /\ m <= window
        /\ AllInFront(committed, segment, m, spoken)
        /\ Covers(committed, skipped, segment + m, spoken)
    BY <1>a, <1>2, <1>5, Recognised, Zenon
  <1>8. Longer(committed', committed, words, m, n)
    BY <1>a, <1>4, <1>6, Committing, Zenon
  <1>9. /\ Ordered(committed')
        /\ Covers(committed', skipped, segment + n, spoken)
        /\ \A i \in 1 .. Len(committed') :
              \/ \E k \in 1 .. Len(committed) : committed'[i] = committed[k]
              \/ \E j \in m + 1 .. n : j <= L /\ committed'[i] = words[j] /\ committed'[i].at = segment + j
    <2> HIDE DEF m
    <2>1. Extended(committed', committed, words, segment, skipped, m, n, spoken)
      BY <1>3, <1>4, <1>6, <1>8, <1>a, Commits, Zenon
    <2> QED
      BY <2>1, Zenon DEF Extended
  <1>10. /\ \A i \in 1 .. Len(committed') : committed'[i].at \in Int
         /\ \A i \in 1 .. Len(committed) : committed[i].at \in Int
    BY <1>4, <1>8, Words, Zenon DEF Longer
  <1>11. words[L].at = segment + L /\ (segment + L) - L = segment
    <2>1. L \in 1 .. L
      BY ONLY <1>5
    <2>2. words[L].at = segment + L
      BY <1>a, <2>1, Zenon DEF Transcript, L
    <2> QED
      BY ONLY <1>3, <1>5, <2>2
  <1> HIDE DEF m, L
  <1>12. CASE n >= L /\ Forced(words)
    <2>1. window > 1
      <3>1. Trailing \in Nat /\ Trailing >= 1 /\ MaxSegment \in Nat /\ MaxSegment > 1
        BY LiveAssumption, Zenon DEF LiveAssumption
      <3>2. window >= MaxSegment \/ window > Trailing
        BY <1>12, Zenon DEF Forced, MayForce, MustForce
      <3> QED
        BY ONLY <1>3, <3>1, <3>2
    <2>2. segment' = segment + (window - 1) /\ count' = 0 /\ previous' = <<>> /\ carried' = words
      BY <1>12, <2>1, Zenon DEF Forced, NextSegment
    <2>3. AtBoundary' /\ LastCarried' = words[L]
      BY <1>a, <2>2, Zenon DEF AtBoundary, LastCarried, L
    <2>4. segment' \in Nat /\ segment' + 1 = segment + window /\ segment' + 1 <= captured
      BY <1>3, <2>1, <2>2
    <2>5. ASSUME NEW i \in 1 .. Len(committed')
          PROVE  committed'[i].at <= segment' \/ (committed'[i].at = segment' + 1 /\ committed'[i] = words[L])
      <3>1. ASSUME NEW k \in 1 .. Len(committed), committed'[i] = committed[k]
            PROVE  committed'[i].at <= segment'
        <4>1. committed[k].at \in Int /\ committed[k].at <= segment + window /\ committed[k].at # segment + window
          <5>1. segment + window # segment + 1
            BY <1>3, <2>1
          <5> QED
            BY <1>4, <1>10, <5>1, Zenon DEF Behind
        <4> QED
          BY <2>4, <3>1, <4>1
      <3>2. ASSUME NEW j \in m + 1 .. n, j <= L, committed'[i] = words[j], committed'[i].at = segment + j
            PROVE  committed'[i].at <= segment' \/ (committed'[i].at = segment' + 1 /\ committed'[i] = words[L])
        <4>1. CASE j <= window - 1
          BY <1>3, <1>6, <2>2, <3>2, <4>1
        <4>2. CASE ~(j <= window - 1)
          <5>1. j = L /\ segment + j = segment' + 1
            BY <1>3, <1>5, <1>6, <2>2, <3>2, <4>2
          <5> QED
            BY <3>2, <5>1, Zenon
        <4> QED
          BY <4>1, <4>2, Zenon
      <3> QED
        BY <1>9, <3>1, <3>2, Zenon
    <2>6. \A i \in 1 .. Len(committed') :
             \/ InFront(committed'[i], segment', 0, spoken)
             \/ committed'[i].at = segment' + 1 /\ committed'[i] = words[L]
      <3>1. segment' + 0 = segment'
        <4>1. \A x \in Nat : x + 0 = x
          OBVIOUS
        <4> QED
          BY <2>4, <4>1, Zenon
      <3> QED
        BY <2>5, <3>1, Zenon DEF InFront
    <2>7. ASSUME NEW upto \in Int, upto <= segment + n
          PROVE  Covers(committed', skipped, upto, spoken)
      <3>1. \A p \in skipped + 1 .. upto : p \in skipped + 1 .. segment + n
        BY ONLY <1>3, <2>7, n \in Nat, upto \in Int
      <3> QED
        BY <1>9, <3>1, Zenon DEF Covers
    <2>8. Covers(committed', skipped, segment' + 0, spoken)
      <3>1. segment' + 0 \in Int /\ segment' + 0 <= segment + n
        BY ONLY <1>3, <1>5, <1>12, <2>2, <2>4, n \in Nat
      <3> QED
        BY <2>7, <3>1, Zenon
    <2>9. Carries(words, committed', segment', skipped, spoken)
      <3>1. CASE L = window - 1 /\ \A i \in 1 .. L : words[i].text = spoken[segment + i]
        <4>1. L \in 1 .. L /\ segment + L = segment'
          BY ONLY <1>3, <1>5, <2>2, <3>1
        <4> QED
          BY <1>11, <1>a, <3>1, <4>1, Zenon DEF Carries, L
      <3>2. CASE L = window
        <4>1. segment' + 1 \in Int /\ segment' + 1 <= segment + n /\ segment + L = segment' + 1
          <5>1. segment + window \in Int /\ segment + window <= segment + n
            BY ONLY <1>3, <1>5, <1>12, <3>2, n \in Nat
          <5> QED
            BY <2>4, <3>2, <5>1, Zenon
        <4>2. Covers(committed', skipped, segment' + 1, spoken)
          BY <2>7, <4>1, Zenon
        <4> QED
          BY <1>11, <1>a, <4>1, <4>2, Zenon DEF Carries, L
      <3> QED
        BY <1>a, <3>1, <3>2, Zenon DEF L
    <2>10. segment' + 0 <= captured /\ Behind(committed', segment', captured)
      <3>1. segment' + 0 <= captured
        <4>1. \A x, y \in Nat : x + 1 <= y => x + 0 <= y
          OBVIOUS
        <4> QED
          BY <1>3, <2>4, <4>1, Zenon
      <3>2. ASSUME NEW i \in 1 .. Len(committed')
            PROVE  /\ committed'[i].at <= captured
                   /\ committed'[i].at = captured => captured = segment' + 1
        <4>1. committed'[i].at \in Int /\ (committed'[i].at <= segment' \/ committed'[i].at = segment' + 1)
          BY <1>10, <2>5, Zenon
        <4>2. \A x, y \in Nat, z \in Int : x + 1 <= y /\ (z <= x \/ z = x + 1) => z <= y /\ (z = y => y = x + 1)
          BY ONLY SMTT(20)
        <4> QED
          BY <1>3, <2>4, <4>1, <4>2, Zenon
      <3> QED
        BY <3>1, <3>2, Zenon DEF Behind
    <2> QED
      BY <1>2, <1>4, <1>9, <2>2, <2>3, <2>6, <2>8, <2>9, <2>10, Zenon DEF LiveBook
  <1>13. CASE Agreed(words, m, n)
    <2>1. segment' = segment /\ count' = n /\ previous' = words
      BY <1>13, Zenon DEF Agreed
    <2>2. ~AtBoundary'
      BY <1>a, <2>1, Zenon DEF AtBoundary
    <2>3. (n = m \/ n < L) /\ segment + L <= captured
      <3>1. n = m \/ n < L
        BY <1>13, Zenon DEF Agreed, L
      <3> QED
        BY <1>3, <1>5, <3>1
    <2>4. ASSUME NEW i \in 1 .. Len(committed')
          PROVE  /\ InFront(committed'[i], segment, n, spoken)
                 /\ committed'[i].at <= captured /\ (committed'[i].at = captured => captured = segment + 1)
      <3>0. committed'[i].at \in Int
        BY <1>10, Zenon
      <3>1. ASSUME NEW k \in 1 .. Len(committed), committed'[i] = committed[k]
            PROVE  /\ InFront(committed'[i], segment, n, spoken)
                   /\ committed'[i].at <= captured /\ (committed'[i].at = captured => captured = segment + 1)
        <4>1. /\ InFront(committed'[i], segment, m, spoken)
              /\ committed'[i].at <= captured /\ (committed'[i].at = captured => captured = segment + 1)
          BY <1>4, <1>6, <3>1, Zenon DEF AllInFront, Behind
        <4>2. CASE n = m
          BY <4>1, <4>2, Zenon
        <4>3. CASE n # m
          <5>1. committed'[i].at <= segment + m \/ committed'[i].at = segment + 1
            BY <4>1, Zenon DEF InFront
          <5>2. committed'[i].at <= segment + n
            <6>1. m <= n
              BY <1>a, Zenon DEF m
            <6> QED
              BY <1>3, <1>6, <3>0, <4>3, <5>1, <6>1, SMTT(20)
          <5> QED
            BY <4>1, <5>2, Zenon DEF InFront
        <4> QED
          BY <4>2, <4>3, Zenon
      <3>2. ASSUME NEW j \in m + 1 .. n, committed'[i].at = segment + j
            PROVE  /\ InFront(committed'[i], segment, n, spoken)
                   /\ committed'[i].at <= captured /\ (committed'[i].at = captured => captured = segment + 1)
        <4>1. segment + j <= segment + n /\ segment + j < captured
          BY <1>3, <1>5, <1>6, <2>3
        <4>2. committed'[i].at <= segment + n /\ committed'[i].at <= captured /\ committed'[i].at # captured
          BY <1>3, <3>2, <4>1
        <4> QED
          BY <4>2, Zenon DEF InFront
      <3> QED
        BY <1>9, <3>1, <3>2, Zenon
    <2>5. segment + n <= captured /\ Behind(committed', segment, captured)
      <3>1. segment + n <= captured
        BY <1>3, <1>5, <1>6, <2>3
      <3> QED
        BY <2>4, <3>1, Zenon DEF Behind
    <2> QED
      BY <1>2, <1>4, <1>9, <2>1, <2>2, <2>4, <2>5, Zenon DEF LiveBook
  <1> QED
    BY <1>a, <1>12, <1>13, Zenon DEF m, L

\* With nothing committed and nothing carried, the books of a recording, or of the
\* part of it that follows a pause, are in order.
LEMMA BookBegins ==
    ASSUME committed' = <<>>, carried' = <<>>, count' = 0, skipped' = segment', segment' \in Nat,
           captured' \in Nat, segment' <= captured', tpc' # "decode",
           workerBusy' \/ paused' => Untouched'
    PROVE  LiveBook'
  <1>1. Len(committed') = 0 /\ 1 .. 0 = {}
    OBVIOUS
  <1>2. Ordered(committed)'
    BY ONLY <1>1, Zenon DEF Ordered
  <1>3. Covers(committed, skipped, segment + count, spoken)' /\ segment' + count' <= captured'
    <2>1. \A a \in Nat : a + 0 = a /\ \A p \in a + 1 .. a + 0 : FALSE
      OBVIOUS
    <2>2. \A p \in skipped' + 1 .. segment' + count' : FALSE
      BY <2>1, Zenon
    <2> QED
      BY <2>1, <2>2, Zenon DEF Covers
  <1>4. ~AtBoundary'
    BY Zenon DEF AtBoundary
  <1>5. Behind(committed, segment, captured)'
    BY ONLY <1>1, Zenon DEF Behind
  <1> QED
    BY <1>1, <1>2, <1>3, <1>4, <1>5, Zenon DEF LiveBook

\* What is covered stays so as more is said, ...
LEMMA CoversStays ==
    ASSUME NEW text, NEW from \in Nat, NEW upto \in Int, NEW said \in Seq(Texts), NEW more \in Seq(Texts),
           Continues(more, said), upto <= Len(said), Covers(text, from, upto, said)
    PROVE  Covers(text, from, upto, more)
  <1> SUFFICES ASSUME NEW p \in from + 1 .. upto PROVE Covered(text, p, more)
    BY Zenon DEF Covers
  <1>1. Covered(text, p, said)
    BY Zenon DEF Covers
  <1>2. ASSUME Echo(said, p)
        PROVE  Echo(more, p)
    <2>1. PICK r \in {p - 1, p} : \E q \in 1 .. r - 1 : said[q] = said[r]
      BY <1>2, Zenon DEF Echo
    <2>2. PICK q \in 1 .. r - 1 : said[q] = said[r]
      BY <2>1, Zenon
    <2>3. q \in 1 .. Len(said) /\ r \in 1 .. Len(said)
      <3>1. Len(said) \in Nat
        OBVIOUS
      <3> QED
        BY <3>1
    <2>4. more[q] = more[r]
      BY <2>2, <2>3, Zenon DEF Continues
    <2> QED
      BY <2>4, Zenon DEF Echo
  <1> QED
    BY <1>1, <1>2, Zenon DEF Covered

\* ... and so do the words carried over a boundary.
LEMMA CarriesStays ==
    ASSUME NEW words \in Seq(Word), words # <<>>, NEW text, NEW base \in Nat, NEW skip \in Nat,
           NEW said \in Seq(Texts), NEW more \in Seq(Texts), Continues(more, said),
           Carries(words, text, base, skip, said)
    PROVE  Carries(words, text, base, skip, more)
  <1> DEFINE l == Len(words)
             last == words[l]
  <1>1. l \in Nat \ {0} /\ last.at \in 1 .. MaxAudio /\ Len(said) \in Nat
    <2>1. l \in Nat \ {0} /\ last \in Word /\ Len(said) \in Nat
      OBVIOUS
    <2> QED
      BY <2>1, Zenon DEF Word
  <1>2. /\ Transcript(words, last.at - l, said)
        /\ \/ last.at = base /\ last.text = said[base]
           \/ last.at = base + 1 /\ Covers(text, skip, base + 1, said)
    BY Zenon DEF Carries
  <1>3. (last.at - l) + l <= Len(said)
    BY <1>2, Zenon DEF Transcript
  <1> HIDE DEF l, last
  <1>4. last.at \in 1 .. Len(said) /\ last.at - l \in Int
    BY ONLY <1>1, <1>3, LiveAssumption DEF LiveAssumption
  <1>5. Transcript(words, last.at - l, more)
    BY <1>2, <1>4, TranscriptStays, Zenon
  <1>6. CASE last.at = base /\ last.text = said[base]
    BY <1>4, <1>5, <1>6, Zenon DEF Continues, Carries, l, last
  <1>7. CASE last.at = base + 1 /\ Covers(text, skip, base + 1, said)
    <2>1. base + 1 \in Int /\ base + 1 <= Len(said)
      BY <1>1, <1>4, <1>7
    <2>2. Covers(text, skip, base + 1, more)
      BY <1>7, <2>1, CoversStays, Zenon
    <2> QED
      BY <1>5, <1>7, <2>2, Zenon DEF Carries, l, last
  <1> QED
    BY <1>2, <1>6, <1>7, Zenon

\* Steps that leave the books alone keep them.
LEMMA BookStays ==
    ASSUME LiveShape, LiveShape', LiveBook, UNCHANGED <<bookVars, skipped>>, Continues(spoken', spoken),
           workerBusy' \/ paused' => Untouched',
           tpc' = "decode" => (tpc = "decode" /\ window' = window) \/ segment + window' = captured
    PROVE  LiveBook'
  <1>1. UNCHANGED <<segment, count, committed, tail, previous, carried, skipped>>
    BY Zenon DEF bookVars
  <1>2. /\ spoken \in Seq(Texts) /\ spoken' \in Seq(Texts) /\ carried \in Seq(Word) /\ committed \in Seq(Word)
        /\ count \in Nat
    BY Zenon DEF LiveShape, LiveTypeOK
  <1>3. /\ segment \in Nat /\ skipped \in Nat /\ captured \in Nat /\ captured = Len(spoken)
        /\ captured' \in Nat /\ captured' >= captured /\ window' \in Nat
    <2>1. segment \in Nat /\ skipped \in Nat /\ captured \in Nat /\ captured = Len(spoken)
      BY Buffer DEF LiveShape
    <2>2. captured' = Len(spoken') /\ Len(spoken') >= Len(spoken)
      BY <1>2 DEF captured, Continues
    <2>3. Len(spoken') \in Nat
      BY <1>2
    <2>4. window' \in 0 .. captured'
      BY Zenon DEF LiveShape, LiveTypeOK
    <2> QED
      BY <2>1, <2>2, <2>3, <2>4
  <1>4. /\ Ordered(committed)
        /\ \A i \in 1 .. Len(committed) :
              \/ InFront(committed[i], segment, count, spoken)
              \/ AtBoundary /\ committed[i].at = segment + 1 /\ committed[i] = LastCarried
        /\ Covers(committed, skipped, segment + count, spoken)
        /\ AtBoundary => Carries(carried, committed, segment, skipped, spoken)
        /\ segment + count <= captured /\ Behind(committed, segment, captured)
        /\ tpc = "decode" => count <= window /\ Behind(committed, segment, segment + window)
    BY Zenon DEF LiveBook
  <1>5. \A i \in 1 .. Len(committed) : committed[i].at \in Int
    BY <1>2, Words, Zenon
  <1>6. ASSUME NEW i \in 1 .. Len(committed), InFront(committed[i], segment, count, spoken)
        PROVE  InFront(committed[i], segment, count, spoken')
    <2>1. committed[i].at = segment + 1 => segment + 1 \in 1 .. Len(spoken)
      <3>1. committed[i].at <= captured
        BY <1>4, Zenon DEF Behind
      <3> QED
        BY ONLY <1>3, <3>1
    <2> QED
      BY <1>6, <2>1, Zenon DEF InFront, Continues
  <1>7. Covers(committed, skipped, segment + count, spoken')
    <2>1. segment + count \in Int /\ segment + count <= Len(spoken)
      BY ONLY <1>2, <1>3, <1>4, SMTT(20)
    <2> QED
      BY <1>2, <1>3, <1>4, <2>1, CoversStays, Zenon
  <1>8. AtBoundary => Carries(carried, committed, segment, skipped, spoken')
    BY <1>2, <1>3, <1>4, CarriesStays, Zenon DEF AtBoundary
  <1>9. segment + count <= captured' /\ Behind(committed, segment, captured')
    BY ONLY <1>2, <1>3, <1>4, <1>5, SMTT(20) DEF Behind
  <1>10. tpc' = "decode" => count <= window' /\ Behind(committed, segment, segment + window')
    <2>1. segment + window' = captured => count <= window'
      BY ONLY <1>2, <1>3, <1>4, SMTT(20)
    <2> QED
      BY <1>4, <2>1, Zenon
  <1>11. (AtBoundary' <=> AtBoundary) /\ LastCarried' = LastCarried
    BY <1>1, Zenon DEF AtBoundary, LastCarried
  <1> QED
    BY <1>1, <1>4, <1>6, <1>7, <1>8, <1>9, <1>10, <1>11, Zenon DEF LiveBook

\* Every step keeps the books.
LEMMA BookNext ==
    ASSUME Steady, Keep = 1, LiveShape, LiveBook, [LiveNext]_liveVars
    PROVE  LiveBook'
  <1>1. captured \in Nat /\ segment \in Nat /\ MaxSegment \in Nat \ {0} /\ spoken \in Seq(Texts)
    BY Buffer, LiveAssumption DEF LiveAssumption, LiveShape, LiveTypeOK
  <1>2. LiveShape' /\ Continues(spoken, spoken) /\ (spoken' = spoken => captured' = captured)
    <2>1. Continues(spoken, spoken)
      BY <1>1 DEF Continues
    <2> QED
      BY <2>1, ShapeNext, Zenon DEF captured
  <1>3. workerBusy \/ paused => Untouched
    BY Zenon DEF LiveBook
  <1>4. CASE AudioArrives
    <2>1. PICK t \in Texts : spoken' = Append(spoken, t)
      BY <1>4, Zenon DEF AudioArrives
    <2>2. Continues(spoken', spoken)
      BY <1>1, <2>1 DEF Continues
    <2>3. UNCHANGED <<workerBusy, paused, segment, count, committed, tail, previous, carried, tpc, window, skipped>>
      BY <1>4, Zenon DEF AudioArrives, bookVars
    <2> QED
      BY <1>2, <1>3, <2>2, <2>3, BookStays, Zenon DEF bookVars, Untouched
  <1>5. CASE WorkerIdle
    BY <1>2, <1>3, <1>5, BookStays, Zenon DEF WorkerIdle, bookVars, Untouched
  <1>6. CASE Reset
    <2>1. /\ committed' = <<>> /\ previous' = <<>> /\ carried' = <<>> /\ segment' = 0 /\ count' = 0
          /\ tpc' = "out" /\ skipped' = 0 /\ spoken' = <<>>
      BY <1>6, Zenon DEF Reset
    <2>2. Untouched'
      BY <2>1, Zenon DEF Untouched
    <2>3. segment' \in Nat /\ skipped' = segment' /\ captured' \in Nat /\ segment' <= captured'
      BY <2>1 DEF captured
    <2> QED
      BY <2>1, <2>2, <2>3, BookBegins, Zenon
  <1>7. CASE TickPauses
    BY <1>2, <1>3, <1>7, BookStays, Zenon DEF TickPauses, bookVars, Untouched
  <1>8. CASE TickReads
    <2>1. segment + window' = captured
      BY <1>1, <1>8 DEF TickReads
    <2>2. /\ UNCHANGED <<spoken, workerBusy, segment, count, committed, tail, previous, carried, skipped>>
          /\ ~workerBusy /\ ~paused'
      BY <1>8, Zenon DEF TickReads, bookVars
    <2> QED
      BY <1>2, <2>1, <2>2, BookStays, Zenon DEF bookVars
  <1>9. CASE TickSkips
    <2>1. Untouched
      BY <1>3, <1>9, Zenon DEF TickSkips, TooFarBehind
    <2>2. /\ ~workerBusy /\ workerBusy' = workerBusy /\ paused' = FALSE
          /\ captured - segment > MaxSegment /\ captured' = captured /\ tpc' = "reread"
          /\ segment' = captured - MaxSegment /\ skipped' = segment'
          /\ count' = 0 /\ carried' = <<>> /\ committed' = committed
      BY <1>2, <1>9, Zenon DEF TickSkips, TooFarBehind
    <2>3. segment' \in Nat /\ committed' = <<>> /\ captured' \in Nat /\ segment' <= captured'
      BY <1>1, <2>1, <2>2 DEF Untouched
    <2> QED
      BY <2>2, <2>3, BookBegins, Zenon
  <1>10. CASE TickRereads
    <2>1. segment + window' = captured
      BY <1>1, <1>10 DEF TickRereads
    <2>2. /\ UNCHANGED <<spoken, workerBusy, paused, segment, count, committed, tail, previous, carried, skipped>>
          /\ tpc = "reread"
      BY <1>10, Zenon DEF TickRereads, bookVars
    <2> QED
      BY <1>2, <1>3, <2>1, <2>2, BookStays, Zenon DEF bookVars, Untouched
  <1>11. CASE TickFails
    BY <1>2, <1>3, <1>11, BookStays, Zenon DEF TickFails, bookVars, Untouched
  <1>12. CASE TickDecodes
    BY <1>12, BookDecodes, Zenon
  <1>13. CASE UNCHANGED liveVars
    BY <1>2, <1>3, <1>13, BookStays, Zenon DEF liveVars, bookVars, Untouched
  <1> QED
    BY <1>4, <1>5, <1>6, <1>7, <1>8, <1>9, <1>10, <1>11, <1>12, <1>13, Zenon DEF LiveNext, Tick

\* The books are kept in every recording.
THEOREM BookAlways ==
    ASSUME Steady, Keep = 1
    PROVE  LiveSpec => [](LiveShape /\ LiveBook)
  <1>1. LiveInit => LiveBook
    <2> SUFFICES ASSUME LiveInit PROVE LiveBook
      BY Zenon
    <2>1. Untouched /\ segment = 0 /\ count = 0 /\ skipped = 0 /\ Len(committed) = 0 /\ 1 .. 0 = {}
      BY DEF LiveInit, Untouched
    <2>2. Ordered(committed) /\ ~AtBoundary
      BY <2>1, Zenon DEF LiveInit, Ordered, AtBoundary
    <2>3. Covers(committed, skipped, segment + count, spoken)
      BY <2>1 DEF Covers
    <2>4. segment + count <= captured /\ Behind(committed, segment, captured) /\ tpc = "out"
      BY <2>1 DEF LiveInit, captured, Behind
    <2> QED
      BY <2>1, <2>2, <2>3, <2>4, Zenon DEF LiveBook
  <1>2. LiveShape /\ LiveBook /\ [LiveNext]_liveVars => LiveBook'
    BY BookNext, Zenon
  <1> QED
    BY <1>1, <1>2, ShapeAlways, PTL DEF LiveSpec

\* When the kept audio is one word and the first word of a window is heard right,
\* no spoken word is committed a second time, across segments, overlaps and pauses.
THEOREM NeverRepeatedAlways ==
    ASSUME Steady, Keep = 1
    PROVE  LiveSpec => []NeverRepeated
  <1>1. LiveShape /\ LiveBook => NeverRepeated
    <2> SUFFICES ASSUME LiveShape, LiveBook, NEW i \in DOMAIN committed, NEW k \in DOMAIN committed, i # k,
                        committed[i].at = committed[k].at
                 PROVE  ~WordsMatch(committed[i], committed[k])
      BY Zenon DEF NeverRepeated
    <2>1. committed \in Seq(Word) /\ Ordered(committed)
      BY Zenon DEF LiveShape, LiveTypeOK, LiveBook
    <2>2. i \in 1 .. Len(committed) /\ k \in 1 .. Len(committed) /\ committed[i].at \in Int /\ committed[k].at \in Int
      BY <2>1, Words, Zenon
    <2>3. MayFollow(committed[i], committed[k]) \/ MayFollow(committed[k], committed[i])
      <3>1. i < k \/ k < i
        BY <2>2
      <3> QED
        BY <2>1, <2>2, <3>1, Zenon DEF Ordered
    <2> QED
      BY <2>2, <2>3 DEF MayFollow, WordsMatch
  <1> QED
    BY <1>1, BookAlways, PTL

\* Under the same conditions committed words keep the order they were spoken in,
\* and in front of the segment only a word that is or follows a repetition may be
\* missing.
THEOREM CommittedCoversAudioAlways ==
    ASSUME Steady, Keep = 1
    PROVE  LiveSpec => []CommittedCoversAudio
  <1>1. LiveShape /\ LiveBook => CommittedCoversAudio
    <2> SUFFICES ASSUME LiveShape, LiveBook
                 PROVE  CommittedCoversAudio
      BY Zenon
    <2>1. committed \in Seq(Word) /\ Ordered(committed) /\ Covers(committed, skipped, segment + count, spoken)
      BY Zenon DEF LiveShape, LiveTypeOK, LiveBook
    <2>2. DOMAIN committed = 1 .. Len(committed) /\ \A i \in 1 .. Len(committed) : committed[i].at \in Int
      BY <2>1, Words, Zenon
    <2>3. segment \in Int /\ count \in Nat /\ skipped \in Int
      BY Buffer DEF LiveShape, LiveTypeOK
    <2>4. ASSUME NEW i \in DOMAIN committed, NEW k \in DOMAIN committed, i < k
          PROVE  committed[i].at <= committed[k].at
      <3>1. MayFollow(committed[i], committed[k])
        BY <2>1, <2>2, <2>4, Zenon DEF Ordered
      <3>2. committed[i].at \in Int /\ committed[k].at \in Int
        BY <2>2, Zenon
      <3> QED
        BY ONLY <3>1, <3>2 DEF MayFollow
    <2>5. \A p \in skipped + 1 .. segment : p \in skipped + 1 .. segment + count
      BY <2>3
    <2>6. \A p \in skipped + 1 .. segment : Echo(spoken, p) \/ \E i \in DOMAIN committed : committed[i].at = p
      BY <2>1, <2>2, <2>5, Zenon DEF Covers, Covered
    <2> QED
      BY <2>4, <2>6, Zenon DEF CommittedCoversAudio
  <1> QED
    BY <1>1, BookAlways, PTL

===============================================================================
