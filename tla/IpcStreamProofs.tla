--------------------------- MODULE IpcStreamProofs ---------------------------
(***************************************************************************)
(* Proofs about what the IPC server's clients receive, for any number of   *)
(* connections, descriptors and events and any socket buffer: a subscriber *)
(* is sent every event and a client every answer, once and in order.       *)
(***************************************************************************)
EXTENDS IpcServerProofs

\* A line of this kind to f is to be sent, or is being sent.
Upcoming(f, kind) ==
    \/ \E m \in sending : m.to = f /\ m.line[1] = kind
    \/ writing # NoLine /\ writing.to = f /\ writing.line[1] = kind

\* The number of the latest line of this kind meant for f, and of the latest one
\* that f has received: they differ while it is on its way.
Due(f, kind)     == IF kind = "event" THEN published ELSE handled[at[f]]
Reached(f, kind) == IF Upcoming(f, kind) THEN Due(f, kind) - 1 ELSE Due(f, kind)

\* f was sent the lines of this kind after this one.
From(f, kind) == IF kind = "response" THEN 0 ELSE IF f \in subs THEN since[at[f]] ELSE published

\* The calls of send_line() still to be made or under way are for the latest
\* lines, at most one of a kind for a client.
Calls(f) ==
    /\ \A m \in sending : m.to = f => m.line[2] = Due(f, m.line[1]) /\ m.line[2] > 0
    /\ writing # NoLine /\ writing.to = f =>
          /\ writing.line[2] = Due(f, writing.line[1]) /\ writing.line[2] > 0
          /\ \A m \in sending : m.to = f => m.line[1] # writing.line[1]

\* What f has received of this kind.
Stream(f, kind) ==
    /\ Rising(at[f], kind)
    /\ \A i \in Sent(at[f], kind) : wire[at[f]][i].line[2] \in 1 .. Reached(f, kind)
    /\ \A n \in From(f, kind) + 1 .. Reached(f, kind) :
          \E i \in Sent(at[f], kind) : wire[at[f]][i].line[2] = n

\* A connection is not subscribed and has nothing handled before it is accepted,
\* and is subscribed whenever a number of events is noted for it.
Fresh ==
    /\ \A c \in Connections : peer[c] \in {"new", "queued"} => handled[c] = 0 /\ since[c] = -1
    /\ \A f \in Connected : since[at[f]] # -1 => f \in subs

\* NoEventMissed and AnsweredInOrder at every moment, also inside send_line().
Streams ==
    /\ Fresh
    /\ \A f \in Connected : Calls(f)
    /\ \A f \in Connected \ doomed, kind \in {"event", "response"} : Stream(f, kind)

\* The numbers a stream is described with are numbers.
LEMMA Counts ==
    ASSUME IpcTypeOK, NEW f \in Connected, NEW kind
    PROVE  /\ Due(f, kind) \in Nat /\ Reached(f, kind) \in Int /\ From(f, kind) \in Int
           /\ Upcoming(f, kind) => Reached(f, kind) = Due(f, kind) - 1
           /\ ~Upcoming(f, kind) => Reached(f, kind) = Due(f, kind)
  <1>1. at[f] \in Connections
    BY Connecteds, Zenon
  <1>2. published \in Nat /\ handled[at[f]] \in Nat /\ since[at[f]] \in Int
    BY <1>1, IpcAssumption, SMTT(20) DEF IpcAssumption, IpcTypeOK
  <1>3. Due(f, kind) \in Nat
    BY <1>2, Zenon DEF Due
  <1>4. From(f, kind) \in Int
    BY <1>2 DEF From
  <1> QED
    BY <1>3, <1>4 DEF Reached

\* A stream to which nothing is written stays one: no further line is due, or
\* none has been asked for.
LEMMA StreamKept ==
    ASSUME NEW f, NEW kind, Stream(f, kind), UNCHANGED <<at[f], wire[at[f]]>>,
           Reached(f, kind) \in Int, Reached(f, kind)' \in Int, From(f, kind) \in Int, From(f, kind)' \in Int,
           \/ Reached(f, kind)' = Reached(f, kind) /\ From(f, kind)' = From(f, kind)
           \/ Reached(f, kind)' >= Reached(f, kind) /\ From(f, kind)' >= Reached(f, kind)'
    PROVE  Stream(f, kind)'
  <1> DEFINE w  == wire[at[f]]
             S  == Sent(at[f], kind)
             r  == Reached(f, kind)
             q  == Reached(f, kind)'
             b  == From(f, kind)
             d  == From(f, kind)'
  <1>1. /\ Rising(at[f], kind)
        /\ \A i \in S : w[i].line[2] \in 1 .. r
        /\ \A n \in b + 1 .. r : \E i \in S : w[i].line[2] = n
    BY Zenon DEF Stream
  <1>2. Sent(at[f], kind)' = S /\ (wire[at[f]])' = w
    BY Zenon DEF Sent
  <1>3. Rising(at[f], kind)'
    BY <1>1, <1>2, Zenon DEF Rising
  <1>4. Stream(f, kind)' <=> /\ Rising(at[f], kind)'
                             /\ \A i \in S : w[i].line[2] \in 1 .. q
                             /\ \A n \in d + 1 .. q : \E i \in S : w[i].line[2] = n
    BY ONLY <1>2, Zenon DEF Stream
  <1> HIDE DEF w, S, r, q, b, d
  <1>5. r \in Int /\ q \in Int /\ b \in Int /\ d \in Int /\ ((q = r /\ d = b) \/ (q >= r /\ d >= q))
    BY Zenon DEF r, q, b, d
  <1>6. \A i \in S : w[i].line[2] \in 1 .. q
    BY ONLY <1>1, <1>5
  <1>7. \A n \in d + 1 .. q : \E i \in S : w[i].line[2] = n
    <2>1. d + 1 .. q \subseteq b + 1 .. r
      BY ONLY <1>5
    <2> QED
      BY ONLY <1>1, <2>1, Zenon
  <1> QED
    BY <1>3, <1>4, <1>6, <1>7, Zenon

\* Steps that leave what is sent, and to whom, alone.
LEMMA StreamsSame ==
    ASSUME Streams, Fresh', UNCHANGED <<sending, writing, wire, published, handled, since>>,
           \A f \in Connected' : f \in Connected /\ at'[f] = at[f] /\ (f \in subs' <=> f \in subs),
           \A f \in Connected' \ doomed' : f \notin doomed
    PROVE  Streams'
  <1>1. ASSUME NEW f \in Connected' PROVE Calls(f)'
    <2>1. Calls(f) /\ at'[f] = at[f]
      BY Zenon DEF Streams
    <2> QED
      BY <2>1, Zenon DEF Calls, Due
  <1>2. ASSUME NEW f \in Connected' \ doomed', NEW kind \in {"event", "response"} PROVE Stream(f, kind)'
    <2>1. Stream(f, kind) /\ at'[f] = at[f] /\ (f \in subs' <=> f \in subs)
      BY Zenon DEF Streams
    <2>2. /\ Reached(f, kind)' = Reached(f, kind) /\ From(f, kind)' = From(f, kind)
          /\ Sent(at[f], kind)' = Sent(at[f], kind) /\ (Rising(at[f], kind)' <=> Rising(at[f], kind))
      <3>1. Due(f, kind)' = Due(f, kind)
        BY <2>1, Zenon DEF Due
      <3>2. Upcoming(f, kind)' <=> Upcoming(f, kind)
        BY Zenon DEF Upcoming
      <3>3. Reached(f, kind)' = Reached(f, kind)
        BY <3>1, <3>2, Zenon DEF Reached
      <3>4. From(f, kind)' = From(f, kind)
        BY <2>1, Zenon DEF From
      <3>5. Sent(at[f], kind)' = Sent(at[f], kind)
        BY <2>1, Zenon DEF Sent
      <3>6. Rising(at[f], kind)' <=> Rising(at[f], kind)
        BY <2>1, <3>5, Zenon DEF Rising
      <3> QED
        BY <3>3, <3>4, <3>5, <3>6, Zenon
    <2> QED
      BY <2>1, <2>2, Zenon DEF Stream
  <1> QED
    BY <1>1, <1>2, Zenon DEF Streams

\* A call of send_line() begins: the line was on its way and still is.
LEMMA BeginsStreams ==
    ASSUME IpcTypeOK, IpcTypeOK', Routes, Streams, NEW m \in sending, SendBegins(m)
    PROVE  Streams'
  <1>1. /\ writing = NoLine /\ sending' = sending \ {m}
        /\ writing' = IF m.to \in Connected THEN [to |-> m.to, line |-> m.line, left |-> 2] ELSE NoLine
        /\ UNCHANGED <<clientVars, serverVars, wire, seenVars>>
    BY Zenon DEF SendBegins
  <1>2. UNCHANGED <<peer, at, subs, doomed, wire, published, handled, since>>
    BY <1>1, Zenon DEF clientVars, serverVars, seenVars
  <1>3. Connected' = Connected
    BY <1>2, Zenon DEF Connected
  <1>4. m.to \in Fds /\ m.to # NoFd /\ m \in [to : Fds, line : Line]
    <2>1. m \in [to : Fds, line : Line]
      BY Zenon DEF IpcTypeOK
    <2> QED
      BY <2>1 DEF Fds, NoFd
  <1>5. /\ m.to \in Connected => writing' # NoLine /\ writing'.to = m.to /\ writing'.line = m.line
        /\ m.to \notin Connected => writing' = NoLine
    BY <1>1, <1>4, Zenon DEF NoLine
  <1>6. ASSUME NEW f \in Connected, NEW kind PROVE Upcoming(f, kind)' <=> Upcoming(f, kind)
    BY <1>1, <1>5, Zenon DEF Upcoming
  <1>7. ASSUME NEW f \in Connected, NEW kind PROVE Due(f, kind)' = Due(f, kind)
    BY <1>2, Zenon DEF Due
  <1>8. ASSUME NEW f \in Connected PROVE Calls(f)'
    <2>1. Calls(f)
      BY Zenon DEF Streams
    <2>2. ASSUME NEW x \in sending', x.to = f PROVE x.line[2] = Due(f, x.line[1]) /\ x.line[2] > 0
      BY <1>1, <2>1, <2>2, Zenon DEF Calls
    <2>3. ASSUME m.to = f, m.to \in Connected
          PROVE  /\ writing'.line = m.line /\ m.line[2] = Due(f, m.line[1]) /\ m.line[2] > 0
                 /\ \A x \in sending' : x.to = f => x.line[1] # writing'.line[1]
      <3>1. m.line[2] = Due(f, m.line[1]) /\ m.line[2] > 0 /\ writing'.line = m.line
        BY <1>5, <2>1, <2>3, Zenon DEF Calls
      <3>2. ASSUME NEW x \in sending', x.to = f, x.line[1] = m.line[1] PROVE FALSE
        <4>1. x \in sending /\ x # m /\ x \in [to : Fds, line : Line]
          BY <1>1, Zenon DEF IpcTypeOK
        <4>2. x.line[2] = m.line[2]
          BY <2>1, <3>1, <3>2, <4>1, Zenon DEF Calls
        <4>3. x.line = m.line
          BY <1>4, <3>2, <4>1, <4>2 DEF Line
        <4> QED
          BY <1>4, <2>3, <3>2, <4>1, <4>3
      <3> QED
        BY <3>1, <3>2, Zenon
    <2>4. ASSUME writing' # NoLine, writing'.to = f PROVE m.to = f /\ m.to \in Connected
      BY <1>5, <2>4, Zenon
    <2> QED
      BY <1>2, <2>2, <2>3, <2>4, Zenon DEF Calls, Due
  <1>9. ASSUME NEW f \in Connected \ doomed, NEW kind \in {"event", "response"} PROVE Stream(f, kind)'
    <2>1. Stream(f, kind)
      BY Zenon DEF Streams
    <2>2. Reached(f, kind)' = Reached(f, kind) /\ From(f, kind)' = From(f, kind)
      BY <1>2, <1>6, <1>7, Zenon DEF Reached, From
    <2>3. Reached(f, kind) \in Int /\ From(f, kind) \in Int
      BY Counts, Zenon
    <2> QED
      BY <1>2, <2>1, <2>2, <2>3, StreamKept, Zenon
  <1>10. Fresh'
    BY <1>2, <1>3, Zenon DEF Streams, Fresh
  <1> QED
    BY <1>2, <1>3, <1>8, <1>9, <1>10, Zenon DEF Streams

\* The client is given up on: nothing is promised to it any more.
LEMMA GivesUpStreams ==
    ASSUME IpcTypeOK, Routes, Streams, SendGivesUp
    PROVE  Streams'
  <1>1. /\ UNCHANGED <<peer, at, subs, sending, wire, published, handled, since>>
        /\ writing' = NoLine /\ doomed' = doomed \cup {writing.to}
    BY Zenon DEF SendGivesUp, clientVars, seenVars
  <1>2. Connected' = Connected
    BY <1>1, Zenon DEF Connected
  <1>3. \A f \in Connected : \A kind : Due(f, kind)' = Due(f, kind)
    BY <1>1, Zenon DEF Due
  <1>4. ASSUME NEW f \in Connected PROVE Calls(f)'
    <2>1. Calls(f)
      BY Zenon DEF Streams
    <2> QED
      BY <1>1, <1>3, <2>1, Zenon DEF Calls
  <1>5. ASSUME NEW f \in Connected \ doomed', NEW kind \in {"event", "response"} PROVE Stream(f, kind)'
    <2>1. f \in Connected \ doomed /\ f # writing.to
      BY <1>1, Zenon
    <2>2. Stream(f, kind)
      BY <2>1, Zenon DEF Streams
    <2>3. Upcoming(f, kind)' <=> Upcoming(f, kind)
      BY <1>1, <2>1, Zenon DEF Upcoming
    <2>4. Reached(f, kind)' = Reached(f, kind) /\ From(f, kind)' = From(f, kind)
      BY <1>1, <1>3, <2>1, <2>3, Zenon DEF Reached, From
    <2>5. Reached(f, kind) \in Int /\ From(f, kind) \in Int
      BY <2>1, Counts, Zenon
    <2> QED
      BY <1>1, <2>2, <2>4, <2>5, StreamKept, Zenon
  <1>6. Fresh'
    BY <1>1, <1>2, Zenon DEF Streams, Fresh
  <1> QED
    BY <1>2, <1>4, <1>5, <1>6, Zenon DEF Streams

\* v is w and pieces of the line that is written, of which the last one ends it
\* when nothing of the line is left.
Written(w, v) ==
    /\ Len(w) \in Nat /\ Len(v) \in Nat /\ Len(w) < Len(v)
    /\ DOMAIN w = 1 .. Len(w) /\ DOMAIN v = 1 .. Len(v)
    /\ \A i \in 1 .. Len(w) : v[i] = w[i]
    /\ \A i \in Len(w) + 1 .. Len(v) :
          v[i].line = writing.line /\ (v[i].last <=> i = Len(v) /\ writing' = NoLine)

\* What one write() adds to the pieces a client was sent.
LEMMA WriteAdds ==
    ASSUME IpcTypeOK, Routes, SendWrites, NEW f, f = writing.to,
           NEW w, w = wire[at[f]], NEW v, v = wire'[at[f]]
    PROVE  /\ Written(w, v)
           /\ writing' # NoLine => writing'.to = f /\ writing'.line = writing.line
  <1> DEFINE n == Len(w)
             half == [to |-> f, line |-> writing.line, left |-> 1]
  <1>0. writing.to \in Connected
    BY WriteTakes, Zenon
  <1>1. w \in Seq(Outbound) /\ at[f] \in Connections
    <2>1. wire \in [Connections -> Seq(Outbound)]
      BY Zenon DEF IpcTypeOK
    <2>2. at[f] \in Connections
      BY <1>0, Connecteds, Zenon
    <2> QED
      BY <2>1, <2>2, Zenon
  <1>2. n \in Nat /\ DOMAIN w = 1 .. n
    BY <1>1, LenProperties, Zenon
  <1>3. half # NoLine
    BY DEF NoLine
  <1>4. \E k \in {1, 2} :
           /\ Appended(at[f], k)
           /\ \/ k = writing.left /\ writing' = NoLine
              \/ k # writing.left /\ k = 1 /\ writing' = half
    BY WriteTakes
  <1>5. PICK k \in {1, 2} :
           /\ Appended(at[f], k)
           /\ \/ k = writing.left /\ writing' = NoLine
              \/ k # writing.left /\ k = 1 /\ writing' = half
    BY <1>4, Zenon
  <1>6. /\ v \in Seq(Outbound) /\ Len(v) = n + k /\ \A i \in 1 .. n : v[i] = w[i]
        /\ \A i \in 1 .. k : v[n + i] = [line |-> writing.line, last |-> i = writing.left]
    BY <1>5, Zenon DEF Appended
  <1>7. DOMAIN v = 1 .. Len(v) /\ Len(v) \in Nat /\ n < Len(v)
    BY <1>2, <1>6, LenProperties
  <1>8. ASSUME NEW i \in n + 1 .. Len(v)
        PROVE  v[i].line = writing.line /\ (v[i].last <=> i = Len(v) /\ writing' = NoLine)
    <2>1. i - n \in 1 .. k /\ n + (i - n) = i /\ (i = Len(v) <=> i - n = k)
      BY ONLY <1>2, <1>6, k \in {1, 2}, i \in n + 1 .. Len(v)
    <2>2. v[i] = [line |-> writing.line, last |-> (i - n) = writing.left]
      BY ONLY <1>6, <2>1, ZenonT(30)
    <2>3. v[i].line = writing.line /\ (v[i].last <=> i - n = writing.left)
      <3>1. CASE i - n = writing.left
        <4>1. v[i] = [line |-> writing.line, last |-> TRUE]
          BY ONLY <2>2, <3>1, Zenon
        <4> QED
          BY ONLY <3>1, <4>1
      <3>2. CASE i - n # writing.left
        <4>1. v[i] = [line |-> writing.line, last |-> FALSE]
          BY ONLY <2>2, <3>2, Zenon
        <4> QED
          BY ONLY <3>2, <4>1
      <3> QED
        BY ONLY <3>1, <3>2, Zenon
    <2>4. CASE k = writing.left /\ writing' = NoLine
      BY ONLY <2>1, <2>3, <2>4, Zenon
    <2>5. CASE k # writing.left /\ k = 1 /\ writing' = half
      <3>1. i - n = 1
        BY ONLY <2>1, <2>5, <1>2
      <3> QED
        BY ONLY <1>3, <2>3, <2>5, <3>1, Zenon
    <2> QED
      BY ONLY <1>5, <2>4, <2>5, Zenon
  <1>9. writing' # NoLine => writing'.to = f /\ writing'.line = writing.line
    BY ONLY <1>5
  <1> QED
    BY ONLY <1>2, <1>6, <1>7, <1>8, <1>9, Zenon DEF Written

\* Where a line of this kind ends in what was sent.
Endings(w, kind) == {i \in DOMAIN w : w[i].last /\ w[i].line[1] = kind}

\* The lines of this kind that end in v: those of w, and one more at the end
\* when the write() ends such a line.
Grown(kind, w, v) ==
    /\ \A i \in Endings(w, kind) : i \in Nat /\ i < Len(v) /\ v[i] = w[i]
    /\ Len(v) \in Nat
    /\ writing' = NoLine /\ kind = writing.line[1] =>
          Endings(v, kind) = Endings(w, kind) \cup {Len(v)} /\ v[Len(v)].line = writing.line
    /\ ~(writing' = NoLine /\ kind = writing.line[1]) => Endings(v, kind) = Endings(w, kind)

\* A write() appends to what was sent.
LEMMA WriteEnds ==
    ASSUME IpcTypeOK, Routes, SendWrites, NEW f, f = writing.to, NEW kind,
           NEW w, w = wire[at[f]], NEW v, v = wire'[at[f]]
    PROVE  Grown(kind, w, v)
  <1>1. /\ Len(w) \in Nat /\ Len(v) \in Nat /\ Len(w) < Len(v)
        /\ DOMAIN w = 1 .. Len(w) /\ DOMAIN v = 1 .. Len(v)
        /\ \A i \in 1 .. Len(w) : v[i] = w[i]
        /\ \A i \in Len(w) + 1 .. Len(v) :
              v[i].line = writing.line /\ (v[i].last <=> i = Len(v) /\ writing' = NoLine)
    <2>1. Written(w, v)
      BY WriteAdds, Zenon
    <2> QED
      BY ONLY <2>1, Zenon DEF Written
  <1>2. Len(w) \in Nat /\ Len(v) \in Nat /\ Len(w) < Len(v)
    BY ONLY <1>1, Zenon
  <1> DEFINE S == {i \in 1 .. Len(w) : w[i].last /\ w[i].line[1] = kind}
             T == {i \in 1 .. Len(v) : v[i].last /\ v[i].line[1] = kind}
  <1>3. Endings(w, kind) = S /\ Endings(v, kind) = T
    BY <1>1, Zenon DEF Endings
  <1>4. \A i \in S : i \in Nat /\ i < Len(v) /\ v[i] = w[i]
    <2>1. \A i \in 1 .. Len(w) : i \in Nat /\ i < Len(v)
      BY ONLY <1>2
    <2> QED
      BY ONLY <1>1, <2>1, Zenon
  <1>5. Len(v) \in Len(w) + 1 .. Len(v) /\ Len(v) \in 1 .. Len(v)
    BY ONLY <1>2
  <1>6. \A i : i \in T <=> i \in S \/ (i = Len(v) /\ writing' = NoLine /\ kind = writing.line[1])
    <2>1. \A i : i \in 1 .. Len(v) <=> i \in 1 .. Len(w) \/ i \in Len(w) + 1 .. Len(v)
      BY ONLY <1>2
    <2>2. \A i \in Len(w) + 1 .. Len(v) : i \notin 1 .. Len(w)
      BY ONLY <1>2
    <2> QED
      BY ONLY <1>1, <1>5, <2>1, <2>2, Zenon
  <1>7. v[Len(v)].line = writing.line
    BY ONLY <1>1, <1>5, Zenon
  <1> HIDE DEF S, T
  <1>8. /\ writing' = NoLine /\ kind = writing.line[1] => T = S \cup {Len(v)}
        /\ ~(writing' = NoLine /\ kind = writing.line[1]) => T = S
    BY ONLY <1>6, Zenon
  <1> QED
    BY <1>1, <1>3, <1>4, <1>7, <1>8, Zenon DEF Grown

\* One write(): the client's stream grows by the latest line when the line ends.
LEMMA WritesStreams ==
    ASSUME IpcTypeOK, Routes, Streams, SendWrites
    PROVE  Streams'
  <1>1. /\ UNCHANGED <<peer, at, subs, doomed, sending, published, handled, since>> /\ writing # NoLine
    BY Zenon DEF SendWrites, clientVars, serverVars, seenVars
  <1>2. Connected' = Connected
    BY <1>1, Zenon DEF Connected
  <1>3. /\ writing.to \in Connected
        /\ \A d \in Connections : d # at[writing.to] => wire'[d] = wire[d]
        /\ writing' # NoLine => writing'.to = writing.to /\ writing'.line = writing.line
    <2>1. writing' # NoLine => writing'.to = writing.to /\ writing'.line = writing.line
      BY WriteAdds, Zenon
    <2> QED
      BY <2>1, WriteTakes, Zenon
  <1>4. ASSUME NEW f \in Connected PROVE Calls(f)'
    <2>1. Calls(f)
      BY Zenon DEF Streams
    <2> QED
      BY <1>1, <1>3, <2>1, Zenon DEF Calls, Due
  <1>5. ASSUME NEW f \in Connected \ doomed, NEW kind \in {"event", "response"} PROVE Stream(f, kind)'
    <2>1. Stream(f, kind) /\ Calls(f)
      BY Zenon DEF Streams
    <2>2. Due(f, kind)' = Due(f, kind) /\ From(f, kind)' = From(f, kind)
      BY <1>1, Zenon DEF Due, From
    <2>3. /\ Reached(f, kind) \in Int /\ From(f, kind) \in Int /\ Due(f, kind) \in Nat
          /\ Upcoming(f, kind) => Reached(f, kind) = Due(f, kind) - 1
      BY Counts, Zenon
    <2>4. CASE f # writing.to
      <3>1. at[f] # at[writing.to] /\ at[f] \in Connections
        BY <1>3, <2>4, Connecteds, Zenon DEF Routes
      <3>2. Upcoming(f, kind)' <=> Upcoming(f, kind)
        BY <1>1, <1>3, <2>4, Zenon DEF Upcoming
      <3>3. Reached(f, kind)' = Reached(f, kind)
        BY <2>2, <3>2, Zenon DEF Reached
      <3>4. UNCHANGED <<at[f], wire[at[f]]>>
        BY <1>1, <1>3, <3>1, Zenon
      <3> QED
        BY <2>1, <2>2, <2>3, <3>3, <3>4, StreamKept, Zenon
    <2>5. CASE f = writing.to
      <3> SUFFICES ASSUME NEW w, w = wire[at[f]], NEW v, v = wire'[at[f]] PROVE Stream(f, kind)'
        BY Zenon
      <3> DEFINE S == Sent(at[f], kind)
                 N == Len(v)
                 ends == writing' = NoLine /\ kind = writing.line[1]
      <3>0. S = Endings(w, kind) /\ S' = Endings(v, kind)
        BY <1>1, Zenon DEF Sent, Endings
      <3>1. /\ \A i \in S : i \in Nat /\ i < N /\ v[i] = w[i]
            /\ N \in Nat
            /\ ends => S' = S \cup {N} /\ v[N].line = writing.line
            /\ ~ends => S' = S
        <4>1. Grown(kind, w, v)
          BY <2>5, WriteEnds, Zenon
        <4> QED
          BY ONLY <3>0, <4>1, Zenon DEF Grown
      <3> DEFINE r == Reached(f, kind)
                 q == Reached(f, kind)'
                 b == From(f, kind)
      <3>2. (wire[at[f]])' = v
        BY <1>1, Zenon
      <3>3. /\ \A i, k \in S : i < k => w[i].line[2] < w[k].line[2]
            /\ \A i \in S : w[i].line[2] \in 1 .. r
            /\ \A n \in b + 1 .. r : \E i \in S : w[i].line[2] = n
        BY <2>1, Zenon DEF Stream, Rising
      <3>4. Stream(f, kind)' <=> /\ \A i, k \in S' : i < k => v[i].line[2] < v[k].line[2]
                                 /\ \A i \in S' : v[i].line[2] \in 1 .. q
                                 /\ \A n \in b + 1 .. q : \E i \in S' : v[i].line[2] = n
        BY ONLY <2>2, <3>2, Zenon DEF Stream, Rising
      <3>5. CASE ~ends
        <4>1. Upcoming(f, kind)' <=> Upcoming(f, kind)
          BY <1>1, <1>3, <2>5, <3>5, Zenon DEF Upcoming
        <4>2. q = r /\ S' = S
          BY <2>2, <3>1, <3>5, <4>1, Zenon DEF Reached
        <4> QED
          BY ONLY <3>1, <3>3, <3>4, <4>2, ZenonT(30)
      <3>6. CASE ends
        <4>1. Upcoming(f, kind) /\ ~Upcoming(f, kind)'
          BY <1>1, <2>1, <2>5, <3>6, Zenon DEF Upcoming, Calls
        <4>2. r \in Int /\ b \in Int /\ q \in Nat /\ r = q - 1
          BY <2>2, <2>3, <4>1, Zenon DEF Reached
        <4>3. S' = S \cup {N} /\ v[N].line[2] = q /\ q > 0
          <5>1. v[N].line = writing.line /\ S' = S \cup {N}
            BY <3>1, <3>6, Zenon
          <5>2. writing.line[2] = Due(f, kind) /\ writing.line[2] > 0
            BY <1>1, <2>1, <2>5, <3>6, Zenon DEF Calls
          <5>3. q = Due(f, kind)
            BY <2>2, <4>1, Zenon DEF Reached
          <5> QED
            BY <5>1, <5>2, <5>3, Zenon
        <4> HIDE DEF S, N, r, q, b
        <4>4. \A i \in S : i \in Nat /\ i < N /\ v[i] = w[i] /\ w[i].line[2] \in 1 .. r
          BY ONLY <3>1, <3>3, Zenon
        <4>5. /\ q \in 1 .. q /\ 1 .. r \subseteq 1 .. q
              /\ \A n \in 1 .. r : n < q
              /\ \A n \in b + 1 .. q : n = q \/ n \in b + 1 .. r
          BY ONLY <4>2, <4>3
        <4>6. /\ \A i \in S : ~(N < i)
              /\ ~(N < N)
          <5>1. N \in Nat /\ \A i \in S : i \in Nat /\ i < N
            BY ONLY <3>1, Zenon
          <5> QED
            BY ONLY <5>1
        <4>7. \A i, k \in S \cup {N} : i < k => v[i].line[2] < v[k].line[2]
          <5>1. ASSUME NEW i \in S, NEW k \in S, i < k PROVE v[i].line[2] < v[k].line[2]
            BY ONLY <3>3, <4>4, <5>1, Zenon
          <5>2. ASSUME NEW i \in S PROVE v[i].line[2] < v[N].line[2]
            BY ONLY <4>3, <4>4, <4>5, i \in S, Zenon
          <5> QED
            BY ONLY <4>6, <5>1, <5>2, Zenon
        <4>8. \A i \in S \cup {N} : v[i].line[2] \in 1 .. q
          BY ONLY <4>3, <4>4, <4>5, Zenon
        <4>9. \A n \in b + 1 .. q : \E i \in S \cup {N} : v[i].line[2] = n
          BY ONLY <3>3, <4>3, <4>4, <4>5, Zenon
        <4> QED
          BY ONLY <3>4, <4>3, <4>7, <4>8, <4>9, Zenon
      <3> QED
        BY ONLY <3>5, <3>6, Zenon
    <2> QED
      BY <2>4, <2>5, Zenon
  <1>6. Fresh'
    BY <1>1, <1>2, Zenon DEF Streams, Fresh
  <1> QED
    BY <1>1, <1>2, <1>4, <1>5, <1>6, Zenon DEF Streams

\* Lines are ordered while send_line() is idle: a response to the clients in
\* `who`, and to the subscribers an event if one is published.  A client that
\* subscribes or unsubscribes is owed nothing yet.
LEMMA OrderStreams ==
    ASSUME IpcTypeOK, IpcTypeOK', Streams, Fresh', Quiet, writing' = NoLine, UNCHANGED <<at, doomed, wire>>,
           NEW who, NEW event \in BOOLEAN,
           published' = IF event THEN published + 1 ELSE published,
           \A f \in Connected : handled'[at[f]] = IF f \in who THEN handled[at[f]] + 1 ELSE handled[at[f]],
           sending' = {Response(f) : f \in who} \cup (IF event THEN Broadcast(subs, published') ELSE {}),
           \/ UNCHANGED <<subs, since>>
           \/ ~event /\ \A f \in Connected : From(f, "event")' = From(f, "event") \/ From(f, "event")' = published
    PROVE  Streams'
  <1>0. Connected' = Connected
    BY Zenon DEF Connected
  <1>1. published \in Nat /\ \A f \in Connected : handled[at[f]] \in Nat
    <2>1. published \in 0 .. MaxEvents /\ handled \in [Connections -> Nat]
      BY Zenon DEF IpcTypeOK
    <2>2. \A f \in Connected : at[f] \in Connections
      BY Connecteds, Zenon
    <2>3. MaxEvents \in Nat
      BY ONLY IpcAssumption, Zenon DEF IpcAssumption
    <2> QED
      BY ONLY <2>1, <2>2, <2>3
  <1>2. \A m \in sending' : \/ m.to \in who /\ m.line = <<"response", handled[at[m.to]] + 1>>
                            \/ event /\ m.to \in subs /\ m.line = <<"event", published + 1>>
    <2>1. \A f : Response(f).to = f /\ Response(f).line = <<"response", handled[at[f]] + 1>>
      BY Zenon DEF Response
    <2>2. event => \A m \in Broadcast(subs, published') : m.to \in subs /\ m.line = <<"event", published + 1>>
      BY DEF Broadcast
    <2> QED
      BY <2>1, <2>2
  <1>3. \A f \in Connected : f \in who => Response(f) \in sending' /\ Response(f).to = f /\ Response(f).line[1] = "response"
    BY Zenon DEF Response
  <1>4. \A f \in subs : event => \E m \in sending' : m.to = f /\ m.line[1] = "event"
    <2> SUFFICES ASSUME NEW f \in subs, event PROVE \E m \in sending' : m.to = f /\ m.line[1] = "event"
      BY Zenon
    <2> DEFINE x == [to |-> f, line |-> <<"event", published'>>]
    <2>1. x \in sending'
      BY Zenon DEF Broadcast
    <2>2. x.to = f /\ x.line[1] = "event"
      BY Zenon
    <2> QED
      BY <2>1, <2>2, Zenon
  <1>5. ASSUME NEW f \in Connected
        PROVE  /\ Upcoming(f, "response")' <=> f \in who
               /\ Upcoming(f, "event")' <=> event /\ f \in subs
               /\ ~Upcoming(f, "response") /\ ~Upcoming(f, "event")
    <2>1. /\ \A m \in sending' : m.to = f /\ m.line[1] = "response" => f \in who
          /\ \A m \in sending' : m.to = f /\ m.line[1] = "event" => event /\ f \in subs
      BY <1>2
    <2>2. ~Upcoming(f, "response") /\ ~Upcoming(f, "event")
      BY Zenon DEF Upcoming, Quiet
    <2> QED
      BY <1>3, <1>4, <2>1, <2>2, ZenonT(30) DEF Upcoming
  <1>6. ASSUME NEW f \in Connected PROVE Calls(f)'
    <2>1. /\ (Due(f, "event"))' = IF event THEN published + 1 ELSE published
          /\ (Due(f, "response"))' = IF f \in who THEN handled[at[f]] + 1 ELSE handled[at[f]]
      BY Zenon DEF Due
    <2>2. ASSUME NEW m \in sending', m.to = f PROVE m.line[2] = Due(f, m.line[1])' /\ m.line[2] > 0
      <3>1. CASE m.to \in who /\ m.line = <<"response", handled[at[m.to]] + 1>>
        <4>1. m.line[1] = "response" /\ m.line[2] = handled[at[f]] + 1
          BY <2>2, <3>1
        <4> QED
          BY <1>1, <2>1, <2>2, <3>1, <4>1
      <3>2. CASE event /\ m.to \in subs /\ m.line = <<"event", published + 1>>
        <4>1. m.line[1] = "event" /\ m.line[2] = published + 1
          BY <3>2
        <4> QED
          BY <1>1, <2>1, <3>2, <4>1
      <3> QED
        BY <1>2, <3>1, <3>2, Zenon
    <2> QED
      BY <2>2, Zenon DEF Calls
  <1>7. ASSUME NEW f \in Connected \ doomed PROVE Stream(f, "response")'
    <2>1. Stream(f, "response")
      BY Zenon DEF Streams
    <2>2. Reached(f, "response") = handled[at[f]] /\ Reached(f, "response")' = handled[at[f]]
      <3>1. Reached(f, "response") = handled[at[f]]
        BY <1>5, Zenon DEF Reached, Due
      <3>2. CASE f \in who
        <4>1. Upcoming(f, "response")' /\ handled'[at[f]] = handled[at[f]] + 1
          BY <1>5, <3>2, Zenon
        <4>2. Reached(f, "response")' = handled'[at[f]] - 1
          BY <4>1, Zenon DEF Reached, Due
        <4> QED
          BY <1>1, <3>1, <4>1, <4>2
      <3>3. CASE f \notin who
        <4>1. ~Upcoming(f, "response")' /\ handled'[at[f]] = handled[at[f]]
          BY <1>5, <3>3, Zenon
        <4> QED
          BY <3>1, <4>1, Zenon DEF Reached, Due
      <3> QED
        BY <3>2, <3>3, Zenon
    <2>3. From(f, "response") = 0 /\ From(f, "response")' = 0
      BY Zenon DEF From
    <2> QED
      BY <1>1, <2>1, <2>2, <2>3, StreamKept
  <1>8. ASSUME NEW f \in Connected \ doomed PROVE Stream(f, "event")'
    <2>1. Stream(f, "event")
      BY Zenon DEF Streams
    <2>2. Reached(f, "event") = published
      BY <1>5, Zenon DEF Reached, Due
    <2>3. Reached(f, "event")' = IF event /\ f \in subs THEN published' - 1 ELSE published'
      BY <1>5, Zenon DEF Reached, Due
    <2>4. From(f, "event") \in Int /\ From(f, "event")' \in Int
      <3>1. From(f, "event") \in Int
        BY Counts, Zenon
      <3>2. published' \in Int
        BY <1>1
      <3>3. since' \in [Connections -> Nat \cup {-1}] /\ at'[f] \in Connections
        <4>1. at[f] \in Connections
          BY Connecteds, Zenon
        <4> QED
          BY <4>1, Zenon DEF IpcTypeOK
      <3>4. since'[at'[f]] \in Int
        BY ONLY <3>3
      <3>5. From(f, "event")' \in Int
        BY <3>2, <3>4, Zenon DEF From
      <3> QED
        BY <3>1, <3>5, Zenon
    <2>5. CASE event /\ f \in subs
      <3>1. From(f, "event")' = From(f, "event")
        BY <2>5, Zenon DEF From
      <3>2. Reached(f, "event")' = published
        BY <1>1, <2>3, <2>5
      <3> QED
        BY <1>1, <2>1, <2>2, <2>4, <3>1, <3>2, StreamKept
    <2>6. CASE event /\ f \notin subs
      <3>1. From(f, "event")' = published'
        BY <2>6, Zenon DEF From
      <3>2. Reached(f, "event")' = published' /\ published' = published + 1
        BY <2>3, <2>6, Zenon
      <3> QED
        BY <1>1, <2>1, <2>2, <2>4, <3>1, <3>2, StreamKept
    <2>7. CASE ~event
      <3>1. Reached(f, "event")' = published
        BY <2>3, <2>7, Zenon
      <3>2. From(f, "event")' = From(f, "event") \/ From(f, "event")' = published
        <4>1. CASE UNCHANGED <<subs, since>>
          BY <2>7, <4>1, Zenon DEF From
        <4> QED
          BY <4>1, Zenon
      <3> QED
        BY <1>1, <2>1, <2>2, <2>4, <3>1, <3>2, StreamKept
    <2> QED
      BY <2>5, <2>6, <2>7, Zenon
  <1> QED
    <2>1. \A f \in Connected \ doomed, kind \in {"event", "response"} : Stream(f, kind)'
      BY <1>7, <1>8, Zenon
    <2> QED
      BY <1>0, <1>6, <2>1, Zenon DEF Streams

\* on_line() orders the response, and an event when a command published one.
LEMMA LineStreams ==
    ASSUME IpcTypeOK, IpcTypeOK', Routes, Streams, HandleLine
    PROVE  Streams'
  <1> DEFINE c == at[reading]
  <1>1. /\ UNCHANGED <<peer, at, doomed, wire>> /\ Quiet /\ writing' = NoLine /\ rpc = "lines"
        /\ handled' = [handled EXCEPT ![c] = handled[c] + 1]
    BY Zenon DEF HandleLine, clientVars, Quiet
  <1>2. reading \in Connected /\ c \in Connections
    BY <1>1, Connecteds, Zenon DEF Routes
  <1>3. \A f \in Connected : at[f] \in Connections /\ (at[f] = c => f = reading)
    BY <1>2, Connecteds, Zenon DEF Routes
  <1>4. Connected' = Connected
    BY <1>1, Zenon DEF Connected
  <1>5. \A d \in Connections : peer[d] \in {"new", "queued"} => d # c /\ handled[d] = 0 /\ since[d] = -1
    <2>1. peer[c] \in {"open", "left"}
      BY <1>2, Zenon DEF Routes
    <2> QED
      BY <2>1, Zenon DEF Streams, Fresh
  <1>6. \A f \in Connected : handled'[at[f]] = IF f \in {reading} THEN handled[at[f]] + 1 ELSE handled[at[f]]
    <2>1. handled \in [Connections -> Nat]
      BY Zenon DEF IpcTypeOK
    <2> QED
      BY ONLY <1>1, <1>2, <1>3, <2>1, Zenon
  <1>7. \A d \in Connections : d # c => handled'[d] = handled[d]
    <2>1. handled \in [Connections -> Nat]
      BY Zenon DEF IpcTypeOK
    <2> QED
      BY ONLY <1>1, <2>1, Zenon
  <1>8. since \in [Connections -> Nat \cup {-1}] /\ published \in Nat
    <2>1. MaxEvents \in Nat
      BY IpcAssumption, Zenon DEF IpcAssumption
    <2>2. since \in [Connections -> Nat \cup {-1}] /\ published \in 0 .. MaxEvents
      BY Zenon DEF IpcTypeOK
    <2> QED
      BY ONLY <2>1, <2>2
  <1>9. {Response(f) : f \in {reading}} = {Response(reading)}
    BY Zenon
  <1>10. \A f \in subs : f \in Connected /\ since[at[f]] >= 0
    BY <1>1, Zenon DEF Routes, SubscriptionIsOwn
  <1>11. \A f \in Connected : since[at[f]] # -1 => f \in subs
    BY Zenon DEF Streams, Fresh
  <1>12. CASE /\ subs' = subs \cup {reading}
              /\ since' = [since EXCEPT ![c] = IF since[c] = -1 THEN published ELSE since[c]]
              /\ sending' = {Response(reading)} /\ published' = published
    <2>1. /\ \A d \in Connections : d # c => since'[d] = since[d]
          /\ since'[c] = IF since[c] = -1 THEN published ELSE since[c]
      BY ONLY <1>2, <1>8, <1>12, Zenon
    <2>2. Fresh'
      BY <1>1, <1>3, <1>4, <1>5, <1>7, <1>11, <1>12, <2>1, ZenonT(30) DEF Fresh
    <2>3. ASSUME NEW f \in Connected
          PROVE  From(f, "event")' = From(f, "event") \/ From(f, "event")' = published
      <3>1. CASE f # reading
        <4>1. (f \in subs' <=> f \in subs) /\ since'[at'[f]] = since[at[f]]
          BY <1>1, <1>3, <1>12, <2>1, <3>1, Zenon
        <4> QED
          BY <1>12, <4>1, Zenon DEF From
      <3>2. CASE f = reading
        BY <1>1, <1>11, <1>12, <2>1, <3>2, Zenon DEF From
      <3> QED
        BY <3>1, <3>2, Zenon
    <2>4. /\ sending' = {Response(f) : f \in {reading}} \cup (IF FALSE THEN Broadcast(subs, published') ELSE {})
          /\ published' = IF FALSE THEN published + 1 ELSE published
      BY <1>9, <1>12, Zenon
    <2> QED
      BY <1>1, <1>6, <2>2, <2>3, <2>4, OrderStreams, Zenon
  <1>13. CASE /\ subs' = subs \ {reading}
              /\ since' = [since EXCEPT ![c] = -1]
              /\ sending' = {Response(reading)} /\ published' = published
    <2>1. /\ \A d \in Connections : d # c => since'[d] = since[d]
          /\ since'[c] = -1
      BY ONLY <1>2, <1>8, <1>13, Zenon
    <2>2. Fresh'
      BY <1>1, <1>3, <1>4, <1>5, <1>7, <1>11, <1>13, <2>1, Zenon DEF Fresh
    <2>3. ASSUME NEW f \in Connected
          PROVE  From(f, "event")' = From(f, "event") \/ From(f, "event")' = published
      <3>1. CASE f # reading
        <4>1. (f \in subs' <=> f \in subs) /\ since'[at'[f]] = since[at[f]]
          BY <1>1, <1>3, <1>13, <2>1, <3>1, Zenon
        <4> QED
          BY <1>13, <4>1, Zenon DEF From
      <3>2. CASE f = reading
        BY <1>13, <3>2, Zenon DEF From
      <3> QED
        BY <3>1, <3>2, Zenon
    <2>4. /\ sending' = {Response(f) : f \in {reading}} \cup (IF FALSE THEN Broadcast(subs, published') ELSE {})
          /\ published' = IF FALSE THEN published + 1 ELSE published
      BY <1>9, <1>13, Zenon
    <2> QED
      BY <1>1, <1>6, <2>2, <2>3, <2>4, OrderStreams, Zenon
  <1>14. CASE /\ published' \in {published, published + 1} \cap 0 .. MaxEvents
              /\ sending' = {Response(reading)}
                              \cup (IF published' = published THEN {} ELSE Broadcast(subs, published'))
              /\ UNCHANGED <<subs, since>>
    <2>1. Fresh'
      BY <1>1, <1>4, <1>5, <1>7, <1>11, <1>14, Zenon DEF Fresh
    <2>2. PICK event \in BOOLEAN : event <=> published' # published
      BY Zenon
    <2>3. published' = IF event THEN published + 1 ELSE published
      BY <1>14, <2>2, Zenon
    <2>4. sending' = {Response(f) : f \in {reading}} \cup (IF event THEN Broadcast(subs, published') ELSE {})
      BY <1>9, <1>14, <2>2, Zenon
    <2> QED
      BY <1>1, <1>6, <1>14, <2>1, <2>3, <2>4, OrderStreams, Zenon
  <1> QED
    BY <1>12, <1>13, <1>14, LineCases, Zenon

\* A connection that is accepted has been sent nothing and is owed nothing.
LEMMA AcceptStreams ==
    ASSUME IpcTypeOK, Routes, Streams, NEW c \in Connections, Accept(c)
    PROVE  Streams'
  <1>1. PICK f \in Fds \ Connected : at' = [at EXCEPT ![f] = c]
    BY Zenon DEF Accept
  <1>2. /\ UNCHANGED <<subs, doomed, published, sending, writing, wire, handled, since>>
        /\ rpc = "accept" /\ peer[c] = "queued" /\ peer' = [peer EXCEPT ![c] = "open"]
    BY Zenon DEF Accept, outVars, seenVars
  <1>3. sending = {} /\ writing = NoLine /\ sending' = {} /\ writing' = NoLine
    BY <1>2, Zenon DEF Routes, Quiet
  <1>4. at'[f] = c /\ \A g \in Fds : g # f => at'[g] = at[g]
    <2>1. at \in [Fds -> Connections \cup {NoConn}]
      BY Zenon DEF IpcTypeOK
    <2> QED
      BY ONLY <1>1, <2>1, Zenon
  <1>5. Connected' = Connected \cup {f} /\ f \notin Connected /\ Connected \subseteq Fds
    <2>1. c # NoConn /\ f \notin Connected /\ Connected \subseteq Fds
      BY Connecteds, Zenon
    <2> QED
      BY <1>4, <2>1, Zenon DEF Connected
  <1>6. f \notin subs /\ wire[c] = <<>> /\ handled[c] = 0 /\ since[c] = -1
    <2>1. f \notin subs
      BY <1>2, <1>5, Zenon DEF Routes, SubscriptionIsOwn
    <2>2. wire[c] = <<>> /\ handled[c] = 0 /\ since[c] = -1
      BY <1>2, Zenon DEF Routes, Streams, Fresh
    <2> QED
      BY <2>1, <2>2, Zenon
  <1>7. \A d \in Connections : peer'[d] \in {"new", "queued"} => peer[d] \in {"new", "queued"}
    <2>1. peer'[c] = "open" /\ \A d \in Connections : d # c => peer'[d] = peer[d]
      BY <1>2, Zenon DEF IpcTypeOK
    <2> QED
      BY ONLY <2>1, Zenon
  <1>8. Fresh'
    <2>1. \A g \in Connected' : since'[at'[g]] # -1 => g \in subs'
      BY <1>2, <1>4, <1>5, <1>6, Zenon DEF Streams, Fresh
    <2>2. \A d \in Connections : peer'[d] \in {"new", "queued"} => handled'[d] = 0 /\ since'[d] = -1
      BY <1>2, <1>7, Zenon DEF Streams, Fresh
    <2> QED
      BY <2>1, <2>2, Zenon DEF Fresh
  <1>9. \A g : Calls(g)'
    BY <1>3, Zenon DEF Calls
  <1>10. ASSUME NEW kind \in {"event", "response"} PROVE Stream(f, kind)'
    <2>1. Sent(at[f], kind)' = {}
      BY <1>2, <1>4, <1>6 DEF Sent
    <2>2. ~Upcoming(f, kind)'
      BY <1>3, Zenon DEF Upcoming
    <2>3. Reached(f, kind)' = From(f, kind)'
      BY <1>2, <1>4, <1>6, <2>2, Zenon DEF Reached, Due, From
    <2>4. Reached(f, kind)' \in Int
      <3>1. published \in Int
        BY IpcAssumption DEF IpcTypeOK, IpcAssumption
      <3> QED
        BY <1>2, <1>6, <2>3, <3>1 DEF From
    <2>5. \A n : n \notin From(f, kind)' + 1 .. Reached(f, kind)'
      BY ONLY <2>3, <2>4
    <2> QED
      BY <2>1, <2>5, Zenon DEF Stream, Rising
  <1>11. ASSUME NEW g \in Connected \ doomed, NEW kind \in {"event", "response"} PROVE Stream(g, kind)'
    <2>1. Stream(g, kind) /\ at'[g] = at[g]
      BY <1>4, <1>5, Zenon DEF Streams
    <2>2. Upcoming(g, kind)' <=> Upcoming(g, kind)
      BY <1>2, Zenon DEF Upcoming
    <2>3. Reached(g, kind)' = Reached(g, kind) /\ From(g, kind)' = From(g, kind)
      BY <1>2, <2>1, <2>2, Zenon DEF Reached, Due, From
    <2>4. Reached(g, kind) \in Int /\ From(g, kind) \in Int
      BY Counts, Zenon
    <2> QED
      BY <1>2, <2>1, <2>3, <2>4, StreamKept, Zenon
  <1> QED
    BY <1>2, <1>5, <1>8, <1>9, <1>10, <1>11, Zenon DEF Streams

\* Every step keeps the streams.
LEMMA StreamsNext ==
    ASSUME IpcTypeOK, IpcTypeOK', Routes, Streams, [IpcNext]_ipcVars
    PROVE  Streams'
  <1>1. CASE Client
    <2>1. UNCHANGED <<sending, writing, wire, published, handled, since, at, subs, doomed>>
      BY <1>1, Zenon DEF Client, Connect, ClientReads, ClientLeaves, ClientSends, serverVars, outVars, seenVars
    <2>2. Connected' = Connected
      BY <2>1, Zenon DEF Connected
    <2>3. \A c \in Connections : peer'[c] \in {"new", "queued"} => peer[c] \in {"new", "queued"}
      <3>1. \/ peer' = peer
            \/ \E c \in Connections : peer[c] = "new" /\ peer' = [peer EXCEPT ![c] = "queued"]
            \/ \E c \in Connections : peer[c] = "open" /\ peer' = [peer EXCEPT ![c] = "left"]
        BY <1>1, Zenon DEF Client, Connect, ClientReads, ClientLeaves, ClientSends
      <3> QED
        BY <3>1, Zenon DEF IpcTypeOK
    <2>4. Fresh'
      BY <2>1, <2>2, <2>3, Zenon DEF Streams, Fresh
    <2> QED
      BY <2>1, <2>2, <2>4, StreamsSame, Zenon
  <1>2. CASE \E m \in sending : SendBegins(m)
    BY <1>2, BeginsStreams, Zenon
  <1>3. CASE SendWrites
    BY <1>3, WritesStreams, Zenon
  <1>4. CASE SendGivesUp
    BY <1>4, GivesUpStreams, Zenon
  <1>5. CASE Publish
    <2>1. /\ UNCHANGED <<peer, at, doomed, wire, subs, since, handled>> /\ Quiet /\ writing' = NoLine
          /\ published' = published + 1 /\ sending' = Broadcast(subs, published')
      BY <1>5, Zenon DEF Publish, clientVars, seenVars, Quiet
    <2>2. Connected' = Connected
      BY <2>1, Zenon DEF Connected
    <2>3. Fresh'
      BY <2>1, <2>2, Zenon DEF Streams, Fresh
    <2>4. PICK who, event : event /\ event \in BOOLEAN /\ who = {}
      BY Zenon
    <2>5. /\ published' = IF event THEN published + 1 ELSE published
          /\ sending' = {Response(f) : f \in who} \cup (IF event THEN Broadcast(subs, published') ELSE {})
          /\ \A f \in Connected : handled'[at[f]] = IF f \in who THEN handled[at[f]] + 1 ELSE handled[at[f]]
      BY <2>1, <2>4, Zenon
    <2> QED
      BY <2>1, <2>3, <2>5, OrderStreams, Zenon
  <1>6. CASE Stop
    <2>1. Connected' = {}
      BY <1>6, Zenon DEF Stop, Connected
    <2>2. /\ UNCHANGED <<handled, since>>
          /\ \A c \in Connections : peer'[c] \in {"new", "queued"} => peer[c] = "new"
      BY <1>6, Zenon DEF Stop, seenVars
    <2>3. Fresh'
      BY <2>1, <2>2, Zenon DEF Streams, Fresh
    <2> QED
      BY <2>1, <2>3, Zenon DEF Streams
  <1>7. CASE PollBegins \/ RoundEnds
    <2>1. PICK fds : Disconnect(fds) /\ (PollBegins => fds = doomed \cap Connected)
      BY <1>7, Zenon DEF PollBegins, RoundEnds
    <2>2. UNCHANGED <<sending, writing, wire, published, handled, since>> /\ (doomed' = doomed \/ PollBegins)
      BY <1>7, Zenon DEF PollBegins, RoundEnds, outVars, seenVars
    <2>3. Connected' = Connected \ fds /\ \A f \in Connected' : at'[f] = at[f] /\ (f \in subs' <=> f \in subs)
      BY <2>1, Connecteds, Zenon DEF Disconnect, Connected
    <2>4. \A f \in Connected' \ doomed' : f \notin doomed
      BY <2>1, <2>2, <2>3, Zenon
    <2>5. \A c \in Connections : peer'[c] \in {"new", "queued"} => peer[c] \in {"new", "queued"}
      BY <2>1, Zenon DEF Disconnect
    <2>6. Fresh'
      BY <2>2, <2>3, <2>5, Zenon DEF Streams, Fresh
    <2> QED
      BY <2>2, <2>3, <2>4, <2>6, StreamsSame, Zenon
  <1>8. CASE \E c \in Connections : Accept(c)
    BY <1>8, AcceptStreams, Zenon
  <1>9. CASE HandleLine
    BY <1>9, LineStreams, Zenon
  <1>10. CASE PollReports \/ AcceptEnds \/ (\E f \in Fds : Read(f)) \/ LinesEnd \/ UNCHANGED ipcVars
    <2>1. UNCHANGED <<sending, writing, wire, published, handled, since, at, subs, doomed, peer>>
      BY <1>10, Zenon DEF PollReports, AcceptEnds, Read, LinesEnd, ipcVars, clientVars, serverVars, outVars, seenVars
    <2>2. Connected' = Connected
      BY <2>1, Zenon DEF Connected
    <2>3. Fresh'
      BY <2>1, <2>2, Zenon DEF Streams, Fresh
    <2> QED
      BY <2>1, <2>2, <2>3, StreamsSame, Zenon
  <1> QED
    BY <1>1, <1>2, <1>3, <1>4, <1>5, <1>6, <1>7, <1>8, <1>9, <1>10, Zenon DEF IpcNext, Send, Round

\* What clients have received is inductive, given the types and the routes.
THEOREM StreamsAlways == IpcSpec => []Streams
  <1>1. IpcInit => Streams
    <2> SUFFICES ASSUME IpcInit PROVE Streams
      BY Zenon
    <2>1. Connected = {}
      BY Zenon DEF IpcInit, Connected
    <2> QED
      BY <2>1, Zenon DEF IpcInit, Streams, Fresh
  <1>2. IpcTypeOK /\ IpcTypeOK' /\ Routes /\ Streams /\ [IpcNext]_ipcVars => Streams'
    BY StreamsNext, Zenon
  <1> QED
    BY <1>1, <1>2, IpcInvAlways, PTL DEF IpcSpec

\* In a quiet moment nothing is on its way.
LEMMA QuietReached ==
    ASSUME Quiet, NEW f, NEW kind
    PROVE  Reached(f, kind) = Due(f, kind)
  <1>1. ~Upcoming(f, kind)
    BY Zenon DEF Quiet, Upcoming
  <1> QED
    BY <1>1, Zenon DEF Reached

\* A subscriber that is not given up on was sent every event since it subscribed,
\* once and in order, for any number of clients, any socket buffer and any
\* interleaving of writes, failures, requests and published events.
THEOREM NoEventMissedAlways == IpcSpec => []NoEventMissed
  <1>1. IpcTypeOK /\ Routes /\ Streams => NoEventMissed
    <2> SUFFICES ASSUME IpcTypeOK, Routes, Streams, rpc # "stopped", Quiet, NEW f \in subs \ doomed
                 PROVE  /\ Rising(at[f], "event")
                        /\ since[at[f]] + 1 .. published \subseteq Numbers(at[f], "event")
                        /\ Numbers(at[f], "event") \subseteq 1 .. published
      BY Zenon DEF NoEventMissed
    <2>1. f \in Connected \ doomed
      BY Zenon DEF Routes, SubscriptionIsOwn
    <2>2. Stream(f, "event")
      BY <2>1, Zenon DEF Streams
    <2>3. Reached(f, "event") = published /\ From(f, "event") = since[at[f]]
      BY QuietReached, Zenon DEF Due, From
    <2> QED
      BY <2>2, <2>3, Zenon DEF Stream, Numbers
  <1> QED
    BY <1>1, IpcInvAlways, StreamsAlways, PTL

\* A client that is not given up on has been answered once for every line it had
\* handled, in the order of its lines, whatever was broadcast in between.
THEOREM AnsweredInOrderAlways == IpcSpec => []AnsweredInOrder
  <1>1. IpcTypeOK /\ Routes /\ Streams => AnsweredInOrder
    <2> SUFFICES ASSUME IpcTypeOK, Routes, Streams, Quiet, NEW f \in Connected \ doomed
                 PROVE  /\ Rising(at[f], "response")
                        /\ Numbers(at[f], "response") = 1 .. handled[at[f]]
      BY Zenon DEF AnsweredInOrder
    <2>1. Stream(f, "response")
      BY Zenon DEF Streams
    <2>2. Reached(f, "response") = handled[at[f]] /\ From(f, "response") + 1 = 1
      BY QuietReached DEF Due, From
    <2> QED
      BY <2>1, <2>2, Zenon DEF Stream, Numbers
  <1> QED
    BY <1>1, IpcInvAlways, StreamsAlways, PTL
=============================================================================
