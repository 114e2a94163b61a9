--------------------------- MODULE IpcServerProofs ---------------------------
(***************************************************************************)
(* Proofs about the IPC server, for any number of connections, descriptors *)
(* and events and any socket buffer: a descriptor that is reused inherits  *)
(* no subscription and no pending disconnection, and a client the server   *)
(* has not given up on receives whole lines only.                          *)
(***************************************************************************)
EXTENDS IpcServer, SequenceTheorems, TLAPS

\* A descriptor stands for one live connection, poll_once() works on connected
\* descriptors only, and send_line() is idle wherever connections come and go.
Routes ==
    /\ \A f \in Connected : peer[at[f]] \in {"open", "left"}
    /\ \A f, g \in Connected : at[f] = at[g] => f = g
    /\ \A c \in Connections : peer[c] \in {"new", "queued"} => wire[c] = <<>>
    /\ todo \subseteq Connected /\ gone \subseteq Connected
    /\ rpc \in {"out", "poll", "stopped"} => todo = {} /\ gone = {}
    /\ rpc = "lines" => reading \in Connected
    /\ rpc \notin {"out", "lines"} => Quiet
    /\ writing # NoLine => writing.to \in Connected
    /\ SubscriptionIsOwn

\* send_line() is halfway through a line to f.
Halfway(f) == writing # NoLine /\ writing.to = f /\ writing.left = 1

\* What was written last to f: the first half of the line being sent, or the end
\* of a line.
Ended(f) ==
    LET w == wire[at[f]]
    IN  IF Halfway(f)
          THEN w # <<>> /\ w[Len(w)] = [line |-> writing.line, last |-> FALSE]
          ELSE w # <<>> => w[Len(w)].last

\* LinesWholeUnlessDoomed, with what the next write() needs.
Lines == \A f \in Connected \ doomed : Whole(at[f]) /\ Ended(f)

\* A descriptor, its connection, and the lines sent to it.
LEMMA Connecteds ==
    ASSUME IpcTypeOK
    PROVE  /\ Connected \subseteq Fds
           /\ \A f \in Connected : at[f] \in Connections
           /\ \A f \in Fds \ Connected : at[f] = NoConn
           /\ NoConn \notin Connections
           /\ NoFd \notin Fds
           /\ \A f \in Connected : Response(f) \in [to : Fds, line : Line]
           /\ \A to \in SUBSET Fds, n \in Nat : Broadcast(to, n) \subseteq [to : Fds, line : Line]
  <1>1. /\ Connected \subseteq Fds /\ \A f \in Connected : at[f] \in Connections
        /\ \A f \in Fds \ Connected : at[f] = NoConn
        /\ NoConn \notin Connections
    BY IpcAssumption, Zenon DEF IpcAssumption, IpcTypeOK, Connected
  <1>2. NoFd \notin Fds
    BY DEF NoFd, Fds
  <1>3. \A k \in {"event", "response"}, n \in Nat : <<k, n>> \in Line
    BY Zenon DEF Line
  <1>4. ASSUME NEW f \in Connected PROVE Response(f) \in [to : Fds, line : Line]
    <2>1. handled[at[f]] + 1 \in Nat
      BY <1>1 DEF IpcTypeOK
    <2> QED
      BY <1>1, <1>3, <2>1, Zenon DEF Response
  <1>5. ASSUME NEW to \in SUBSET Fds, NEW n \in Nat PROVE Broadcast(to, n) \subseteq [to : Fds, line : Line]
    <2>1. <<"event", n>> \in Line
      BY <1>3, Zenon
    <2> QED
      BY <2>1 DEF Broadcast
  <1> QED
    BY <1>1, <1>2, <1>4, <1>5, Zenon

\* The steps of the clients keep the types.
LEMMA ClientTypes ==
    ASSUME IpcTypeOK, Client
    PROVE  IpcTypeOK'
  <1> USE DEF IpcTypeOK
  <1>1. PICK c \in Connections : \/ Connect(c) \/ ClientReads(c) \/ ClientLeaves(c)
                                 \/ \E piece \in Pieces : ClientSends(c, piece)
    BY Zenon DEF Client
  <1>2. CASE Connect(c) \/ ClientLeaves(c)
    BY <1>2, Zenon DEF Connect, ClientLeaves, serverVars, outVars, seenVars
  <1>3. CASE ClientReads(c)
    <2>1. Len(wire[c]) \in Nat
      BY LenProperties, Zenon
    <2> QED
      BY <1>3, <2>1, Zenon DEF ClientReads, serverVars, outVars, seenVars
  <1>4. CASE \E piece \in Pieces : ClientSends(c, piece)
    <2>1. PICK piece \in Pieces : ClientSends(c, piece)
      BY <1>4, Zenon
    <2>2. Append(inbound[c], piece) \in Seq(Inbound)
      BY AppendProperties, IpcAssumption, Zenon DEF IpcAssumption
    <2>3. sentPieces[c] + 1 \in 0 .. MaxSent
      <3>1. sentPieces[c] \in 0 .. MaxSent /\ sentPieces[c] < MaxSent /\ MaxSent \in Nat
        BY <2>1, IpcAssumption, Zenon DEF ClientSends, IpcAssumption
      <3> QED
        BY ONLY <3>1
    <2> QED
      BY <2>1, <2>2, <2>3, Zenon DEF ClientSends, serverVars, outVars, seenVars
  <1> QED
    BY <1>1, <1>2, <1>3, <1>4, Zenon

\* One write() to connection c: the pieces it appends, and what is left.
Appended(c, n) ==
    /\ wire'[c] \in Seq(Outbound)
    /\ Len(wire'[c]) = Len(wire[c]) + n
    /\ \A i \in 1 .. Len(wire[c]) : wire'[c][i] = wire[c][i]
    /\ \A i \in 1 .. n : wire'[c][Len(wire[c]) + i] = [line |-> writing.line, last |-> i = writing.left]

\* A write() takes one piece or two of the line, and only the second ends it.
LEMMA WriteTakes ==
    ASSUME IpcTypeOK, Routes, SendWrites
    PROVE  /\ writing.to \in Connected /\ writing.line \in Line
           /\ wire' \in [Connections -> Seq(Outbound)]
           /\ \A d \in Connections : d # at[writing.to] => wire'[d] = wire[d]
           /\ \/ writing.left = 2 /\ writing' = NoLine /\ Appended(at[writing.to], 2)
              \/ /\ writing.left = 2 /\ writing' = [to |-> writing.to, line |-> writing.line, left |-> 1]
                 /\ Appended(at[writing.to], 1)
              \/ writing.left = 1 /\ writing' = NoLine /\ Appended(at[writing.to], 1)
  <1>0. /\ writing # NoLine /\ writing \in [to : Fds, line : Line, left : 1 .. 2] /\ writing.to \in Connected
    BY Zenon DEF SendWrites, IpcTypeOK, Routes
  <1> DEFINE c == at[writing.to]
             free == Free(c)
             pieces == IF writing.left <= free THEN writing.left ELSE free
             piece(i) == [line |-> writing.line, last |-> writing.left - i = 0]
             more == [i \in 1 .. pieces |-> piece(i)]
  <1>1. c \in Connections /\ wire[c] \in Seq(Outbound) /\ wire \in [Connections -> Seq(Outbound)]
    BY <1>0, Connecteds, Zenon DEF IpcTypeOK
  <1>2. free \in Int
    <2>1. Len(wire[c]) \in Nat
      BY <1>1, LenProperties, Zenon
    <2>2. taken[c] \in Nat
      BY <1>1, Zenon DEF IpcTypeOK
    <2>3. Room \in Nat
      BY IpcAssumption, Zenon DEF IpcAssumption
    <2>4. free = Room - (Len(wire[c]) - taken[c])
      BY Zenon DEF Free
    <2> QED
      BY ONLY <2>1, <2>2, <2>3, <2>4
  <1>3. /\ pieces > 0
        /\ wire' = [wire EXCEPT ![c] = @ \o more]
        /\ writing' = IF writing.left = pieces THEN NoLine ELSE [writing EXCEPT !.left = @ - pieces]
    BY Zenon DEF SendWrites, AfterWrite
  <1> HIDE DEF free
  <1>4. writing.left \in {1, 2} /\ writing.line \in Line
    BY <1>0
  <1>5. pieces \in {1, 2}
    BY <1>2, <1>3, <1>4
  <1>6. pieces = writing.left \/ (writing.left = 2 /\ pieces = 1)
    BY <1>2, <1>3, <1>4
  <1> HIDE DEF pieces
  <1>7. \A i \in 1 .. pieces : piece(i) \in Outbound /\ piece(i) = [line |-> writing.line, last |-> i = writing.left]
    <2> SUFFICES ASSUME NEW i \in 1 .. pieces
                 PROVE  piece(i) \in Outbound /\ piece(i) = [line |-> writing.line, last |-> i = writing.left]
      BY Zenon
    <2>1. (writing.left - i = 0) = (i = writing.left)
      BY <1>4, <1>5
    <2> QED
      BY <1>4, <2>1, Zenon DEF Outbound
  <1> HIDE DEF piece
  <1>8. more \in Seq(Outbound) /\ Len(more) = pieces /\ \A i \in 1 .. pieces : more[i] = piece(i)
    BY <1>5, <1>7
  <1> HIDE DEF more
  <1>9. wire'[c] = wire[c] \o more /\ \A d \in Connections : d # c => wire'[d] = wire[d]
    BY <1>1, <1>3, Zenon
  <1>10. /\ wire[c] \o more \in Seq(Outbound) /\ Len(wire[c] \o more) = Len(wire[c]) + pieces
         /\ \A i \in 1 .. Len(wire[c]) + pieces :
                (wire[c] \o more)[i] = IF i <= Len(wire[c]) THEN wire[c][i] ELSE more[i - Len(wire[c])]
    BY <1>1, <1>8, ConcatProperties, ZenonT(30)
  <1>11. Appended(c, pieces)
    <2>1. Len(wire[c]) \in Nat
      BY <1>1, LenProperties, Zenon
    <2>2. \A i \in 1 .. pieces : wire'[c][Len(wire[c]) + i] = more[i]
      <3> SUFFICES ASSUME NEW i \in 1 .. pieces PROVE wire'[c][Len(wire[c]) + i] = more[i]
        BY Zenon
      <3> DEFINE k == Len(wire[c]) + i
      <3>1. k \in 1 .. Len(wire[c]) + pieces /\ ~(k <= Len(wire[c])) /\ k - Len(wire[c]) = i
        BY <1>5, <2>1
      <3> HIDE DEF k
      <3>2. wire'[c][k] = more[i]
        BY <1>9, <1>10, <3>1, Zenon
      <3> QED
        BY <3>2, Zenon DEF k
    <2>3. \A i \in 1 .. Len(wire[c]) : wire'[c][i] = wire[c][i]
      BY <1>5, <1>9, <1>10, <2>1
    <2>4. wire'[c] \in Seq(Outbound) /\ Len(wire'[c]) = Len(wire[c]) + pieces
      BY <1>9, <1>10, Zenon
    <2>5. \A i \in 1 .. pieces : wire'[c][Len(wire[c]) + i] = [line |-> writing.line, last |-> i = writing.left]
      <3> SUFFICES ASSUME NEW i \in 1 .. pieces
                   PROVE  wire'[c][Len(wire[c]) + i] = [line |-> writing.line, last |-> i = writing.left]
        BY Zenon
      <3>1. wire'[c][Len(wire[c]) + i] = more[i]
        BY <2>2, Zenon
      <3>2. more[i] = piece(i)
        BY <1>8, Zenon
      <3>3. piece(i) = [line |-> writing.line, last |-> i = writing.left]
        BY <1>7, Zenon
      <3> QED
        BY ONLY <3>1, <3>2, <3>3, Zenon
    <2> QED
      BY ONLY <2>3, <2>4, <2>5, Zenon DEF Appended
  <1>12. wire' \in [Connections -> Seq(Outbound)]
    BY <1>1, <1>3, <1>10, Zenon
  <1>13. writing.left = 2 /\ pieces = 1 => writing' = [to |-> writing.to, line |-> writing.line, left |-> 1]
    BY <1>0, <1>3
  <1> QED
    BY <1>0, <1>3, <1>4, <1>6, <1>9, <1>11, <1>12, <1>13, Zenon

\* The steps of send_line() keep the types.
LEMMA SendTypes ==
    ASSUME IpcTypeOK, Routes, Send
    PROVE  IpcTypeOK'
  <1>1. CASE \E m \in sending : SendBegins(m)
    <2>1. PICK m \in sending : SendBegins(m)
      BY <1>1, Zenon
    <2>2. m \in [to : Fds, line : Line]
      BY Zenon DEF IpcTypeOK
    <2>3. writing' = NoLine \/ writing' \in [to : Fds, line : Line, left : 1 .. 2]
      BY <2>1, <2>2 DEF SendBegins
    <2>4. sending' \subseteq sending /\ UNCHANGED <<clientVars, serverVars, wire, seenVars>>
      BY <2>1, Zenon DEF SendBegins
    <2> QED
      BY <2>3, <2>4, Zenon DEF IpcTypeOK, clientVars, serverVars, seenVars
  <1>2. CASE SendWrites
    <2>1. /\ writing' = NoLine \/ writing' \in [to : Fds, line : Line, left : 1 .. 2]
          /\ wire' \in [Connections -> Seq(Outbound)]
      BY <1>2, WriteTakes, Connecteds
    <2>2. UNCHANGED <<clientVars, serverVars, sending, seenVars>>
      BY <1>2, Zenon DEF SendWrites
    <2> QED
      BY <2>1, <2>2, Zenon DEF IpcTypeOK, clientVars, serverVars, seenVars
  <1>3. CASE SendGivesUp
    <2>1. writing.to \in Fds
      BY <1>3, Zenon DEF IpcTypeOK, SendGivesUp
    <2> QED
      BY <1>3, <2>1, Zenon DEF IpcTypeOK, SendGivesUp, clientVars, seenVars
  <1> QED
    BY <1>1, <1>2, <1>3, Zenon DEF Send

\* What is left of a sequence of pieces after its first ones are a sequence of pieces.
LEMMA Parts ==
    ASSUME NEW s \in Seq(Inbound), NEW n \in 0 .. Len(s)
    PROVE  SubSeq(s, 1, n) \in Seq(Inbound) /\ SubSeq(s, n + 1, Len(s)) \in Seq(Inbound)
  <1>1. Len(s) \in Nat /\ \A i \in 1 .. Len(s) : s[i] \in Inbound
    BY LenProperties, Zenon
  <1>2. /\ \A i \in 1 .. n : s[i] \in Inbound
        /\ \A i \in n + 1 .. Len(s) : s[i] \in Inbound
        /\ n \in Int /\ n + 1 \in Int /\ Len(s) \in Int /\ 1 \in Int
    BY <1>1
  <1> QED
    BY <1>2, SubSeqProperties, Zenon

\* Closing connections keeps the types.
LEMMA DisconnectTypes ==
    ASSUME IpcTypeOK, NEW fds, Disconnect(fds)
    PROVE  /\ at' \in [Fds -> Connections \cup {NoConn}]
           /\ buffer' \in [Fds -> Seq(Inbound)]
           /\ peer' \in [Connections -> {"new", "queued", "open", "left", "dropped"}]
           /\ subs' \subseteq Fds
  <1>1. <<>> \in Seq(Inbound)
    OBVIOUS
  <1> QED
    BY <1>1, Zenon DEF IpcTypeOK, Disconnect

\* What the three kinds of request do.
LEMMA LineCases ==
    ASSUME HandleLine
    PROVE  \/ /\ subs' = subs \cup {reading}
              /\ since' = [since EXCEPT ![at[reading]] =
                              IF since[at[reading]] = -1 THEN published ELSE since[at[reading]]]
              /\ sending' = {Response(reading)}
              /\ published' = published
           \/ /\ subs' = subs \ {reading}
              /\ since' = [since EXCEPT ![at[reading]] = -1]
              /\ sending' = {Response(reading)}
              /\ published' = published
           \/ /\ published' \in {published, published + 1} \cap 0 .. MaxEvents
              /\ sending' = {Response(reading)}
                              \cup (IF published' = published THEN {} ELSE Broadcast(subs, published'))
              /\ UNCHANGED <<subs, since>>
  <1>1. PICK i \in Ends(buffer[reading]) :
           CASE buffer[reading][i] = "subscribe" ->
                  /\ subs' = subs \cup {reading}
                  /\ since' = [since EXCEPT ![at[reading]] =
                                  IF since[at[reading]] = -1 THEN published ELSE since[at[reading]]]
                  /\ sending' = {Response(reading)}
                  /\ UNCHANGED published
             [] buffer[reading][i] = "unsubscribe" ->
                  /\ subs' = subs \ {reading}
                  /\ since' = [since EXCEPT ![at[reading]] = -1]
                  /\ sending' = {Response(reading)}
                  /\ UNCHANGED published
             [] OTHER ->
                  /\ published' \in {published, published + 1} \cap 0 .. MaxEvents
                  /\ sending' = {Response(reading)}
                                  \cup (IF published' = published THEN {} ELSE Broadcast(subs, published'))
                  /\ UNCHANGED <<subs, since>>
    BY Zenon DEF HandleLine
  <1>2. CASE buffer[reading][i] = "subscribe"
    BY <1>1, <1>2, Zenon
  <1>3. CASE buffer[reading][i] = "unsubscribe"
    BY <1>1, <1>3, Zenon
  <1>4. CASE buffer[reading][i] # "subscribe" /\ buffer[reading][i] # "unsubscribe"
    BY <1>1, <1>4, Zenon
  <1> QED
    BY <1>2, <1>3, <1>4, Zenon

\* The steps of a round of poll_once() keep the types.
LEMMA RoundTypes ==
    ASSUME IpcTypeOK, Routes, Round
    PROVE  IpcTypeOK'
  <1>1. CASE PollBegins
    BY <1>1, DisconnectTypes, Zenon DEF PollBegins, IpcTypeOK, outVars, seenVars
  <1>2. CASE PollReports
    BY <1>2, Connecteds, Zenon DEF PollReports, IpcTypeOK, Readable, clientVars, outVars, seenVars
  <1>3. CASE \E c \in Connections : Accept(c)
    <2>1. PICK c \in Connections, f \in Fds : Accept(c) /\ at' = [at EXCEPT ![f] = c]
      BY <1>3, Zenon DEF Accept
    <2> QED
      BY <2>1, Zenon DEF Accept, IpcTypeOK, outVars, seenVars
  <1>4. CASE AcceptEnds
    BY <1>4, Zenon DEF AcceptEnds, IpcTypeOK, clientVars, outVars, seenVars
  <1>5. CASE \E f \in Fds : Read(f)
    <2>1. PICK f \in Fds : Read(f)
      BY <1>5, Zenon
    <2> DEFINE c == at[f]
               n == IF Len(inbound[c]) < Chunk THEN Len(inbound[c]) ELSE Chunk
    <2>2. c \in Connections /\ inbound[c] \in Seq(Inbound) /\ buffer[f] \in Seq(Inbound)
      BY <2>1, Connecteds, Zenon DEF Read, Routes, IpcTypeOK
    <2>3. n \in 0 .. Len(inbound[c])
      BY <2>2, LenProperties, IpcAssumption DEF IpcAssumption
    <2>4. /\ SubSeq(inbound[c], 1, n) \in Seq(Inbound)
          /\ SubSeq(inbound[c], n + 1, Len(inbound[c])) \in Seq(Inbound)
      BY <2>2, <2>3, Parts, Zenon
    <2>5. buffer[f] \o SubSeq(inbound[c], 1, n) \in Seq(Inbound)
      BY <2>2, <2>4, ConcatProperties, Zenon
    <2>6. /\ \/ UNCHANGED <<inbound, buffer, rpc, reading>> /\ gone' = gone \cup {f}
             \/ /\ buffer' = [buffer EXCEPT ![f] = buffer[f] \o SubSeq(inbound[c], 1, n)]
                /\ inbound' = [inbound EXCEPT ![c] = SubSeq(inbound[c], n + 1, Len(inbound[c]))]
                /\ rpc' = "lines" /\ reading' = f /\ gone' = gone
          /\ todo' \subseteq todo
          /\ UNCHANGED <<peer, sentPieces, taken, at, subs, doomed, published, outVars, seenVars>>
      BY <2>1, Zenon DEF Read
    <2> DEFINE more == buffer[f] \o SubSeq(inbound[c], 1, n)
               rest == SubSeq(inbound[c], n + 1, Len(inbound[c]))
    <2>a. /\ more \in Seq(Inbound) /\ rest \in Seq(Inbound) /\ c \in Connections
          /\ \/ UNCHANGED <<inbound, buffer>>
             \/ buffer' = [buffer EXCEPT ![f] = more] /\ inbound' = [inbound EXCEPT ![c] = rest]
      BY <2>2, <2>4, <2>5, <2>6, Zenon
    <2> HIDE DEF n, c, more, rest
    <2>7. /\ inbound' \in [Connections -> Seq(Inbound)] /\ buffer' \in [Fds -> Seq(Inbound)]
      <3> DEFINE S == Seq(Inbound)
      <3>1. inbound \in [Connections -> S] /\ buffer \in [Fds -> S] /\ more \in S /\ rest \in S
        BY <2>a, Zenon DEF IpcTypeOK
      <3> HIDE DEF S
      <3>2. inbound' \in [Connections -> S] /\ buffer' \in [Fds -> S]
        BY ONLY <2>a, <3>1, f \in Fds, Zenon
      <3> QED
        BY <3>2, Zenon DEF S
    <2> QED
      BY <2>6, <2>7, Zenon DEF IpcTypeOK, outVars, seenVars
  <1>6. CASE HandleLine
    <2>0. reading \in Connected /\ reading \in Fds /\ at[reading] \in Connections /\ buffer[reading] \in Seq(Inbound)
      BY <1>6, Connecteds, Zenon DEF HandleLine, Routes, IpcTypeOK
    <2>1. PICK i \in Ends(buffer[reading]) :
             buffer' = [buffer EXCEPT ![reading] = SubSeq(buffer[reading], i + 1, Len(buffer[reading]))]
      BY <1>6, Zenon DEF HandleLine
    <2>2. i \in 0 .. Len(buffer[reading])
      BY <2>0, LenProperties DEF Ends
    <2>3. buffer' \in [Fds -> Seq(Inbound)]
      <3>1. SubSeq(buffer[reading], i + 1, Len(buffer[reading])) \in Seq(Inbound)
        BY <2>0, <2>2, Parts, Zenon
      <3> QED
        BY <2>0, <2>1, <3>1, Zenon DEF IpcTypeOK
    <2>4. /\ subs' \in {subs, subs \cup {reading}, subs \ {reading}}
          /\ \E n \in {-1, published, since[at[reading]]} : since' = [since EXCEPT ![at[reading]] = n]
          /\ published' \in 0 .. MaxEvents
          /\ sending' \subseteq {Response(reading)} \cup Broadcast(subs, published')
      <3>1. \/ /\ subs' = subs \cup {reading}
               /\ since' = [since EXCEPT ![at[reading]] =
                              IF since[at[reading]] = -1 THEN published ELSE since[at[reading]]]
               /\ sending' = {Response(reading)}
               /\ published' = published
            \/ /\ subs' = subs \ {reading}
               /\ since' = [since EXCEPT ![at[reading]] = -1]
               /\ sending' = {Response(reading)}
               /\ published' = published
            \/ /\ published' \in {published, published + 1} \cap 0 .. MaxEvents
               /\ sending' = {Response(reading)}
                               \cup (IF published' = published THEN {} ELSE Broadcast(subs, published'))
               /\ UNCHANGED <<subs, since>>
        BY <1>6, LineCases, Zenon
      <3>2. since = [since EXCEPT ![at[reading]] = since[at[reading]]]
        BY <2>0, Zenon DEF IpcTypeOK
      <3> QED
        BY <3>1, <3>2, Zenon DEF IpcTypeOK
    <2>5. since' \in [Connections -> Nat \cup {-1}]
      BY <2>0, <2>4 DEF IpcTypeOK
    <2>6. sending' \subseteq [to : Fds, line : Line]
      <3>1. Response(reading) \in [to : Fds, line : Line]
        BY <2>0, Connecteds, Zenon
      <3>2. Broadcast(subs, published') \subseteq [to : Fds, line : Line]
        <4>1. published' \in Nat /\ subs \in SUBSET Fds
          BY <2>4, IpcAssumption DEF IpcAssumption, IpcTypeOK
        <4> QED
          BY <4>1, Connecteds, Zenon
      <3> QED
        BY <2>4, <3>1, <3>2, Zenon
    <2>7. handled' \in [Connections -> Nat]
      BY <1>6, <2>0, SMTT(20) DEF HandleLine, IpcTypeOK
    <2>8. UNCHANGED <<clientVars, at, doomed, rpc, todo, reading, gone, writing, wire>>
      BY <1>6, Zenon DEF HandleLine
    <2> QED
      BY <2>0, <2>3, <2>4, <2>5, <2>6, <2>7, <2>8, Zenon DEF IpcTypeOK, clientVars
  <1>7. CASE LinesEnd
    <2>1. reading \in Fds
      BY <1>7, Connecteds, Zenon DEF LinesEnd, Routes
    <2> QED
      BY <1>7, <2>1, Zenon DEF LinesEnd, IpcTypeOK, clientVars, outVars, seenVars
  <1>8. CASE RoundEnds
    BY <1>8, DisconnectTypes, Zenon DEF RoundEnds, IpcTypeOK, outVars, seenVars
  <1> QED
    BY <1>1, <1>2, <1>3, <1>4, <1>5, <1>6, <1>7, <1>8, Zenon DEF Round

\* Every step keeps the types.
LEMMA TypesNext ==
    ASSUME IpcTypeOK, Routes, [IpcNext]_ipcVars
    PROVE  IpcTypeOK'
  <1>1. CASE Publish
    <2>1. published' \in 0 .. MaxEvents /\ published + 1 \in Nat
      BY <1>1, IpcAssumption DEF Publish, IpcTypeOK, IpcAssumption
    <2>2. sending' \subseteq [to : Fds, line : Line]
      BY <1>1, <2>1, Connecteds, Zenon DEF Publish, IpcTypeOK
    <2> QED
      BY <1>1, <2>1, <2>2, Zenon DEF Publish, IpcTypeOK, clientVars, seenVars
  <1>2. CASE Stop
    <2>1. <<>> \in Seq(Inbound)
      OBVIOUS
    <2> QED
      BY <1>2, <2>1, Zenon DEF Stop, IpcTypeOK, outVars, seenVars
  <1>3. CASE UNCHANGED ipcVars
    BY <1>3, Zenon DEF ipcVars, IpcTypeOK, clientVars, serverVars, outVars, seenVars
  <1> QED
    BY <1>1, <1>2, <1>3, ClientTypes, SendTypes, RoundTypes, Zenon DEF IpcNext

\* Closing the connections of fds while send_line() is idle keeps the routes of
\* the others, and takes the subscriptions of the closed ones along.
LEMMA DisconnectRoutes ==
    ASSUME IpcTypeOK, Routes, NEW fds \in SUBSET Connected, Disconnect(fds), Quiet, Quiet',
           todo' = {}, gone' = {}, rpc # "stopped", rpc' \in {"out", "poll"}, UNCHANGED <<wire, since>>
    PROVE  Routes'
  <1>1. Connected' = Connected \ fds /\ \A f \in Connected' : at'[f] = at[f]
    BY Connecteds, Zenon DEF Disconnect, Connected
  <1>2. \A f \in Connected' : peer'[at'[f]] = peer[at[f]]
    <2> SUFFICES ASSUME NEW f \in Connected' PROVE peer'[at'[f]] = peer[at[f]]
      BY Zenon
    <2>1. at[f] \in Connections /\ at'[f] = at[f] /\ f \in Connected /\ f \notin fds
      BY <1>1, Connecteds, Zenon
    <2>2. ~\E g \in fds : at[g] = at[f]
      BY <2>1, Zenon DEF Routes
    <2> QED
      BY <2>1, <2>2, Zenon DEF Disconnect
  <1>3. \A c \in Connections : peer'[c] \in {"new", "queued"} => peer[c] \in {"new", "queued"}
    BY Zenon DEF Disconnect
  <1>4. SubscriptionIsOwn'
    BY <1>1, Zenon DEF SubscriptionIsOwn, Routes, Disconnect
  <1> QED
    BY <1>1, <1>2, <1>3, <1>4 DEF Routes, Quiet

\* The clients come and go without disturbing the routes.
LEMMA ClientRoutes ==
    ASSUME IpcTypeOK, Routes, Client
    PROVE  Routes'
  <1>1. UNCHANGED <<serverVars, outVars, seenVars>>
    BY Zenon DEF Client, Connect, ClientReads, ClientLeaves, ClientSends
  <1>2. UNCHANGED <<at, wire, todo, gone, rpc, reading, sending, writing, subs, since, Connected>>
    BY <1>1, Zenon DEF serverVars, outVars, seenVars, Connected
  <1>3. \/ peer' = peer
        \/ \E c \in Connections : peer[c] = "new" /\ peer' = [peer EXCEPT ![c] = "queued"]
        \/ \E c \in Connections : peer[c] = "open" /\ peer' = [peer EXCEPT ![c] = "left"]
    BY Zenon DEF Client, Connect, ClientReads, ClientLeaves, ClientSends
  <1>4. \A c \in Connections : /\ peer[c] \in {"open", "left"} => peer'[c] \in {"open", "left"}
                               /\ peer'[c] \in {"new", "queued"} => peer[c] \in {"new", "queued"}
    BY <1>3, Zenon DEF IpcTypeOK
  <1>5. SubscriptionIsOwn' /\ Quiet' = Quiet
    BY <1>2, Zenon DEF SubscriptionIsOwn, Routes, Quiet
  <1> QED
    BY <1>2, <1>4, <1>5, Connecteds DEF Routes

\* send_line() writes to connected clients only.
LEMMA SendRoutes ==
    ASSUME IpcTypeOK, Routes, Send
    PROVE  Routes'
  <1>1. UNCHANGED <<peer, at, todo, gone, rpc, reading, subs, since, Connected>>
    BY Zenon DEF Send, SendBegins, SendWrites, SendGivesUp, clientVars, serverVars, seenVars, Connected
  <1>2. ~Quiet
    BY Zenon DEF Send, SendBegins, SendWrites, SendGivesUp, Quiet
  <1>3. writing' # NoLine => writing'.to \in Connected
    <2>1. CASE \E m \in sending : SendBegins(m)
      BY <2>1 DEF SendBegins
    <2>2. CASE SendWrites
      BY <2>2, WriteTakes
    <2>3. CASE SendGivesUp
      BY <2>3, Zenon DEF SendGivesUp
    <2> QED
      BY <2>1, <2>2, <2>3, Zenon DEF Send
  <1>4. \A c \in Connections : peer[c] \in {"new", "queued"} => wire'[c] = wire[c]
    <2>1. CASE SendWrites
      <3>1. writing.to \in Connected /\ \A d \in Connections : d # at[writing.to] => wire'[d] = wire[d]
        BY <2>1, WriteTakes, Zenon
      <3>2. peer[at[writing.to]] \in {"open", "left"}
        BY <3>1, Zenon DEF Routes
      <3> QED
        BY <3>1, <3>2, Zenon
    <2>2. CASE ~SendWrites
      BY <2>2, Zenon DEF Send, SendBegins, SendGivesUp
    <2> QED
      BY <2>1, <2>2, Zenon
  <1>5. SubscriptionIsOwn'
    BY <1>1, Zenon DEF SubscriptionIsOwn, Routes
  <1> QED
    BY <1>1, <1>2, <1>3, <1>4, <1>5, Zenon DEF Routes

\* A round of poll_once() keeps the routes.
LEMMA RoundRoutes ==
    ASSUME IpcTypeOK, Routes, Round
    PROVE  Routes'
  <1>1. CASE PollBegins
    <2>1. Disconnect(doomed \cap Connected) /\ Quiet /\ Quiet' /\ rpc = "out" /\ rpc' = "poll"
          /\ todo' = {} /\ gone' = {} /\ UNCHANGED <<wire, since>>
      BY <1>1, Zenon DEF PollBegins, Quiet, Routes, outVars, seenVars
    <2> QED
      BY <2>1, DisconnectRoutes, Zenon
  <1>2. CASE PollReports
    <2>1. /\ UNCHANGED <<peer, at, wire, gone, reading, sending, writing, subs, since, Connected>>
          /\ todo' \subseteq Connected /\ rpc = "poll" /\ rpc' \in {"accept", "read"}
      BY <1>2, Zenon DEF PollReports, Readable, Connected, clientVars, outVars, seenVars
    <2>2. SubscriptionIsOwn' /\ Quiet' = Quiet
      BY <2>1, Zenon DEF SubscriptionIsOwn, Routes, Quiet
    <2> QED
      BY <2>1, <2>2, Zenon DEF Routes
  <1>3. CASE \E c \in Connections : Accept(c)
    <2>1. PICK c \in Connections, f \in Fds \ Connected : Accept(c) /\ at' = [at EXCEPT ![f] = c]
      BY <1>3, Zenon DEF Accept
    <2>2. /\ UNCHANGED <<wire, todo, gone, rpc, reading, sending, writing, subs, since>>
          /\ rpc = "accept" /\ peer[c] = "queued" /\ peer' = [peer EXCEPT ![c] = "open"]
      BY <2>1, Zenon DEF Accept, outVars, seenVars
    <2>3. Connected' = Connected \cup {f} /\ at'[f] = c /\ \A g \in Connected : at'[g] = at[g]
      <3>1. /\ at'[f] = c /\ \A g \in Fds : g # f => at'[g] = at[g]
            /\ c # NoConn /\ f \notin Connected /\ Connected \subseteq Fds
        BY <2>1, Connecteds, Zenon DEF IpcTypeOK
      <3> QED
        BY <3>1, Zenon DEF Connected
    <2>4. \A g \in Connected : at[g] # c
      BY <2>2, Zenon DEF Routes
    <2>5. /\ peer'[c] = "open" /\ \A d \in Connections : d # c => peer'[d] = peer[d]
      BY <2>2, Zenon DEF IpcTypeOK
    <2>6. SubscriptionIsOwn'
      BY <2>2, <2>3, Zenon DEF SubscriptionIsOwn, Routes
    <2>7. Quiet'
      BY <2>2, Zenon DEF Routes, Quiet
    <2>8. \A g \in Connected' : peer'[at'[g]] \in {"open", "left"}
      BY <2>3, <2>4, <2>5, Connecteds, Zenon DEF Routes
    <2>9. \A g, h \in Connected' : at'[g] = at'[h] => g = h
      BY <2>3, <2>4 DEF Routes
    <2> QED
      BY <2>2, <2>3, <2>5, <2>6, <2>7, <2>8, <2>9, Zenon DEF Routes, Quiet
  <1>4. CASE AcceptEnds
    <2>1. /\ UNCHANGED <<peer, at, wire, todo, gone, reading, sending, writing, subs, since, Connected>>
          /\ rpc = "accept" /\ rpc' = "read"
      BY <1>4, Zenon DEF AcceptEnds, Connected, clientVars, outVars, seenVars
    <2>2. SubscriptionIsOwn' /\ Quiet' = Quiet
      BY <2>1, Zenon DEF SubscriptionIsOwn, Routes, Quiet
    <2> QED
      BY <2>1, <2>2, Zenon DEF Routes
  <1>5. CASE \E f \in Fds : Read(f)
    <2>1. PICK f \in Fds : Read(f)
      BY <1>5, Zenon
    <2>2. /\ UNCHANGED <<peer, at, wire, sending, writing, subs, since, Connected>>
          /\ todo' \subseteq todo /\ f \in Connected /\ gone' \subseteq gone \cup {f}
          /\ rpc = "read" /\ \/ rpc' = "read" /\ reading' = reading
                             \/ rpc' = "lines" /\ reading' = f
      BY <2>1, Zenon DEF Read, Routes, Connected, outVars, seenVars
    <2>3. SubscriptionIsOwn' /\ Quiet' = Quiet
      BY <2>2, Zenon DEF SubscriptionIsOwn, Routes, Quiet
    <2> QED
      BY <2>2, <2>3, Zenon DEF Routes
  <1>6. CASE HandleLine
    <2>1. /\ UNCHANGED <<peer, at, wire, todo, gone, rpc, reading, writing, Connected>>
          /\ rpc = "lines" /\ reading \in Connected /\ at[reading] \in Connections
      BY <1>6, Connecteds, Zenon DEF HandleLine, Routes, Connected, clientVars
    <2>2. published \in Nat /\ since \in [Connections -> Nat \cup {-1}]
      BY IpcAssumption DEF IpcAssumption, IpcTypeOK
    <2>3. ASSUME NEW f \in subs' PROVE f \in Connected /\ since'[at[f]] >= 0
      <3>1. f \in subs => f \in Connected /\ since[at[f]] >= 0 /\ at[f] \in Connections
        BY <2>1, Connecteds, Zenon DEF Routes, SubscriptionIsOwn
      <3>2. CASE /\ subs' = subs \cup {reading}
                 /\ since' = [since EXCEPT ![at[reading]] =
                                 IF since[at[reading]] = -1 THEN published ELSE since[at[reading]]]
        BY <2>1, <2>2, <2>3, <3>1, <3>2
      <3>3. CASE subs' = subs \ {reading} /\ since' = [since EXCEPT ![at[reading]] = -1]
        <4>1. f # reading /\ f \in subs
          BY <2>3, <3>3, Zenon
        <4>2. at[f] # at[reading]
          BY <2>1, <3>1, <4>1, Zenon DEF Routes
        <4> QED
          BY <2>1, <2>2, <3>1, <3>3, <4>1, <4>2, Zenon
      <3>4. CASE UNCHANGED <<subs, since>>
        BY <2>3, <3>1, <3>4, Zenon
      <3> QED
        BY <1>6, <3>2, <3>3, <3>4, LineCases, Zenon
    <2>4. SubscriptionIsOwn'
      BY <2>1, <2>3, Zenon DEF SubscriptionIsOwn
    <2> QED
      BY <2>1, <2>4, Zenon DEF Routes
  <1>7. CASE LinesEnd
    <2>1. /\ UNCHANGED <<peer, at, wire, todo, sending, writing, subs, since, Connected>>
          /\ Quiet /\ rpc = "lines" /\ rpc' = "read" /\ gone' \subseteq gone \cup {reading}
      BY <1>7, Zenon DEF LinesEnd, Connected, clientVars, outVars, seenVars
    <2>2. SubscriptionIsOwn' /\ Quiet' = Quiet
      BY <2>1, Zenon DEF SubscriptionIsOwn, Routes, Quiet
    <2> QED
      BY <2>1, <2>2, Zenon DEF Routes
  <1>8. CASE RoundEnds
    <2>1. Disconnect(gone) /\ gone \in SUBSET Connected /\ Quiet /\ Quiet' /\ rpc = "read" /\ rpc' = "out"
          /\ todo' = {} /\ gone' = {} /\ UNCHANGED <<wire, since>>
      BY <1>8, Zenon DEF RoundEnds, Quiet, Routes, outVars, seenVars
    <2> QED
      BY <2>1, DisconnectRoutes, Zenon
  <1> QED
    BY <1>1, <1>2, <1>3, <1>4, <1>5, <1>6, <1>7, <1>8, Zenon DEF Round

\* Every step keeps the routes.
LEMMA RoutesNext ==
    ASSUME IpcTypeOK, Routes, [IpcNext]_ipcVars
    PROVE  Routes'
  <1>1. CASE Publish
    <2>1. /\ UNCHANGED <<peer, at, wire, todo, gone, rpc, reading, writing, subs, since, Connected>>
          /\ rpc = "out"
      BY <1>1, Zenon DEF Publish, Connected, clientVars, seenVars
    <2>2. SubscriptionIsOwn'
      BY <2>1, Zenon DEF SubscriptionIsOwn, Routes
    <2> QED
      BY <2>1, <2>2, Zenon DEF Routes
  <1>2. CASE Stop
    <2>1. /\ UNCHANGED <<wire, todo, gone, sending, writing, subs, since>>
          /\ rpc = "out" /\ rpc' = "stopped" /\ Quiet /\ Connected' = {}
      BY <1>2, Zenon DEF Stop, Connected, outVars, seenVars
    <2>2. \A c \in Connections : peer'[c] \in {"new", "queued"} => peer[c] = "new"
      BY <1>2, Zenon DEF Stop
    <2> QED
      BY <2>1, <2>2, Zenon DEF Routes, Quiet, SubscriptionIsOwn
  <1>3. CASE UNCHANGED ipcVars
    <2>1. UNCHANGED <<peer, at, wire, todo, gone, rpc, reading, sending, writing, subs, since, Connected>>
      BY <1>3, Zenon DEF ipcVars, clientVars, serverVars, outVars, seenVars, Connected
    <2>2. SubscriptionIsOwn' /\ Quiet' = Quiet
      BY <2>1, Zenon DEF SubscriptionIsOwn, Routes, Quiet
    <2> QED
      BY <2>1, <2>2, Zenon DEF Routes
  <1> QED
    BY <1>1, <1>2, <1>3, ClientRoutes, SendRoutes, RoundRoutes, Zenon DEF IpcNext

\* One write() to a client that was not given up on leaves whole lines and at
\* most the first half of the line being sent.
LEMMA WriteKeepsWhole ==
    ASSUME IpcTypeOK, Routes, SendWrites, NEW f, f = writing.to, Whole(at[f]), Ended(f)
    PROVE  Whole(at[f])' /\ Ended(f)'
  <1> DEFINE w == wire[at[f]]
             v == wire'[at[f]]
             n == Len(w)
             half == [line |-> writing.line, last |-> FALSE]
             rest == [line |-> writing.line, last |-> TRUE]
  <1>0. /\ at' = at /\ at[f] \in Connections /\ w \in Seq(Outbound) /\ n \in Nat /\ DOMAIN w = 1 .. n
        /\ writing # NoLine
    BY WriteTakes, Connecteds, LenProperties, ZenonT(30) DEF IpcTypeOK, SendWrites, serverVars
  <1>1. \A i \in 1 .. n : IF w[i].last
                            THEN i > 1 /\ w[i - 1] = [w[i] EXCEPT !.last = FALSE]
                            ELSE i < n => w[i + 1] = [w[i] EXCEPT !.last = TRUE]
    BY <1>0, Zenon DEF Whole
  <1>2. /\ writing.left = 2 => w = <<>> \/ w[n].last
        /\ writing.left = 1 => w # <<>> /\ w[n] = half
    BY <1>0 DEF Ended, Halfway
  <1>3. w = <<>> <=> n = 0
    BY <1>0, EmptySeq, Zenon
  <1>4. /\ v \in Seq(Outbound) /\ \A i \in 1 .. n : v[i] = w[i]
        /\ \/ /\ writing.left = 2 /\ writing' = NoLine
              /\ Len(v) = n + 2 /\ v[n + 1] = half /\ v[n + 2] = rest
           \/ /\ writing.left = 2 /\ writing' = [to |-> f, line |-> writing.line, left |-> 1]
              /\ Len(v) = n + 1 /\ v[n + 1] = half
           \/ /\ writing.left = 1 /\ writing' = NoLine
              /\ Len(v) = n + 1 /\ v[n + 1] = rest
    <2> DEFINE piece(i) == [line |-> writing.line, last |-> i = writing.left]
    <2>1. /\ \A k \in {1, 2} : Appended(at[f], k) =>
                /\ v \in Seq(Outbound) /\ Len(v) = n + k /\ \A i \in 1 .. n : v[i] = w[i]
                /\ \A i \in 1 .. k : v[n + i] = piece(i)
      BY Zenon DEF Appended
    <2>2. /\ writing.left = 2 => piece(1) = half /\ piece(2) = rest
          /\ writing.left = 1 => piece(1) = rest
      <3>1. (1 = 2) = FALSE /\ (2 = 2) = TRUE /\ (1 = 1) = TRUE
        BY SMTT(20)
      <3> QED
        BY <3>1, Zenon
    <2> HIDE DEF v, n, w, piece, half, rest
    <2>3. \/ writing.left = 2 /\ writing' = NoLine /\ Appended(at[f], 2)
          \/ writing.left = 2 /\ writing' = [to |-> f, line |-> writing.line, left |-> 1] /\ Appended(at[f], 1)
          \/ writing.left = 1 /\ writing' = NoLine /\ Appended(at[f], 1)
      BY WriteTakes, Zenon
    <2> QED
      BY <2>1, <2>2, <2>3
  <1>5. ~half.last /\ rest.last /\ rest = [half EXCEPT !.last = TRUE] /\ half = [rest EXCEPT !.last = FALSE]
    <2>1. \A x, y, z : [[line |-> x, last |-> y] EXCEPT !.last = z] = [line |-> x, last |-> z]
      OBVIOUS
    <2>2. rest = [half EXCEPT !.last = TRUE] /\ half = [rest EXCEPT !.last = FALSE]
      BY <2>1, Zenon
    <2> QED
      BY <2>2, Zenon
  <1>6. Whole(at[f])' <=> \A i \in DOMAIN v : IF v[i].last
                                                THEN i > 1 /\ v[i - 1] = [v[i] EXCEPT !.last = FALSE]
                                                ELSE i < Len(v) => v[i + 1] = [v[i] EXCEPT !.last = TRUE]
    BY <1>0, Zenon DEF Whole
  <1>7. DOMAIN v = 1 .. Len(v)
    BY <1>4, LenProperties, Zenon
  <1>8. Ended(f)' <=> IF Halfway(f)' THEN v # <<>> /\ v[Len(v)] = [line |-> writing'.line, last |-> FALSE]
                                     ELSE v # <<>> => v[Len(v)].last
    BY <1>0, Zenon DEF Ended
  <1> HIDE DEF w, v, n, half, rest
  <1>w. writing' = NoLine \/ writing' = [to |-> f, line |-> writing.line, left |-> 1]
    BY ONLY <1>4, Zenon
  <1>a. /\ writing.left = 1 \/ writing.left = 2
        /\ \A i \in 1 .. n : v[i] = w[i]
        /\ Len(v) = n + 1 \/ Len(v) = n + 2
    BY ONLY <1>4, Zenon
  <1>b. writing.left = 2 => v[n + 1] = half /\ (Len(v) = n + 1 \/ v[n + 2] = rest)
    <2>1. 1 # 2
      BY ONLY TRUE
    <2> QED
      BY ONLY <1>4, <2>1, Zenon
  <1>c. writing.left = 1 => v[n + 1] = rest /\ Len(v) = n + 1
    <2>1. 1 # 2
      BY ONLY TRUE
    <2> QED
      BY ONLY <1>4, <2>1, Zenon
  <1>d. /\ writing' = NoLine => v[Len(v)] = rest
        /\ writing' # NoLine => v[Len(v)] = half
    <2>1. [to |-> f, line |-> writing.line, left |-> 1] # NoLine
      BY DEF NoLine
    <2> QED
      BY ONLY <1>4, <2>1, Zenon
  <1>9. Halfway(f)' <=> writing' # NoLine
    <2>1. [to |-> f, line |-> writing.line, left |-> 1] # NoLine
      BY DEF NoLine
    <2> QED
      BY <1>w, <2>1, SMTT(20) DEF Halfway
  <1>10. writing' # NoLine => writing'.line = writing.line
    BY <1>w
  <1>11. v # <<>>
    <2>1. v \in Seq(Outbound) /\ Len(v) # 0
      BY <1>0, <1>4
    <2> QED
      BY ONLY <2>1, EmptySeq, Zenon
  <1>12. Ended(f)'
    <2>1. half = [line |-> writing.line, last |-> FALSE]
      BY Zenon DEF half
    <2> QED
      <3>1. CASE writing' = NoLine
        <4>1. v[Len(v)] = rest
          BY ONLY <1>d, <3>1, Zenon
        <4> QED
          BY <1>5, <1>8, <1>9, <3>1, <4>1, Zenon
      <3>2. CASE writing' # NoLine
        <4>1. v[Len(v)] = half
          BY ONLY <1>d, <3>2, Zenon
        <4> QED
          BY <1>8, <1>9, <1>10, <1>11, <2>1, <3>2, <4>1, Zenon
      <3> QED
        BY <3>1, <3>2, Zenon
  <1>13. ASSUME NEW i \in 1 .. Len(v)
         PROVE  IF v[i].last THEN i > 1 /\ v[i - 1] = [v[i] EXCEPT !.last = FALSE]
                             ELSE i < Len(v) => v[i + 1] = [v[i] EXCEPT !.last = TRUE]
    <2>1. CASE i < n
      <3>1. i \in 1 .. n /\ i + 1 \in 1 .. n /\ (i > 1 => i - 1 \in 1 .. n)
        BY <1>0, <2>1
      <3>2. v[i] = w[i] /\ v[i + 1] = w[i + 1] /\ (i > 1 => v[i - 1] = w[i - 1])
        BY ONLY <1>a, <3>1, Zenon
      <3> QED
        BY ONLY <1>0, <1>1, <2>1, <3>1, <3>2, Zenon
    <2>2. CASE i = n
      <3>0. i \in 1 .. n /\ (i > 1 => i - 1 \in 1 .. n) /\ n # 0
        BY ONLY <1>0, <2>2, i \in 1 .. Len(v)
      <3>1. v[i] = w[i] /\ (i > 1 => v[i - 1] = w[i - 1])
        BY ONLY <1>a, <3>0, Zenon
      <3>2. CASE writing.left = 2
        <4>1. w[n].last
          BY ONLY <1>2, <1>3, <3>0, <3>2, Zenon
        <4> QED
          BY ONLY <1>1, <2>2, <3>0, <3>1, <4>1, Zenon
      <3>3. CASE writing.left = 1
        <4>1. w[n] = half /\ v[n + 1] = rest
          BY ONLY <1>2, <1>c, <3>3, Zenon
        <4>2. v[i] = half /\ v[i + 1] = rest
          BY ONLY <2>2, <3>1, <4>1, Zenon
        <4> QED
          BY ONLY <1>5, <4>2, Zenon
      <3> QED
        BY ONLY <1>a, <3>2, <3>3, Zenon
    <2>3. CASE i = n + 1
      <3>1. CASE writing.left = 2
        <4>1. v[n + 1] = half /\ (Len(v) = n + 1 \/ v[n + 2] = rest)
          BY ONLY <1>b, <3>1, Zenon
        <4>2. i < Len(v) => Len(v) # n + 1 /\ i + 1 = n + 2
          BY ONLY <1>0, <2>3
        <4>3. v[i] = half /\ (i < Len(v) => v[i + 1] = rest)
          BY ONLY <2>3, <4>1, <4>2, Zenon
        <4> QED
          BY ONLY <1>5, <4>3, Zenon
      <3>2. CASE writing.left = 1
        <4>1. w[n] = half /\ n # 0 /\ v[n + 1] = rest
          BY ONLY <1>2, <1>3, <1>c, <3>2, Zenon
        <4>2. n \in 1 .. n /\ i - 1 = n /\ i > 1
          BY ONLY <1>0, <2>3, <4>1
        <4>3. v[i - 1] = half /\ v[i] = rest
          BY ONLY <1>a, <2>3, <4>1, <4>2, Zenon
        <4> QED
          BY ONLY <1>5, <4>2, <4>3, Zenon
      <3> QED
        BY ONLY <1>a, <3>1, <3>2, Zenon
    <2>4. CASE i = n + 2
      <3>1. Len(v) # n + 1 /\ i > 1 /\ i - 1 = n + 1
        BY ONLY <1>0, <2>4, i \in 1 .. Len(v)
      <3>2. writing.left = 2
        BY ONLY <1>a, <1>c, <3>1, Zenon
      <3>3. v[i] = rest /\ v[i - 1] = half
        BY ONLY <1>b, <2>4, <3>1, <3>2, Zenon
      <3> QED
        BY ONLY <1>5, <3>1, <3>3, Zenon
    <2> QED
      BY ONLY <1>0, <1>a, <2>1, <2>2, <2>3, <2>4, i \in 1 .. Len(v)
  <1> QED
    BY <1>6, <1>7, <1>12, <1>13, Zenon

\* Steps that write nothing keep the lines whole: a descriptor keeps its
\* connection, or has a fresh one, and send_line() is not inside a line to it
\* unless it was.
LEMMA LinesSuffice ==
    ASSUME Lines, UNCHANGED wire,
           \A f \in Connected' \ doomed' :
              \/ f \in Connected \ doomed /\ at'[f] = at[f] /\ (Halfway(f)' <=> Halfway(f)) /\ writing' = writing
              \/ f \in Connected \ doomed /\ at'[f] = at[f] /\ ~Halfway(f) /\ ~Halfway(f)'
              \/ wire[at'[f]] = <<>> /\ ~Halfway(f)'
    PROVE  Lines'
  <1> SUFFICES ASSUME NEW f \in Connected' \ doomed' PROVE Whole(at[f])' /\ Ended(f)'
    BY Zenon DEF Lines
  <1>1. CASE f \in Connected \ doomed /\ at'[f] = at[f]
             /\ \/ (Halfway(f)' <=> Halfway(f)) /\ writing' = writing
                \/ ~Halfway(f) /\ ~Halfway(f)'
    <2>1. Whole(at[f]) /\ Ended(f)
      BY <1>1, Zenon DEF Lines
    <2> QED
      BY <1>1, <2>1, Zenon DEF Whole, Ended
  <1>2. CASE wire[at'[f]] = <<>> /\ ~Halfway(f)'
    BY <1>2 DEF Whole, Ended
  <1> QED
    BY <1>1, <1>2, Zenon

\* Every step keeps the lines whole.
LEMMA LinesNext ==
    ASSUME IpcTypeOK, Routes, Lines, [IpcNext]_ipcVars
    PROVE  Lines'
  <1>1. ASSUME UNCHANGED <<at, doomed, writing, wire>> PROVE Lines'
    <2>1. Connected' = Connected /\ \A f \in Connected : Halfway(f)' <=> Halfway(f)
      BY <1>1, Zenon DEF Connected, Halfway
    <2> QED
      BY <1>1, <2>1, LinesSuffice, Zenon
  <1>2. CASE Client \/ UNCHANGED ipcVars
    BY <1>1, <1>2, Zenon DEF Client, Connect, ClientReads, ClientLeaves, ClientSends, serverVars, outVars, ipcVars
  <1>3. CASE \E m \in sending : SendBegins(m)
    <2>1. PICK m \in sending : SendBegins(m)
      BY <1>3, Zenon
    <2>2. /\ UNCHANGED <<at, doomed, wire, Connected>> /\ writing = NoLine
          /\ writing' = NoLine \/ writing' = [to |-> m.to, line |-> m.line, left |-> 2]
      BY <2>1, Zenon DEF SendBegins, serverVars, Connected
    <2>3. \A f \in Connected : ~Halfway(f) /\ ~Halfway(f)'
      BY <2>2, SMTT(20) DEF Halfway
    <2> QED
      BY <2>2, <2>3, LinesSuffice, Zenon
  <1>4. CASE SendWrites
    <2>1. /\ UNCHANGED <<at, doomed, Connected>> /\ writing # NoLine /\ writing.to \in Connected
          /\ \A d \in Connections : d # at[writing.to] => wire'[d] = wire[d]
          /\ writing' # NoLine => writing'.to = writing.to
      <3>1. UNCHANGED <<at, doomed>> /\ writing # NoLine
        BY <1>4, Zenon DEF SendWrites, serverVars
      <3>2. Connected' = Connected
        BY <3>1, Zenon DEF Connected
      <3>3. writing' \in {NoLine, [to |-> writing.to, line |-> writing.line, left |-> 1]}
        BY <1>4, WriteTakes, Zenon
      <3>4. writing.to \in Connected /\ \A d \in Connections : d # at[writing.to] => wire'[d] = wire[d]
        BY <1>4, WriteTakes, Zenon
      <3>5. writing' # NoLine => writing'.to = writing.to
        BY <3>3
      <3> QED
        BY <3>1, <3>2, <3>4, <3>5, Zenon
    <2> SUFFICES ASSUME NEW f \in Connected \ doomed PROVE Whole(at[f])' /\ Ended(f)'
      BY <2>1, Zenon DEF Lines
    <2>2. Whole(at[f]) /\ Ended(f)
      BY Zenon DEF Lines
    <2>3. CASE f = writing.to
      BY <1>4, <2>2, <2>3, WriteKeepsWhole, Zenon
    <2>4. CASE f # writing.to
      <3>1. at[f] # at[writing.to] /\ at[f] \in Connections /\ ~Halfway(f) /\ ~Halfway(f)'
        BY <2>1, <2>4, Connecteds, Zenon DEF Routes, Halfway
      <3>2. wire'[at'[f]] = wire[at[f]] /\ at'[f] = at[f]
        BY <2>1, <3>1, Zenon
      <3> QED
        BY <2>2, <3>1, <3>2, Zenon DEF Whole, Ended
    <2> QED
      BY <2>3, <2>4, Zenon
  <1>5. CASE SendGivesUp
    <2>1. /\ UNCHANGED <<at, wire, Connected>> /\ doomed' = doomed \cup {writing.to} /\ writing' = NoLine
      BY <1>5, Zenon DEF SendGivesUp, Connected
    <2>2. \A f \in Connected \ doomed' : ~Halfway(f) /\ ~Halfway(f)'
      BY <2>1, Zenon DEF Halfway
    <2> QED
      BY <2>1, <2>2, LinesSuffice, Zenon
  <1>6. CASE Stop
    <2>1. Connected' = {}
      BY <1>6, Zenon DEF Stop, Connected
    <2> QED
      BY <2>1, Zenon DEF Lines
  <1>7. CASE PollBegins \/ RoundEnds
    <2>1. /\ UNCHANGED <<wire, writing>>
          /\ \A f \in Connected' \ doomed' : f \in Connected \ doomed /\ at'[f] = at[f]
      BY <1>7 DEF PollBegins, RoundEnds, Disconnect, Connected, outVars
    <2>2. \A f \in Connected' \ doomed' : Halfway(f)' <=> Halfway(f)
      BY <2>1, Zenon DEF Halfway
    <2> QED
      BY <2>1, <2>2, LinesSuffice, Zenon
  <1>8. CASE \E c \in Connections : Accept(c)
    <2>1. PICK c \in Connections, f \in Fds \ Connected : Accept(c) /\ at' = [at EXCEPT ![f] = c]
      BY <1>8, Zenon DEF Accept
    <2>2. /\ UNCHANGED <<wire, writing, doomed>> /\ peer[c] = "queued" /\ wire[c] = <<>>
          /\ writing = NoLine
      BY <2>1, Zenon DEF Accept, outVars, Routes, Quiet
    <2>3. /\ at'[f] = c /\ \A g \in Fds : g # f => at'[g] = at[g]
      BY <2>1, Zenon DEF IpcTypeOK
    <2>4. \A g \in Connected' : g = f \/ (g \in Connected /\ at'[g] = at[g])
      BY <2>3, Zenon DEF Connected
    <2>5. \A g \in Fds : ~Halfway(g) /\ ~Halfway(g)'
      BY <2>2, Zenon DEF Halfway
    <2>6. Connected' \subseteq Fds
      BY Zenon DEF Connected
    <2> QED
      BY <2>2, <2>3, <2>4, <2>5, <2>6, LinesSuffice, Zenon
  <1>9. CASE PollReports \/ AcceptEnds \/ (\E f \in Fds : Read(f)) \/ HandleLine \/ LinesEnd \/ Publish
    BY <1>1, <1>9, Zenon DEF PollReports, AcceptEnds, Read, HandleLine, LinesEnd, Publish, outVars
  <1> QED
    BY <1>2, <1>3, <1>4, <1>5, <1>6, <1>7, <1>8, <1>9, Zenon DEF IpcNext, Send, Round

\* DisconnectionIsOwn, with what makes it inductive: nothing is pending while
\* connections are accepted, since poll_once() begins with the pending ones.
Pending == (rpc \in {"poll", "accept"} => doomed = {}) /\ DisconnectionIsOwn

\* A pending disconnection stays one of the same client, which has left or was
\* sent at least as much as before.
LEMMA PendingStays ==
    ASSUME IpcTypeOK, Routes, Pending, doomed' \subseteq doomed, IpcTypeOK',
           rpc' \in {"poll", "accept"} => rpc \in {"poll", "accept"},
           \A f \in doomed' \cap Connected' :
               /\ f \in Connected /\ at'[f] = at[f]
               /\ peer[at[f]] = "left" => peer'[at[f]] = "left"
               /\ Len(wire'[at[f]]) >= Len(wire[at[f]])
    PROVE  Pending'
  <1> SUFFICES ASSUME NEW f \in doomed' \cap Connected'
               PROVE  peer'[at'[f]] = "left" \/ Len(wire'[at'[f]]) >= Room
    BY Zenon DEF Pending, DisconnectionIsOwn
  <1>1. /\ f \in doomed \cap Connected /\ at'[f] = at[f] /\ at[f] \in Connections
        /\ peer[at[f]] = "left" => peer'[at[f]] = "left"
        /\ Len(wire'[at[f]]) >= Len(wire[at[f]])
    BY Connecteds, Zenon
  <1>2. peer[at[f]] = "left" \/ Len(wire[at[f]]) >= Room
    BY <1>1, Zenon DEF Pending, DisconnectionIsOwn
  <1>3. Len(wire[at[f]]) \in Nat /\ Len(wire'[at[f]]) \in Nat /\ Room \in Nat
    BY <1>1, LenProperties, IpcAssumption, Zenon DEF IpcTypeOK, IpcAssumption
  <1>4. Len(wire[at[f]]) >= Room => Len(wire'[at[f]]) >= Room
    BY ONLY <1>1, <1>3
  <1> QED
    BY <1>1, <1>2, <1>4, Zenon

\* Every step keeps a pending disconnection with the client whose write failed.
LEMMA PendingNext ==
    ASSUME IpcTypeOK, Routes, Pending, [IpcNext]_ipcVars, IpcTypeOK'
    PROVE  Pending'
  <1>0. \A c \in Connections : Len(wire[c]) \in Nat /\ Len(wire[c]) >= Len(wire[c])
    <2> SUFFICES ASSUME NEW c \in Connections PROVE Len(wire[c]) \in Nat /\ Len(wire[c]) >= Len(wire[c])
      BY Zenon
    <2>1. Len(wire[c]) \in Nat
      BY LenProperties, Zenon DEF IpcTypeOK
    <2> QED
      BY ONLY <2>1
  <1>1. ASSUME UNCHANGED <<at, doomed, wire, rpc>>,
               \A c \in Connections : peer[c] = "left" => peer'[c] = "left"
        PROVE  Pending'
    <2>1. Connected' = Connected
      BY <1>1, Zenon DEF Connected
    <2> QED
      BY <1>0, <1>1, <2>1, Connecteds, PendingStays, Zenon
  <1>2. CASE UNCHANGED ipcVars
    BY <1>1, <1>2, Zenon DEF ipcVars, clientVars, serverVars, outVars
  <1>3. CASE Client
    <2>1. PICK c \in Connections : \/ Connect(c) \/ ClientReads(c) \/ ClientLeaves(c)
                                   \/ \E piece \in Pieces : ClientSends(c, piece)
      BY <1>3, Zenon DEF Client
    <2>2. UNCHANGED <<at, doomed, wire, rpc>>
      BY <2>1, Zenon DEF Connect, ClientReads, ClientLeaves, ClientSends, serverVars, outVars
    <2>3. \A d \in Connections : peer[d] = "left" => peer'[d] = "left"
      BY <2>1, Zenon DEF Connect, ClientReads, ClientLeaves, ClientSends, IpcTypeOK
    <2> QED
      BY <1>1, <2>2, <2>3, Zenon
  <1>4. CASE (\E m \in sending : SendBegins(m)) \/ Publish \/ HandleLine
    BY <1>1, <1>4, Zenon DEF SendBegins, Publish, HandleLine, clientVars, serverVars
  <1>5. CASE SendWrites
    <2>1. UNCHANGED <<at, doomed, peer, rpc>>
      BY <1>5, Zenon DEF SendWrites, clientVars, serverVars
    <2>2. Connected' = Connected
      BY <2>1, Zenon DEF Connected
    <2>3. \A c \in Connections : Len(wire'[c]) >= Len(wire[c])
      <3> SUFFICES ASSUME NEW c \in Connections PROVE Len(wire'[c]) >= Len(wire[c])
        BY Zenon
      <3>1. \/ wire'[c] = wire[c]
            \/ Len(wire'[c]) = Len(wire[c]) + 1
            \/ Len(wire'[c]) = Len(wire[c]) + 2
        BY <1>5, WriteTakes, Zenon DEF Appended
      <3>2. Len(wire[c]) \in Nat
        BY <1>0, Zenon
      <3> QED
        BY ONLY <3>1, <3>2
    <2> QED
      BY <2>1, <2>2, <2>3, Connecteds, PendingStays, Zenon
  <1>6. CASE SendGivesUp
    <2>1. /\ UNCHANGED <<at, peer, wire, rpc>> /\ doomed' = doomed \cup {writing.to}
          /\ writing # NoLine /\ WriteFails(at[writing.to])
      BY <1>6, Zenon DEF SendGivesUp, clientVars
    <2>2. Connected' = Connected /\ rpc \notin {"poll", "accept"} /\ writing.to \in Connected
      BY <2>1, Zenon DEF Connected, Routes, Quiet
    <2>3. peer[at[writing.to]] = "left" \/ Len(wire[at[writing.to]]) >= Room
      <3> DEFINE c == at[writing.to]
      <3>1. c \in Connections
        BY <2>2, Connecteds, Zenon
      <3>2. Len(wire[c]) \in Nat /\ taken[c] \in Nat /\ Room \in Nat
        BY <1>0, <3>1, IpcAssumption, Zenon DEF IpcTypeOK, IpcAssumption
      <3>3. peer[c] = "left" \/ Room - (Len(wire[c]) - taken[c]) = 0
        BY <2>1, Zenon DEF WriteFails, Free
      <3> HIDE DEF c
      <3>4. Room - (Len(wire[c]) - taken[c]) = 0 => Len(wire[c]) >= Room
        BY ONLY <3>2
      <3> QED
        BY <3>3, <3>4, Zenon DEF c
    <2> QED
      BY <2>1, <2>2, <2>3, Zenon DEF Pending, DisconnectionIsOwn
  <1>7. CASE Stop \/ PollBegins
    <2>1. doomed' = {}
      BY <1>7, Zenon DEF Stop, PollBegins
    <2> QED
      BY <2>1, Zenon DEF Pending, DisconnectionIsOwn
  <1>8. CASE PollReports \/ \E c \in Connections : Accept(c)
    <2>1. doomed' = {}
      BY <1>8, Zenon DEF PollReports, Accept, Pending
    <2> QED
      BY <2>1, Zenon DEF Pending, DisconnectionIsOwn
  <1>9. CASE AcceptEnds \/ (\E f \in Fds : Read(f)) \/ LinesEnd
    <2>1. UNCHANGED <<at, doomed, peer, wire>> /\ rpc' \notin {"poll", "accept"}
      BY <1>9, Zenon DEF AcceptEnds, Read, LinesEnd, clientVars, outVars
    <2> QED
      BY <2>1, Zenon DEF Pending, DisconnectionIsOwn, Connected
  <1>10. CASE RoundEnds
    <2>1. /\ UNCHANGED <<doomed, wire>> /\ rpc' = "out" /\ gone \subseteq Connected
          /\ at' = [f \in Fds |-> IF f \in gone THEN NoConn ELSE at[f]]
          /\ peer' = [c \in Connections |-> IF \E f \in gone : at[f] = c THEN "dropped" ELSE peer[c]]
      BY <1>10, Zenon DEF RoundEnds, Disconnect, outVars, Routes
    <2>2. \A f \in Connected' : f \in Connected \ gone /\ at'[f] = at[f]
      BY <2>1, Zenon DEF Connected
    <2>3. \A f \in Connected' : peer'[at[f]] = peer[at[f]]
      BY <2>1, <2>2, Connecteds, Zenon DEF Routes
    <2> QED
      BY <1>0, <2>1, <2>2, <2>3, Connecteds, PendingStays, Zenon
  <1> QED
    BY <1>2, <1>3, <1>4, <1>5, <1>6, <1>7, <1>8, <1>9, <1>10, Zenon DEF IpcNext, Send, Round

\* The three together are inductive: the lines need the routes (two descriptors
\* never share a connection), and the types of what is sent need them too.
THEOREM IpcInvAlways == IpcSpec => [](IpcTypeOK /\ Routes /\ Lines)
  <1>1. IpcInit => IpcTypeOK /\ Routes /\ Lines
    <2> SUFFICES ASSUME IpcInit PROVE IpcTypeOK /\ Routes /\ Lines
      BY Zenon
    <2>1. Connected = {}
      BY Zenon DEF IpcInit, Connected
    <2>2. Routes /\ Lines
      BY <2>1, Zenon DEF IpcInit, Routes, Lines, SubscriptionIsOwn, Quiet
    <2>3. <<>> \in Seq(Inbound) /\ <<>> \in Seq(Outbound) /\ 0 \in 0 .. MaxSent /\ 0 \in 0 .. MaxEvents
      BY IpcAssumption DEF IpcAssumption
    <2>4. IpcTypeOK
      BY <2>3, Zenon DEF IpcInit, IpcTypeOK
    <2> QED
      BY <2>2, <2>4, Zenon
  <1>2. IpcTypeOK /\ Routes /\ Lines /\ [IpcNext]_ipcVars => (IpcTypeOK /\ Routes /\ Lines)'
    BY TypesNext, RoutesNext, LinesNext, Zenon
  <1> QED
    BY <1>1, <1>2, PTL DEF IpcSpec

\* The server's fields, the locals of poll_once() and send_line() and the clients
\* stay in their types.
THEOREM IpcTypesAlways == IpcSpec => []IpcTypeOK
  BY IpcInvAlways, PTL

\* A descriptor the kernel hands out again never inherits the subscription of the
\* client that had it before, however connections, rounds and failures interleave.
THEOREM SubscriptionIsOwnAlways == IpcSpec => []SubscriptionIsOwn
  <1>1. Routes => SubscriptionIsOwn
    BY Zenon DEF Routes
  <1> QED
    BY <1>1, IpcInvAlways, PTL

\* Until the server gives a client up, the client has received whole lines and at
\* most the first half of one more, for any socket buffer and any reader.
THEOREM LinesWholeUnlessDoomedAlways == IpcSpec => []LinesWholeUnlessDoomed
  <1>1. Lines => LinesWholeUnlessDoomed
    BY Zenon DEF Lines, LinesWholeUnlessDoomed
  <1> QED
    BY <1>1, IpcInvAlways, PTL

\* A disconnection that was put off is carried out on the client whose write had
\* failed, for any number of clients that take over descriptors meanwhile.
THEOREM DisconnectionIsOwnAlways == IpcSpec => []DisconnectionIsOwn
  <1>1. IpcInit => Pending
    BY Zenon DEF IpcInit, Pending, DisconnectionIsOwn
  <1>2. IpcTypeOK /\ Routes /\ Pending /\ [IpcNext]_ipcVars /\ IpcTypeOK' => Pending'
    BY PendingNext, Zenon
  <1>3. Pending => DisconnectionIsOwn
    BY Zenon DEF Pending
  <1> QED
    BY <1>1, <1>2, <1>3, IpcInvAlways, PTL DEF IpcSpec

=============================================================================
