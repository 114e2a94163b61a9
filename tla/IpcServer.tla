------------------------------ MODULE IpcServer ------------------------------
(***************************************************************************)
(* domains/ipc: ipc_server, event_bridge and the routing of ipc_service.   *)
(* One thread runs rounds of poll_once() and publishes events between and  *)
(* inside them; clients connect, send, read and hang up at any moment.  A  *)
(* client is known by its file descriptor, which the kernel reuses.        *)
(*                                                                         *)
(* A line towards the server is some pieces of text and the piece that     *)
(* ends it, named for the request; a line towards a client is two pieces.  *)
(* A step of send_line() is one write().  The commands behind "command"    *)
(* and what they publish are in the other modules; here a command          *)
(* publishes one event or none, and then its response is sent.             *)
(***************************************************************************)
EXTENDS Integers, Sequences

CONSTANTS Connections,   \* connections ever made
          MaxFds,        \* descriptors that clients can have
          Room,          \* pieces the socket buffer towards a client holds
          Pieces,        \* what clients send
          Chunk,         \* kReadChunkSize, in pieces
          MaxLine,       \* kMaxLineBytes, in pieces of text
          MaxSent,       \* bound: pieces a client sends
          MaxEvents      \* bound: events published

NoConn   == "none"
Requests == {"subscribe", "unsubscribe", "command"}
Inbound  == Requests \cup {"text"}

ASSUME IpcAssumption ==
    /\ {MaxFds, Room, Chunk} \subseteq Nat \ {0}
    /\ {MaxLine, MaxSent, MaxEvents} \subseteq Nat
    /\ Pieces \subseteq Inbound
    /\ NoConn \notin Connections

VARIABLES peer,        \* what has become of each connection
          at,          \* read_buffers' keys: the connection behind each descriptor
          inbound,     \* sent by the client and not yet read
          sentPieces,  \* how much each client has sent
          buffer,      \* read_buffers' values
          subs,        \* EventBridge's subscribed_clients_
          doomed,      \* pending_disconnects
          rpc,         \* where the thread is in poll_once()
          todo,        \* descriptors poll() reported and not yet looked at
          reading,     \* the descriptor whose lines are being handled
          gone,        \* poll_once()'s local disconnected
          sending,     \* calls of send_line() still to be made
          writing,     \* the send_line() in progress
          wire,        \* history: pieces written to each connection
          taken,       \* how many of them the client has read
          handled,     \* history: lines of each connection handled
          since,       \* history: events published when it subscribed, or -1
          published    \* events published

clientVars == <<peer, inbound, sentPieces, taken>>
serverVars == <<at, buffer, subs, doomed, rpc, todo, reading, gone, published>>
outVars    == <<sending, writing, wire>>
seenVars   == <<handled, since>>
ipcVars    == <<clientVars, serverVars, outVars, seenVars>>

Fds      == 1 .. MaxFds
NoFd     == 0
NoLine   == [to |-> NoFd, line |-> <<"event", 0>>, left |-> 0]
Line     == {"event", "response"} \X Nat      \* numbered per event or per handled line
Outbound == [line : Line, last : BOOLEAN]

\* The fields of IpcServer::Impl and EventBridge, the locals of poll_once() and
\* send_line(), and the clients.
IpcTypeOK ==
    /\ peer \in [Connections -> {"new", "queued", "open", "left", "dropped"}]
    /\ at \in [Fds -> Connections \cup {NoConn}]
    /\ inbound \in [Connections -> Seq(Inbound)]
    /\ sentPieces \in [Connections -> 0 .. MaxSent]
    /\ buffer \in [Fds -> Seq(Inbound)]
    /\ subs \subseteq Fds /\ doomed \subseteq Fds /\ todo \subseteq Fds /\ gone \subseteq Fds
    /\ rpc \in {"out", "poll", "accept", "read", "lines", "stopped"}
    /\ reading \in Fds \cup {NoFd}
    /\ sending \subseteq [to : Fds, line : Line]
    /\ writing = NoLine \/ writing \in [to : Fds, line : Line, left : 1 .. 2]
    /\ wire \in [Connections -> Seq(Outbound)]
    /\ taken \in [Connections -> Nat]
    /\ handled \in [Connections -> Nat]
    /\ since \in [Connections -> Nat \cup {-1}]
    /\ published \in 0 .. MaxEvents

IpcInit ==
    /\ peer = [c \in Connections |-> "new"]
    /\ at = [f \in Fds |-> NoConn]
    /\ inbound = [c \in Connections |-> <<>>]
    /\ sentPieces = [c \in Connections |-> 0]
    /\ buffer = [f \in Fds |-> <<>>]
    /\ subs = {} /\ doomed = {} /\ todo = {} /\ gone = {}
    /\ rpc = "out" /\ reading = NoFd
    /\ sending = {} /\ writing = NoLine
    /\ wire = [c \in Connections |-> <<>>]
    /\ taken = [c \in Connections |-> 0]
    /\ handled = [c \in Connections |-> 0]
    /\ since = [c \in Connections |-> -1]
    /\ published = 0

Connected == {f \in Fds : at[f] # NoConn}

-----------------------------------------------------------------------------
(* Clients *)

Connect(c) ==
    /\ peer[c] = "new"
    /\ rpc # "stopped"
    /\ peer' = [peer EXCEPT ![c] = "queued"]
    /\ UNCHANGED <<inbound, sentPieces, taken, serverVars, outVars, seenVars>>

ClientSends(c, piece) ==
    /\ peer[c] \in {"queued", "open"}
    /\ sentPieces[c] < MaxSent
    /\ inbound' = [inbound EXCEPT ![c] = Append(@, piece)]
    /\ sentPieces' = [sentPieces EXCEPT ![c] = @ + 1]
    /\ UNCHANGED <<peer, taken, serverVars, outVars, seenVars>>

ClientReads(c) ==
    /\ peer[c] \in {"open", "dropped"}
    /\ taken[c] < Len(wire[c])
    /\ taken' = [taken EXCEPT ![c] = Len(wire[c])]
    /\ UNCHANGED <<peer, inbound, sentPieces, serverVars, outVars, seenVars>>

ClientLeaves(c) ==
    /\ peer[c] = "open"
    /\ peer' = [peer EXCEPT ![c] = "left"]
    /\ UNCHANGED <<inbound, sentPieces, taken, serverVars, outVars, seenVars>>

Client ==
    \E c \in Connections :
        \/ Connect(c) \/ ClientReads(c) \/ ClientLeaves(c)
        \/ \E piece \in Pieces : ClientSends(c, piece)

-----------------------------------------------------------------------------
(* send_line() *)

Quiet == sending = {} /\ writing = NoLine

\* broadcast() of event n to the clients in `to`.
Broadcast(to, n) == {[to |-> f, line |-> <<"event", n>>] : f \in to}
Response(f)      == [to |-> f, line |-> <<"response", handled[at[f]] + 1>>]

\* The next call: events in any order, the response after them.  A client that
\* is no longer connected is passed over.
SendBegins(m) ==
    /\ writing = NoLine
    /\ m \in sending
    /\ m.line[1] = "response" => \A other \in sending : other.line[1] = "response"
    /\ sending' = sending \ {m}
    /\ writing' = IF m.to \in Connected THEN [to |-> m.to, line |-> m.line, left |-> 2] ELSE NoLine
    /\ UNCHANGED <<clientVars, serverVars, wire, seenVars>>

Free(c) == Room - (Len(wire[c]) - taken[c])

\* Fault: a short write is taken for a whole one.
AfterWriteOnce(pieces) == NoLine

\* What is left of a line of which `pieces` more were written.
AfterWrite(pieces) == IF writing.left = pieces THEN NoLine ELSE [writing EXCEPT !.left = @ - pieces]

\* write() takes what fits.
SendWrites ==
    /\ writing # NoLine
    /\ LET c      == at[writing.to]
           pieces == IF writing.left <= Free(c) THEN writing.left ELSE Free(c)
           piece(i) == [line |-> writing.line, last |-> writing.left - i = 0]
       IN  /\ peer[c] # "left"
           /\ pieces > 0
           /\ wire' = [wire EXCEPT ![c] = @ \o [i \in 1 .. pieces |-> piece(i)]]
           /\ writing' = AfterWrite(pieces)
    /\ UNCHANGED <<clientVars, serverVars, sending, seenVars>>

\* Fault: the sockets block.
WriteFailsOnlyClosed(c) == peer[c] = "left"

\* write() fails, or would block.
WriteFails(c) == peer[c] = "left" \/ Free(c) = 0

\* Fault: a line that does not fit is dropped and the client kept.
SendDropsLine ==
    /\ writing # NoLine
    /\ WriteFails(at[writing.to])
    /\ writing' = NoLine
    /\ UNCHANGED <<clientVars, serverVars, sending, wire, seenVars>>

\* The client is given up on.
SendGivesUp ==
    /\ writing # NoLine
    /\ WriteFails(at[writing.to])
    /\ doomed' = doomed \cup {writing.to}
    /\ writing' = NoLine
    /\ UNCHANGED <<clientVars, at, buffer, subs, rpc, todo, reading, gone, published, sending, wire, seenVars>>

Send == (\E m \in sending : SendBegins(m)) \/ SendWrites \/ SendGivesUp

-----------------------------------------------------------------------------
(* Between rounds: poll_completed(), tick() and stop(). *)

Publish ==
    /\ rpc = "out" /\ Quiet
    /\ published < MaxEvents
    /\ published' = published + 1
    /\ sending' = Broadcast(subs, published + 1)
    /\ UNCHANGED <<clientVars, at, buffer, subs, doomed, rpc, todo, reading, gone, writing, wire, seenVars>>

\* Fault: on_disconnect() does not unsubscribe the client.
DisconnectSubscribed(fds) ==
    /\ at' = [f \in Fds |-> IF f \in fds THEN NoConn ELSE at[f]]
    /\ buffer' = [f \in Fds |-> IF f \in fds THEN <<>> ELSE buffer[f]]
    /\ peer' = [c \in Connections |-> IF \E f \in fds : at[f] = c THEN "dropped" ELSE peer[c]]
    /\ UNCHANGED subs

\* erase(), close() and on_disconnect() for the clients in `fds`.
Disconnect(fds) ==
    /\ at' = [f \in Fds |-> IF f \in fds THEN NoConn ELSE at[f]]
    /\ buffer' = [f \in Fds |-> IF f \in fds THEN <<>> ELSE buffer[f]]
    /\ peer' = [c \in Connections |-> IF \E f \in fds : at[f] = c THEN "dropped" ELSE peer[c]]
    /\ subs' = subs \ fds

\* stop() closes every connection; the subscriptions are left as they are.
Stop ==
    /\ rpc = "out" /\ Quiet
    /\ at' = [f \in Fds |-> NoConn]
    /\ buffer' = [f \in Fds |-> <<>>]
    /\ peer' = [c \in Connections |-> IF peer[c] = "new" THEN "new" ELSE "dropped"]
    /\ doomed' = {}
    /\ rpc' = "stopped"
    /\ UNCHANGED <<inbound, sentPieces, taken, subs, todo, reading, gone, published, outVars, seenVars>>

-----------------------------------------------------------------------------
(* poll_once() *)

\* Fault: pending_disconnects is not cleared.
PollBeginsAgain ==
    /\ rpc = "out" /\ Quiet
    /\ Disconnect(doomed \cap Connected)
    /\ rpc' = "poll"
    /\ UNCHANGED <<inbound, sentPieces, taken, doomed, todo, reading, gone, published, outVars, seenVars>>

\* Write failures of earlier calls first.
PollBegins ==
    /\ rpc = "out" /\ Quiet
    /\ Disconnect(doomed \cap Connected)
    /\ doomed' = {}
    /\ rpc' = "poll"
    /\ UNCHANGED <<inbound, sentPieces, taken, todo, reading, gone, published, outVars, seenVars>>

Readable == {f \in Connected : inbound[at[f]] # <<>> \/ peer[at[f]] = "left"}

\* poll() returns: what it reports of the clients connected so far, and of the
\* listening socket, is fixed here.
PollReports ==
    /\ rpc = "poll"
    /\ todo' = Readable
    /\ rpc' = IF \E c \in Connections : peer[c] = "queued" THEN "accept" ELSE "read"
    /\ UNCHANGED <<clientVars, at, buffer, subs, doomed, reading, gone, published, outVars, seenVars>>

\* accept() until it fails; the kernel hands out the lowest descriptor.
Accept(c) ==
    /\ rpc = "accept"
    /\ peer[c] = "queued"
    /\ \E f \in Fds \ Connected :
          /\ \A g \in Fds \ Connected : f <= g
          /\ at' = [at EXCEPT ![f] = c]
    /\ peer' = [peer EXCEPT ![c] = "open"]
    /\ UNCHANGED <<inbound, sentPieces, taken, buffer, subs, doomed, rpc, todo, reading, gone, published,
                   outVars, seenVars>>

\* It fails when the backlog is empty or no descriptor is left, be it of the
\* process or of the system, which may happen at any time (EMFILE, ENFILE).
AcceptEnds ==
    /\ rpc = "accept"
    /\ rpc' = "read"
    /\ UNCHANGED <<clientVars, at, buffer, subs, doomed, todo, reading, gone, published, outVars, seenVars>>

\* read() of one client: a chunk, or the end of what a client that left had sent.
Read(f) ==
    /\ rpc = "read"
    /\ f \in todo
    /\ todo' = todo \ {f}
    /\ LET c == at[f]
           n == IF Len(inbound[c]) < Chunk THEN Len(inbound[c]) ELSE Chunk
       IN  IF n = 0
             THEN /\ gone' = gone \cup {f}
                  /\ UNCHANGED <<inbound, buffer, rpc, reading>>
             ELSE /\ buffer' = [buffer EXCEPT ![f] = @ \o SubSeq(inbound[c], 1, n)]
                  /\ inbound' = [inbound EXCEPT ![c] = SubSeq(@, n + 1, Len(@))]
                  /\ rpc' = "lines"
                  /\ reading' = f
                  /\ UNCHANGED gone
    /\ UNCHANGED <<peer, sentPieces, taken, at, subs, doomed, published, outVars, seenVars>>

Ends(s) == {i \in DOMAIN s : s[i] # "text"}

\* on_line() for the first complete line: IpcService's routing.
HandleLine ==
    /\ rpc = "lines" /\ Quiet
    /\ \E i \in Ends(buffer[reading]) :
          /\ \A k \in Ends(buffer[reading]) : i <= k
          /\ buffer' = [buffer EXCEPT ![reading] = SubSeq(@, i + 1, Len(@))]
          /\ CASE buffer[reading][i] = "subscribe" ->
                    /\ subs' = subs \cup {reading}
                    /\ since' = [since EXCEPT ![at[reading]] = IF @ = -1 THEN published ELSE @]
                    /\ sending' = {Response(reading)}
                    /\ UNCHANGED published
               [] buffer[reading][i] = "unsubscribe" ->
                    /\ subs' = subs \ {reading}
                    /\ since' = [since EXCEPT ![at[reading]] = -1]
                    /\ sending' = {Response(reading)}
                    /\ UNCHANGED published
               [] OTHER ->
                    /\ published' \in {published, published + 1} \cap 0 .. MaxEvents
                    /\ sending' = {Response(reading)}
                                    \cup (IF published' = published THEN {} ELSE Broadcast(subs, published'))
                    /\ UNCHANGED <<subs, since>>
    /\ handled' = [handled EXCEPT ![at[reading]] = @ + 1]
    /\ UNCHANGED <<clientVars, at, doomed, rpc, todo, reading, gone, writing, wire>>

\* No complete line is left; an overlong one ends the connection.
LinesEnd ==
    /\ rpc = "lines" /\ Quiet
    /\ Ends(buffer[reading]) = {}
    /\ gone' = IF Len(buffer[reading]) > MaxLine THEN gone \cup {reading} ELSE gone
    /\ rpc' = "read"
    /\ reading' = NoFd
    /\ UNCHANGED <<clientVars, at, buffer, subs, doomed, todo, published, outVars, seenVars>>

RoundEnds ==
    /\ rpc = "read"
    /\ todo = {}
    /\ Disconnect(gone)
    /\ gone' = {}
    /\ rpc' = "out"
    /\ UNCHANGED <<inbound, sentPieces, taken, doomed, todo, reading, published, outVars, seenVars>>

Round ==
    \/ PollBegins \/ PollReports \/ (\E c \in Connections : Accept(c)) \/ AcceptEnds
    \/ (\E f \in Fds : Read(f)) \/ HandleLine \/ LinesEnd \/ RoundEnds

IpcNext == Client \/ Send \/ Publish \/ Stop \/ Round

IpcSpec == IpcInit /\ [][IpcNext]_ipcVars

\* The server's thread keeps running rounds: poll() has a timeout, and what main()
\* does between rounds returns.  Nothing is assumed of the clients.
IpcFairSpec == IpcSpec /\ WF_ipcVars(Send \/ Round)

-----------------------------------------------------------------------------
(* Properties *)

\* A subscription belongs to the connection that asked for it: a descriptor that
\* is reused never inherits the events of the client that had it before.
SubscriptionIsOwn ==
    rpc # "stopped" => \A f \in subs : f \in Connected /\ since[at[f]] >= 0

\* So does a pending disconnection: it is carried out on the client whose write
\* failed, because it left or its socket was full, and never on another one that
\* was given the descriptor since.
DisconnectionIsOwn ==
    \A f \in doomed \cap Connected : peer[at[f]] = "left" \/ Len(wire[at[f]]) >= Room

\* Where a line of this kind to c ends, and the numbers of those lines.
Sent(c, kind)    == {i \in DOMAIN wire[c] : wire[c][i].last /\ wire[c][i].line[1] = kind}
Numbers(c, kind) == {wire[c][i].line[2] : i \in Sent(c, kind)}

\* Lines of this kind reached c in the order of their numbers, none of them twice.
Rising(c, kind) == \A i, k \in Sent(c, kind) : i < k => wire[c][i].line[2] < wire[c][k].line[2]

\* A subscriber misses nothing: unless the server has given up on it, it was
\* sent every event since its subscription, once and in order.
NoEventMissed ==
    rpc # "stopped" /\ Quiet =>
        \A f \in subs \ doomed :
            /\ Rising(at[f], "event")
            /\ since[at[f]] + 1 .. published \subseteq Numbers(at[f], "event")
            /\ Numbers(at[f], "event") \subseteq 1 .. published

\* Every request is answered once and in order, whatever is broadcast meanwhile.
AnsweredInOrder ==
    rpc # "stopped" /\ Quiet =>
        \A f \in Connected \ doomed :
            /\ Rising(at[f], "response")
            /\ Numbers(at[f], "response") = 1 .. handled[at[f]]

\* The pieces written to c make up lines, except for one that may be cut at the end.
Whole(c) ==
    \A i \in DOMAIN wire[c] :
        IF wire[c][i].last
          THEN i > 1 /\ wire[c][i - 1] = [wire[c][i] EXCEPT !.last = FALSE]
          ELSE i < Len(wire[c]) => wire[c][i + 1] = [wire[c][i] EXCEPT !.last = TRUE]

\* A client the server has not given up on only ever receives whole lines.
LinesWholeUnlessDoomed == \A f \in Connected \ doomed : Whole(at[f])

\* A connected client has sent a request that was not yet read.
Unserved(c) == peer[c] \in {"queued", "open"} /\ \E i \in DOMAIN inbound[c] : inbound[c][i] # "text"

\* Descriptors suffice for c: it does not wait while the others keep them all, and
\* accept() does not fail for want of one for ever.
DescriptorForClient(c) == []<>(peer[c] # "queued" \/ Connected # Fds) /\ SF_ipcVars(Accept(c))

\* A client's request is read, or the connection ends, however the other clients
\* behave, as long as there is a descriptor for the client: one that stops reading
\* send_line()'s output delays nobody.
EveryoneServed ==
    \A c \in Connections : DescriptorForClient(c) => (Unserved(c) ~> ~Unserved(c))
=============================================================================
