------------------------------ MODULE Instances ------------------------------
(***************************************************************************)
(* Several daemon processes on one socket path: IpcServer::start() and     *)
(* stop() as main() calls them, with crashes, failing system calls and the *)
(* clipboard's children, which inherit the listening socket.  A process    *)
(* starts once; a restart is another process.                              *)
(***************************************************************************)
EXTENDS Clipboard

CONSTANT NoFile

ASSUME NoFileAssumption == NoFile \notin Daemons

VARIABLES pc,           \* where each process is
          path,         \* whose socket the file at the path is
          listening,    \* processes whose socket listen() was called on
          sigpipe,      \* processes that ignore SIGPIPE
          blind,        \* history: some start() could not create its probe
          overlapped    \* history: some start() or stop() met another's

socketVars    == <<pc, path, listening, sigpipe, blind, overlapped>>
instancesVars == <<clipboardVars, socketVars>>

\* Inside start(), or between stop()'s close() and its unlink().
InCall == {"probe", "unlink", "bind", "listen", "wake", "cleanup"}
Alive  == InCall \cup {"boot", "serving"}

\* The processes, the file and the clipboard of each.
InstancesTypeOK ==
    /\ ClipboardTypeOK
    /\ pc \in [Daemons -> Alive \cup {"off", "gone", "crashed", "piped"}]
    /\ path \in Daemons \cup {NoFile}
    /\ listening \subseteq Daemons /\ sigpipe \subseteq Daemons
    /\ blind \in BOOLEAN /\ overlapped \in BOOLEAN

InstancesInit ==
    /\ ClipboardInit
    /\ pc = [p \in Daemons |-> "off"]
    /\ path = NoFile
    /\ listening = {} /\ sigpipe = {}
    /\ blind = FALSE /\ overlapped = FALSE

\* p goes on to `to`; two calls that are under way together have overlapped.
Goto(p, from, to) ==
    /\ pc[p] = from
    /\ pc' = [pc EXCEPT ![p] = to]
    /\ overlapped' = (overlapped \/ \E q, r \in Daemons : q # r /\ {pc'[q], pc'[r]} \subseteq InCall)

-----------------------------------------------------------------------------
(* start() *)

Launch(p) ==
    /\ Goto(p, "off", "probe")
    /\ UNCHANGED <<clipboardVars, path, listening, sigpipe, blind>>

\* Some process has q's listening socket open: q, or one that was forked from it.
Held(q) == pc[q] \in {"wake", "boot", "serving"} \/ child[q] = "running" \/ helper[q]

\* Fault: a socket counts as live only once its owner serves.
IsSocketLiveServing == path # NoFile /\ pc[path] = "serving"

\* connect() succeeds, or finds the backlog full.
IsSocketLive == path # NoFile /\ path \in listening /\ Held(path)

\* start() fails when the socket is live, and main() returns; otherwise, and also
\* when the probe could not be created, the file is taken to be stale.
Probe(p) ==
    /\ \/ IsSocketLive /\ Goto(p, "probe", "gone") /\ UNCHANGED blind
       \/ ~IsSocketLive /\ Goto(p, "probe", "unlink") /\ UNCHANGED blind
       \/ Goto(p, "probe", "unlink") /\ blind' = TRUE
    /\ UNCHANGED <<clipboardVars, path, listening, sigpipe>>

Unlink(p) ==
    /\ Goto(p, "unlink", "bind")
    /\ path' = NoFile
    /\ UNCHANGED <<clipboardVars, listening, sigpipe, blind>>

\* bind() needs the path to be free; it and socket() can fail besides.
Bind(p) ==
    /\ \/ path = NoFile /\ Goto(p, "bind", "listen") /\ path' = p
       \/ Goto(p, "bind", "gone") /\ UNCHANGED path
    /\ UNCHANGED <<clipboardVars, listening, sigpipe, blind>>

\* When listen() fails, the socket is closed and the file removed.
Listen(p) ==
    /\ \/ Goto(p, "listen", "wake") /\ listening' = listening \cup {p}
       \/ Goto(p, "listen", "cleanup") /\ UNCHANGED listening
    /\ UNCHANGED <<clipboardVars, path, sigpipe, blind>>

\* Fault: the socket file stays when the eventfd cannot be created.
CreateWakeLeavesFile(p) ==
    /\ Goto(p, "wake", "boot") \/ Goto(p, "wake", "gone")
    /\ UNCHANGED <<clipboardVars, path, listening, sigpipe, blind>>

\* So with the eventfd.
CreateWake(p) ==
    /\ Goto(p, "wake", "boot") \/ Goto(p, "wake", "cleanup")
    /\ UNCHANGED <<clipboardVars, path, listening, sigpipe, blind>>

\* Whatever file is at the path by now.
Cleanup(p) ==
    /\ Goto(p, "cleanup", "gone")
    /\ path' = NoFile
    /\ UNCHANGED <<clipboardVars, listening, sigpipe, blind>>

-----------------------------------------------------------------------------
(* main() and the end of a process *)

\* Fault: SIGPIPE keeps its default disposition.
InstallHandlersNoPipe(p) ==
    /\ Goto(p, "boot", "serving")
    /\ UNCHANGED <<clipboardVars, path, listening, sigpipe, blind>>

InstallHandlers(p) ==
    /\ Goto(p, "boot", "serving")
    /\ sigpipe' = sigpipe \cup {p}
    /\ UNCHANGED <<clipboardVars, path, listening, blind>>

\* The loop: a changed configuration, a transcript, and the steps of copy().
Serve(p) ==
    /\ pc[p] = "serving"
    /\ FollowConfiguration(p) \/ \E n \in TextSizes : CopyForks(p, n)
    /\ UNCHANGED socketVars

\* A write() into a broken pipe raises SIGPIPE, which ends a process that does not
\* ignore it.
Copy(p) ==
    /\ pc[p] = "serving"
    /\ IF Broken(p) /\ p \notin sigpipe
       THEN ParentDies(p) /\ Goto(p, "serving", "piped") /\ UNCHANGED <<path, listening, sigpipe, blind>>
       ELSE CopyStep(p) /\ UNCHANGED socketVars

\* stop() closes the listening socket; Cleanup removes the file.
Stop(p) ==
    /\ copying[p] = "no"
    /\ Goto(p, "serving", "cleanup")
    /\ UNCHANGED <<clipboardVars, path, listening, sigpipe, blind>>

\* SIGKILL, or a signal before the handlers are there.
Crash(p) ==
    /\ pc[p] \in Alive
    /\ Goto(p, pc[p], "crashed")
    /\ ParentDies(p)
    /\ UNCHANGED <<path, listening, sigpipe, blind>>

Children(p) ==
    /\ \/ ChildReads(p) \/ ChildCloses(p) \/ HelperEnds(p)
       \/ \E status \in {"ok", "failed"} : ChildExits(p, status, pc[p] \notin Alive)
    /\ UNCHANGED socketVars

Process(p) ==
    \/ Launch(p) \/ Probe(p) \/ Unlink(p) \/ Bind(p) \/ Listen(p) \/ CreateWake(p) \/ Cleanup(p)
    \/ InstallHandlers(p) \/ Serve(p) \/ Copy(p) \/ Stop(p)

Done == (\A p \in Daemons : pc[p] \notin Alive \cup {"off"}) /\ UNCHANGED instancesVars

InstancesNext == (\E p \in Daemons : Process(p) \/ Children(p) \/ Crash(p)) \/ Done

\* The main thread is scheduled, and with it the deadline passes.  Nothing is
\* assumed of the clipboard command.
InstancesSpec ==
    /\ InstancesInit /\ [][InstancesNext]_instancesVars
    /\ \A p \in Daemons : WF_instancesVars(Copy(p))

-----------------------------------------------------------------------------
(* Properties *)

\* Whatever the clipboard command does, the daemon survives it and keeps nothing of
\* it: an early exit does not take the daemon down (the comment on SIGPIPE in
\* main()), and when copy() returns, on any path, the child was waited for and the
\* pipe is closed.
ChildLeavesNoTrace ==
    \A p \in Daemons :
        /\ pc[p] # "piped"
        /\ pc[p] = "serving" /\ copying[p] = "no" => child[p] = "none" /\ ~writeEnd[p]

\* As long as no start() or stop() overlapped with another and every probe could be made,
\* a daemon that serves is the one clients reach, whatever crashed before; and
\* only a crash leaves a socket file without its process, through every failing
\* call of start().
FileFollowsOwner ==
    \A p \in Daemons :
        /\ pc[p] = "serving" /\ ~overlapped /\ ~blind => path = p
        /\ path = p => pc[p] \in {"listen", "wake", "boot", "serving", "cleanup", "crashed"}

\* A text that fits the pipe never holds up the daemon: copy() returns, whatever
\* the clipboard command does.
CopyReturns ==
    \A p \in Daemons : copying[p] # "no" /\ unsent[p] + pipe[p] <= PipeRoom ~> copying[p] = "no"

\* copy() blocks for the timeout at most (the comment on WlClipboardAdapter).
BlocksUpToTimeout == \A p \in Daemons : copying[p] # "no" ~> copying[p] = "no"
=============================================================================
