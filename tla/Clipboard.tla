------------------------------ MODULE Clipboard ------------------------------
(***************************************************************************)
(* domains/clipboard: auto_clipboard and wl_clipboard_adapter, in each of  *)
(* several daemon processes.  copy() runs the clipboard command as a child *)
(* and feeds it the text through a pipe, in pieces; the child may read, close *)
(* its input, exit or hang as it likes.  The error copy() returns is only  *)
(* worded differently from case to case, and is left out.                  *)
(***************************************************************************)
EXTENDS Integers

CONSTANTS Daemons,      \* processes
          PipeRoom,     \* pieces a pipe holds
          TextSizes,    \* sizes of transcripts, in pieces
          MaxCopies     \* bound: transcripts that one process copies

ASSUME ClipboardAssumption == PipeRoom \in Nat \ {0} /\ TextSizes \subseteq Nat /\ MaxCopies \in Nat

VARIABLES enabled,      \* AutoClipboard::enabled_
          copying,      \* where copy() is
          writeEnd,     \* the parent has the pipe's write end open
          unsent,       \* pieces still to be written
          pipe,         \* pieces in the pipe
          child,        \* the child process: its exit is kept until it is waited for
          stdin,        \* the child has its end of the pipe open
          helper,       \* a command that went to the background, serving the selection
          copies        \* copies so far (bounds the run)

clipboardVars == <<enabled, copying, writeEnd, unsent, pipe, child, stdin, helper, copies>>

ClipboardTypeOK ==
    /\ {enabled, writeEnd, stdin, helper} \subseteq [Daemons -> BOOLEAN]
    /\ copying \in [Daemons -> {"no", "write", "wait", "kill"}]
    /\ unsent \in [Daemons -> Nat]
    /\ pipe \in [Daemons -> 0 .. PipeRoom]
    /\ child \in [Daemons -> {"none", "running", "ok", "failed"}]
    /\ copies \in [Daemons -> 0 .. MaxCopies]

ClipboardInit ==
    /\ enabled \in [Daemons -> BOOLEAN]
    /\ copying = [p \in Daemons |-> "no"]
    /\ writeEnd = [p \in Daemons |-> FALSE] /\ stdin = writeEnd /\ helper = writeEnd
    /\ unsent = [p \in Daemons |-> 0] /\ pipe = unsent /\ copies = unsent
    /\ child = [p \in Daemons |-> "none"]

-----------------------------------------------------------------------------
(* The daemon's main thread *)

\* ConfigurationChanged, published between two transcripts.
FollowConfiguration(p) ==
    /\ copying[p] = "no"
    /\ enabled' = [enabled EXCEPT ![p] = ~@]
    /\ UNCHANGED <<copying, writeEnd, unsent, pipe, child, stdin, helper, copies>>

\* TranscriptionCompleted while enabled.  When pipe() or fork() fails, copy() has
\* closed what it opened and returns at once, which is no step.
CopyForks(p, size) ==
    /\ copying[p] = "no" /\ enabled[p] /\ copies[p] < MaxCopies
    /\ copying' = [copying EXCEPT ![p] = "write"]
    /\ writeEnd' = [writeEnd EXCEPT ![p] = TRUE]
    /\ unsent' = [unsent EXCEPT ![p] = size]
    /\ pipe' = [pipe EXCEPT ![p] = 0]
    /\ child' = [child EXCEPT ![p] = "running"]
    /\ stdin' = [stdin EXCEPT ![p] = TRUE]
    /\ copies' = [copies EXCEPT ![p] = @ + 1]
    /\ UNCHANGED <<enabled, helper>>

\* write() blocks while the pipe is full and its other end is open.
CopyWrites(p) ==
    /\ copying[p] = "write" /\ unsent[p] > 0 /\ stdin[p] /\ pipe[p] < PipeRoom
    /\ unsent' = [unsent EXCEPT ![p] = @ - 1]
    /\ pipe' = [pipe EXCEPT ![p] = @ + 1]
    /\ UNCHANGED <<enabled, copying, writeEnd, child, stdin, helper, copies>>

\* The next write() would raise SIGPIPE.
Broken(p) == copying[p] = "write" /\ unsent[p] > 0 /\ ~stdin[p]

\* Everything was written, or write() failed and the rest is given up: the pipe is
\* closed.
CopyCloses(p) ==
    /\ copying[p] = "write" /\ (unsent[p] = 0 \/ Broken(p))
    /\ copying' = [copying EXCEPT ![p] = "wait"]
    /\ writeEnd' = [writeEnd EXCEPT ![p] = FALSE]
    /\ unsent' = [unsent EXCEPT ![p] = 0]
    /\ UNCHANGED <<enabled, pipe, child, stdin, helper, copies>>

\* waitpid(WNOHANG) finds the child's exit; copy() returns what it says.
WaitReaps(p) ==
    /\ copying[p] = "wait" /\ child[p] \in {"ok", "failed"}
    /\ child' = [child EXCEPT ![p] = "none"]
    /\ copying' = [copying EXCEPT ![p] = "no"]
    /\ UNCHANGED <<enabled, writeEnd, unsent, pipe, stdin, helper, copies>>

\* Fault: the deadline is looked at only once the child has exited.
WaitTimesOutLate(p) ==
    /\ copying[p] = "wait" /\ child[p] \in {"ok", "failed"}
    /\ copying' = [copying EXCEPT ![p] = "kill"]
    /\ UNCHANGED <<enabled, writeEnd, unsent, pipe, child, stdin, helper, copies>>

\* It does not, and the deadline has passed.
WaitTimesOut(p) ==
    /\ copying[p] = "wait" /\ child[p] = "running"
    /\ copying' = [copying EXCEPT ![p] = "kill"]
    /\ UNCHANGED <<enabled, writeEnd, unsent, pipe, child, stdin, helper, copies>>

\* Fault: the killed child is not waited for.
CopyKillsOnly(p) ==
    /\ copying[p] = "kill"
    /\ child' = [child EXCEPT ![p] = IF @ = "running" THEN "failed" ELSE @]
    /\ stdin' = [stdin EXCEPT ![p] = FALSE]
    /\ copying' = [copying EXCEPT ![p] = "no"]
    /\ UNCHANGED <<enabled, writeEnd, unsent, pipe, helper, copies>>

\* kill() and a waitpid() that blocks; the child may have exited before.
CopyKills(p) ==
    /\ copying[p] = "kill"
    /\ child' = [child EXCEPT ![p] = "none"]
    /\ stdin' = [stdin EXCEPT ![p] = FALSE]
    /\ copying' = [copying EXCEPT ![p] = "no"]
    /\ UNCHANGED <<enabled, writeEnd, unsent, pipe, helper, copies>>

CopyStep(p) == CopyWrites(p) \/ CopyCloses(p) \/ WaitReaps(p) \/ WaitTimesOut(p) \/ CopyKills(p)

-----------------------------------------------------------------------------
(* The clipboard command *)

ChildReads(p) ==
    /\ stdin[p] /\ pipe[p] > 0
    /\ pipe' = [pipe EXCEPT ![p] = @ - 1]
    /\ UNCHANGED <<enabled, copying, writeEnd, unsent, child, stdin, helper, copies>>

ChildCloses(p) ==
    /\ stdin[p]
    /\ stdin' = [stdin EXCEPT ![p] = FALSE]
    /\ UNCHANGED <<enabled, copying, writeEnd, unsent, pipe, child, helper, copies>>

\* wl-copy leaves a process in the background that serves paste requests.  The
\* exit of a child whose parent died is collected by init.
ChildExits(p, status, orphan) ==
    /\ child[p] = "running"
    /\ child' = [child EXCEPT ![p] = IF orphan THEN "none" ELSE status]
    /\ stdin' = [stdin EXCEPT ![p] = FALSE]
    /\ helper' = [helper EXCEPT ![p] = @ \/ status = "ok"]
    /\ UNCHANGED <<enabled, copying, writeEnd, unsent, pipe, copies>>

\* Another client of the compositor takes the selection.
HelperEnds(p) ==
    /\ helper[p]
    /\ helper' = [helper EXCEPT ![p] = FALSE]
    /\ UNCHANGED <<enabled, copying, writeEnd, unsent, pipe, child, stdin, copies>>

\* The parent is gone: the kernel closes its end of the pipe.
ParentDies(p) ==
    /\ copying' = [copying EXCEPT ![p] = "no"]
    /\ writeEnd' = [writeEnd EXCEPT ![p] = FALSE]
    /\ unsent' = [unsent EXCEPT ![p] = 0]
    /\ child' = [child EXCEPT ![p] = IF @ = "running" THEN @ ELSE "none"]
    /\ UNCHANGED <<enabled, pipe, stdin, helper, copies>>
=============================================================================
