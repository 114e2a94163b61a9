------------------------------ MODULE JobLedger ------------------------------
(***************************************************************************)
(* What the transcription queue promises the thread that owns it, without  *)
(* locks, vectors or a worker: every accepted job waits its turn, at most  *)
(* one runs, jobs run in the order they were accepted, and each ends in    *)
(* exactly one way.  Closing the ledger drops what is still waiting.       *)
(***************************************************************************)
EXTENDS Naturals, Sequences

CONSTANTS Jobs

VARIABLES line,      \* the waiting jobs, oldest first
          status,    \* where each job is in its life
          open       \* jobs are still accepted and started

ledgerVars == <<line, status, open>>

Statuses == {"new", "waiting", "running", "finished", "ok", "error", "cancelled", "dropped"}

LedgerInit ==
    /\ line = <<>>
    /\ status = [j \in Jobs |-> "new"]
    /\ open = TRUE

Accept(j) ==
    /\ open
    /\ status[j] = "new"
    /\ line' = Append(line, j)
    /\ status' = [status EXCEPT ![j] = "waiting"]
    /\ UNCHANGED open

\* Only the oldest waiting job starts, and only when none is running.
Begin ==
    /\ open
    /\ line # <<>>
    /\ \A j \in Jobs : status[j] # "running"
    /\ status' = [status EXCEPT ![Head(line)] = "running"]
    /\ line' = Tail(line)
    /\ UNCHANGED open

Finish(j) ==
    /\ status[j] = "running"
    /\ status' = [status EXCEPT ![j] = "finished"]
    /\ UNCHANGED <<line, open>>

Withdraw(i) ==
    /\ status' = [status EXCEPT ![line[i]] = "cancelled"]
    /\ line' = SubSeq(line, 1, i - 1) \o SubSeq(line, i + 1, Len(line))
    /\ UNCHANGED open

\* The owner learns how every finished job ended, in one go.
Report ==
    /\ \E how \in [Jobs -> {"ok", "error"}] :
           status' = [j \in Jobs |-> IF status[j] = "finished" THEN how[j] ELSE status[j]]
    /\ UNCHANGED <<line, open>>

\* Closing drops every waiting job; none starts afterwards.
Close ==
    /\ open' = FALSE
    /\ status' = [j \in Jobs |-> IF status[j] = "waiting" THEN "dropped" ELSE status[j]]
    /\ line' = <<>>

LedgerNext ==
    \/ \E j \in Jobs : Accept(j) \/ Finish(j)
    \/ Begin
    \/ \E i \in DOMAIN line : Withdraw(i)
    \/ Report
    \/ Close

LedgerSpec == LedgerInit /\ [][LedgerNext]_ledgerVars
==============================================================================
