------------------------ MODULE SessionManagerProofs ------------------------
(***************************************************************************)
(* Proofs about the session manager and the two components it drives, for  *)
(* any set of session ids, any queue capacity and any number of openings   *)
(* and buffers of the capture device.                                      *)
(*                                                                         *)
(* First the transcription queue and the recording manager on their own.   *)
(* Then the session manager, which uses both as their own specifications   *)
(* assume, so that every theorem about them holds under it; its own fields *)
(* agree with theirs between calls, and it never loses a recording to a    *)
(* full queue.                                                             *)
(***************************************************************************)
EXTENDS SessionManager, SequenceTheorems, TLAPS

-----------------------------------------------------------------------------
(* Sequences *)

\* The elements of a sequence, and that none of them occurs twice.
Elements(s) == {s[i] : i \in DOMAIN s}
Distinct(s) == \A i, k \in DOMAIN s : s[i] = s[k] => i = k

\* push_back() adds its argument and nothing else.
LEMMA AppendElements ==
    ASSUME NEW S, NEW s \in Seq(S), NEW e \in S
    PROVE  /\ Append(s, e) \in Seq(S)
           /\ Elements(Append(s, e)) = Elements(s) \cup {e}
           /\ Distinct(s) /\ e \notin Elements(s) => Distinct(Append(s, e))
  BY AppendProperties DEF Elements, Distinct

\* Taking the front of a queue splits its elements.
LEMMA TakeFront ==
    ASSUME NEW S, NEW s \in Seq(S), s # <<>>
    PROVE  /\ Head(s) \in S
           /\ Tail(s) \in Seq(S)
           /\ Elements(s) = {Head(s)} \cup Elements(Tail(s))
           /\ Distinct(s) => Distinct(Tail(s)) /\ Head(s) \notin Elements(Tail(s))
  <1> DEFINE t == Tail(s)
  <1>1. /\ Head(s) \in S /\ t \in Seq(S) /\ Len(t) = Len(s) - 1
        /\ \A i \in 1 .. Len(t) : t[i] = s[i + 1]
    BY HeadTailProperties, Zenon
  <1>2. Head(s) = s[1]
    OBVIOUS
  <1>3. Len(s) \in Nat \ {0} /\ DOMAIN s = 1 .. Len(s) /\ DOMAIN t = 1 .. Len(s) - 1
    BY <1>1, EmptySeq, LenProperties, Zenon
  <1>4. Elements(s) = {s[1]} \cup Elements(t)
    <2>1. ASSUME NEW i \in DOMAIN s PROVE s[i] \in {s[1]} \cup Elements(t)
      <3>1. CASE i = 1
        BY <3>1, Zenon
      <3>2. CASE i # 1
        <4>1. i - 1 \in DOMAIN t /\ t[i - 1] = s[i]
          BY <1>1, <1>3, <3>2
        <4> QED
          BY <4>1, Zenon DEF Elements
      <3> QED
        BY <3>1, <3>2, Zenon
    <2>2. ASSUME NEW i \in DOMAIN t PROVE t[i] \in Elements(s)
      <3>1. i + 1 \in DOMAIN s /\ t[i] = s[i + 1]
        BY <1>1, <1>3
      <3> QED
        BY <3>1, Zenon DEF Elements
    <2>3. s[1] \in Elements(s)
      BY <1>3 DEF Elements
    <2> QED
      BY <2>1, <2>2, <2>3, Zenon DEF Elements
  <1>5. ASSUME Distinct(s) PROVE Distinct(t) /\ s[1] \notin Elements(t)
    <2>1. ASSUME NEW i \in DOMAIN t, NEW k \in DOMAIN t, t[i] = t[k] PROVE i = k
      BY <1>1, <1>3, <1>5, <2>1 DEF Distinct
    <2>2. ASSUME NEW i \in DOMAIN t PROVE t[i] # s[1]
      BY <1>1, <1>3, <1>5 DEF Distinct
    <2> QED
      BY <2>1, <2>2, Zenon DEF Distinct, Elements
  <1> QED
    BY <1>1, <1>2, <1>4, <1>5, Zenon

\* Where the elements of a sequence and of the one behind it are in both together.
LEMMA ConcatAt ==
    ASSUME NEW S, NEW a \in Seq(S), NEW b \in Seq(S)
    PROVE  /\ \A i \in DOMAIN (a \o b) :
                 \/ i \in DOMAIN a /\ (a \o b)[i] = a[i]
                 \/ i \notin DOMAIN a /\ i - Len(a) \in DOMAIN b /\ (a \o b)[i] = b[i - Len(a)]
           /\ \A i, k \in DOMAIN (a \o b) :
                 i < k /\ i \notin DOMAIN a => k \notin DOMAIN a /\ i - Len(a) < k - Len(a)
  <1>1. PICK n \in Nat, m \in Nat : n = Len(a) /\ m = Len(b)
    BY LenProperties, Zenon
  <1>2. DOMAIN a = 1 .. n /\ DOMAIN b = 1 .. m
    BY <1>1, LenProperties, Zenon
  <1>3. /\ a \o b \in Seq(S) /\ Len(a \o b) = n + m
        /\ \A i \in 1 .. n + m : (a \o b)[i] = IF i <= n THEN a[i] ELSE b[i - n]
    BY <1>1, ConcatProperties, Zenon
  <1>4. DOMAIN (a \o b) = 1 .. n + m
    BY <1>3, LenProperties, Zenon
  <1>5. /\ \A i \in 1 .. n + m : IF i <= n THEN i \in 1 .. n ELSE i \notin 1 .. n /\ i - n \in 1 .. m
        /\ \A i, k \in 1 .. n + m : i < k /\ i \notin 1 .. n => k \notin 1 .. n /\ i - n < k - n
    BY ONLY n \in Nat, m \in Nat
  <1> QED
    BY <1>1, <1>2, <1>3, <1>4, <1>5, Zenon

\* erase() of one position removes that element and keeps the others.
Erase(s, i) == SubSeq(s, 1, i - 1) \o SubSeq(s, i + 1, Len(s))

\* What is left at each place once one element was erased.
LEMMA EraseAt ==
    ASSUME NEW S, NEW s \in Seq(S), NEW i \in 1 .. Len(s)
    PROVE  /\ Erase(s, i) \in Seq(S)
           /\ Len(Erase(s, i)) = Len(s) - 1
           /\ \A k \in 1 .. Len(s) - 1 : Erase(s, i)[k] = IF k < i THEN s[k] ELSE s[k + 1]
  <1> DEFINE a == SubSeq(s, 1, i - 1)
             b == SubSeq(s, i + 1, Len(s))
  <1>0. Len(s) \in Nat /\ \A k \in 1 .. Len(s) : s[k] \in S
    BY LenProperties, ElementOfSeq, Zenon
  <1>1. a \in Seq(S) /\ Len(a) = i - 1 /\ \A k \in 1 .. i - 1 : a[k] = s[k]
    BY <1>0, SubSeqProperties
  <1>2. b \in Seq(S) /\ Len(b) = Len(s) - i /\ \A k \in 1 .. Len(s) - i : b[k] = s[i + k]
    BY <1>0, SubSeqProperties
  <1> HIDE DEF a, b
  <1>3. /\ a \o b \in Seq(S) /\ Len(a \o b) = Len(s) - 1
        /\ \A k \in 1 .. Len(s) - 1 : (a \o b)[k] = IF k <= i - 1 THEN a[k] ELSE b[k - (i - 1)]
    <2>1. /\ a \o b \in Seq(S) /\ Len(a \o b) = Len(a) + Len(b)
          /\ \A k \in 1 .. Len(a) + Len(b) : (a \o b)[k] = IF k <= Len(a) THEN a[k] ELSE b[k - Len(a)]
      BY <1>1, <1>2, ConcatProperties, Zenon
    <2>2. Len(a) + Len(b) = Len(s) - 1
      BY <1>0, <1>1, <1>2
    <2> QED
      BY <1>1, <2>1, <2>2, Zenon
  <1>4. ASSUME NEW k \in 1 .. Len(s) - 1 PROVE (a \o b)[k] = IF k < i THEN s[k] ELSE s[k + 1]
    <2>1. CASE k < i
      <3>1. k \in 1 .. i - 1 /\ k <= i - 1
        BY ONLY <1>0, <2>1, i \in 1 .. Len(s), k \in 1 .. Len(s) - 1
      <3> QED
        BY <1>1, <1>3, <2>1, <3>1, Zenon
    <2>2. CASE ~(k < i)
      <3>1. ~(k <= i - 1) /\ k - (i - 1) \in 1 .. Len(s) - i /\ i + (k - (i - 1)) = k + 1
        BY ONLY <1>0, <2>2, i \in 1 .. Len(s), k \in 1 .. Len(s) - 1
      <3>2. (a \o b)[k] = b[k - (i - 1)]
        BY <1>3, <3>1, Zenon
      <3> QED
        BY <1>2, <2>2, <3>1, <3>2, Zenon
    <2> QED
      BY <2>1, <2>2, Zenon
  <1> QED
    BY <1>3, <1>4, Zenon DEF Erase, a, b

\* Erasing from a line without repetitions removes that element and no other.
LEMMA EraseElements ==
    ASSUME NEW S, NEW s \in Seq(S), NEW i \in 1 .. Len(s), Distinct(s)
    PROVE  /\ Erase(s, i) \in Seq(S)
           /\ Elements(Erase(s, i)) = Elements(s) \ {s[i]}
           /\ Distinct(Erase(s, i))
  <1> DEFINE e == Erase(s, i)
  <1>1. /\ e \in Seq(S) /\ Len(e) = Len(s) - 1
        /\ \A k \in 1 .. Len(s) - 1 : e[k] = IF k < i THEN s[k] ELSE s[k + 1]
    BY EraseAt, Zenon
  <1> HIDE DEF e
  <1>2. Len(s) \in Nat /\ DOMAIN s = 1 .. Len(s) /\ DOMAIN e = 1 .. Len(s) - 1
    BY <1>1, LenProperties, Zenon
  <1>3. ASSUME NEW k \in DOMAIN e PROVE e[k] \in Elements(s) \ {s[i]}
    <2>1. CASE k < i
      <3>1. k \in DOMAIN s /\ k # i /\ e[k] = s[k]
        BY <1>1, <1>2, <2>1
      <3> QED
        BY <1>2, <3>1, Zenon DEF Elements, Distinct
    <2>2. CASE ~(k < i)
      <3>1. k + 1 \in DOMAIN s /\ k + 1 # i /\ e[k] = s[k + 1]
        BY <1>1, <1>2, <2>2
      <3> QED
        BY <1>2, <3>1, Zenon DEF Elements, Distinct
    <2> QED
      BY <2>1, <2>2, Zenon
  <1>4. ASSUME NEW k \in DOMAIN s, s[k] # s[i] PROVE s[k] \in Elements(e)
    <2>1. CASE k < i
      <3>1. k \in DOMAIN e /\ e[k] = s[k]
        BY <1>1, <1>2, <2>1
      <3> QED
        BY <3>1, Zenon DEF Elements
    <2>2. CASE k > i
      <3>1. k - 1 \in DOMAIN e /\ e[k - 1] = s[k]
        BY <1>1, <1>2, <2>2
      <3> QED
        BY <3>1, Zenon DEF Elements
    <2> QED
      BY <1>2, <1>4, <2>1, <2>2
  <1>5. ASSUME NEW k \in DOMAIN e, NEW m \in DOMAIN e, e[k] = e[m] PROVE k = m
    <2> DEFINE p(n) == IF n < i THEN n ELSE n + 1
    <2>1. ASSUME NEW n \in DOMAIN e PROVE p(n) \in DOMAIN s /\ e[n] = s[p(n)]
      BY ONLY <1>1, <1>2, <2>1, i \in 1 .. Len(s)
    <2>2. p(k) = p(m)
      BY <1>5, <2>1, Zenon DEF Distinct
    <2> QED
      BY <1>2, <2>2
  <1> QED
    BY <1>1, <1>3, <1>4, <1>5 DEF Elements, Distinct, e

-----------------------------------------------------------------------------
(* Types and flags *)

\* What the flags of the two threads say about each other.  shutdown() has
\* begun exactly when stopping_ is set, and from then on nothing waits, so the
\* worker cannot take a job and clear the abort flag again; busy_ says exactly
\* whether the worker has a job in hand.
Flags ==
    /\ shut # "no" <=> stopping
    /\ AbortStands
    /\ stopping => pending = <<>>
    /\ shut \in {"no", "down"} => dropped = <<>>
    /\ wpc = "exited" => stopping
    /\ shut = "down" => wpc = "exited"
    /\ busy <=> Running
    /\ Running => job \in Sessions

\* The constructor establishes the types and the flags.
LEMMA FlagsInit == QueueInit => QueueTypeOK /\ Flags
  BY EmptySeq, Zenon DEF QueueInit, QueueTypeOK, Flags, AbortStands, Running, WorkerPlaces

USE SessionIdAssumption

\* Every step of either thread keeps the types.
LEMMA TypeNext == QueueTypeOK /\ Flags /\ [QueueNext]_queueVars => QueueTypeOK'
  <1> SUFFICES ASSUME QueueTypeOK, Flags, [QueueNext]_queueVars PROVE QueueTypeOK'
    BY Zenon
  <1> USE DEF QueueTypeOK, WorkerPlaces, Result
  <1>1. ASSUME NEW j \in Sessions, TryEnqueue(j) PROVE QueueTypeOK'
    BY <1>1, AppendProperties DEF TryEnqueue, workerVars
  <1>2. ASSUME NEW j \in Sessions, CancelPending(j) PROVE QueueTypeOK'
    <2>1. PICK i \in DOMAIN pending : pending' = Erase(pending, i)
      BY <1>2, Zenon DEF CancelPending, Erase
    <2>2. i \in 1 .. Len(pending)
      BY <2>1, LenProperties, Zenon
    <2>3. pending' \in Seq(Sessions)
      BY <2>1, <2>2, EraseAt, Zenon
    <2> QED
      BY <1>2, <2>3 DEF CancelPending, workerVars
  <1>3. ASSUME DrainStarted PROVE QueueTypeOK'
    BY <1>3, EmptySeq DEF DrainStarted, workerVars, ownerVars
  <1>4. ASSUME DrainCompleted PROVE QueueTypeOK'
    BY <1>4, EmptySeq DEF DrainCompleted, workerVars
  <1>5. ASSUME NEW present \in BOOLEAN, SetActivityCallback(present) PROVE QueueTypeOK'
    BY <1>5 DEF SetActivityCallback, workerVars, ownerVars
  <1>6. ASSUME ShutdownLocked PROVE QueueTypeOK'
    BY <1>6, EmptySeq, Zenon DEF ShutdownLocked, workerVars
  <1>7. ASSUME ShutdownAbort PROVE QueueTypeOK'
    BY <1>7, Zenon DEF ShutdownAbort, sharedVars, workerVars
  <1>8. ASSUME ShutdownJoin PROVE QueueTypeOK'
    BY <1>8, EmptySeq, Zenon DEF ShutdownJoin, sharedVars, workerVars
  <1>9. ASSUME RunExit PROVE QueueTypeOK'
    BY <1>9, Zenon DEF RunExit, sharedVars, ownerVars
  <1>10. ASSUME RunTake PROVE QueueTypeOK'
    BY <1>10, HeadTailProperties, AppendProperties, Zenon DEF RunTake, ownerVars
  <1>11. ASSUME NotifyCopy PROVE QueueTypeOK'
    BY <1>11, Zenon DEF NotifyCopy, sharedVars, ownerVars
  <1>12. ASSUME NotifyCall PROVE QueueTypeOK'
    BY <1>12, Zenon DEF NotifyCall, sharedVars, ownerVars
  <1>13. ASSUME NEW ok \in BOOLEAN, Transcribed(ok) PROVE QueueTypeOK'
    BY <1>13, Zenon DEF Transcribed, sharedVars, ownerVars
  <1>14. ASSUME StoreResult PROVE QueueTypeOK'
    <2>1. job \in Sessions
      BY <1>14, Zenon DEF StoreResult, Flags, Running
    <2> QED
      BY <1>14, <2>1, AppendProperties, ZenonT(30) DEF StoreResult, ownerVars
  <1>15. CASE UNCHANGED queueVars
    BY <1>15 DEF queueVars, sharedVars, workerVars, ownerVars
  <1> QED
    BY <1>1, <1>2, <1>3, <1>4, <1>5, <1>6, <1>7, <1>8, <1>9, <1>10, <1>11, <1>12, <1>13, <1>14, <1>15, Zenon
       DEF QueueNext, Owner, Worker

\* Every step of either thread keeps the flags in agreement: one case per action.
LEMMA FlagsNext == QueueTypeOK /\ Flags /\ [QueueNext]_queueVars => Flags'
  <1> SUFFICES ASSUME QueueTypeOK, Flags, [QueueNext]_queueVars PROVE Flags'
    BY Zenon
  <1> USE DEF Flags, AbortStands, Running, OwnerFree, HasCapacity
  <1>1. ASSUME NEW j \in Sessions, TryEnqueue(j) PROVE Flags'
    BY <1>1, Zenon DEF TryEnqueue, workerVars, QueueTypeOK
  <1>2. ASSUME NEW j \in Sessions, CancelPending(j) PROVE Flags'
    <2>1. pending # <<>>
      BY <1>2 DEF CancelPending
    <2> QED
      BY <1>2, <2>1, Zenon DEF CancelPending, workerVars, QueueTypeOK
  <1>3. ASSUME DrainStarted \/ DrainCompleted PROVE Flags'
    BY <1>3 DEF DrainStarted, DrainCompleted, workerVars, ownerVars
  <1>4. ASSUME NEW present \in BOOLEAN, SetActivityCallback(present) PROVE Flags'
    BY <1>4, Zenon DEF SetActivityCallback, workerVars, ownerVars
  <1>5. ASSUME ShutdownLocked PROVE Flags'
    BY <1>5, Zenon DEF ShutdownLocked, workerVars, QueueTypeOK
  <1>6. ASSUME ShutdownAbort PROVE Flags'
    BY <1>6, Zenon DEF ShutdownAbort, sharedVars, workerVars, QueueTypeOK
  <1>7. ASSUME ShutdownJoin PROVE Flags'
    BY <1>7, Zenon DEF ShutdownJoin, sharedVars, workerVars, QueueTypeOK
  <1>8. ASSUME RunExit PROVE Flags'
    BY <1>8, Zenon DEF RunExit, sharedVars, ownerVars, QueueTypeOK
  <1>9. ASSUME RunTake PROVE Flags'
    <2>1. Head(pending) \in Sessions
      BY <1>9, HeadTailProperties, Zenon DEF RunTake, QueueTypeOK
    <2>2. shut = "no"
      BY <1>9, Zenon DEF RunTake, QueueTypeOK
    <2> QED
      BY <1>9, <2>1, <2>2, Zenon DEF RunTake, ownerVars, QueueTypeOK
  <1>10. ASSUME NotifyCopy \/ NotifyCall PROVE Flags'
    BY <1>10 DEF NotifyCopy, NotifyCall, sharedVars, ownerVars, QueueTypeOK
  <1>11. ASSUME NEW ok \in BOOLEAN, Transcribed(ok) PROVE Flags'
    BY <1>11, Zenon DEF Transcribed, sharedVars, ownerVars, QueueTypeOK
  <1>12. ASSUME StoreResult PROVE Flags'
    BY <1>12, Zenon DEF StoreResult, ownerVars, QueueTypeOK
  <1>13. CASE UNCHANGED queueVars
    BY <1>13, Zenon DEF queueVars, sharedVars, workerVars, ownerVars
  <1> QED
    BY <1>1, <1>2, <1>3, <1>4, <1>5, <1>6, <1>7, <1>8, <1>9, <1>10, <1>11, <1>12, <1>13, Zenon
       DEF QueueNext, Owner, Worker

\* Every variable of the queue keeps its type, and the flags agree, in every
\* reachable state.
THEOREM QueueTypesAndFlags == QueueSpec => [](QueueTypeOK /\ Flags)
  <1>1. QueueInit => QueueTypeOK /\ Flags
    BY FlagsInit, Zenon
  <1>2. QueueTypeOK /\ Flags /\ [QueueNext]_queueVars => (QueueTypeOK /\ Flags)'
    BY TypeNext, FlagsNext, Zenon
  <1> QED
    BY <1>1, <1>2, PTL DEF QueueSpec

\* The abort that shutdown() requests is never erased by run(), whatever job was
\* on its way in.
THEOREM AbortStandsAlways == QueueSpec => []AbortStands
  <1>1. Flags => AbortStands
    BY Zenon DEF Flags
  <1> QED
    BY <1>1, QueueTypesAndFlags, PTL

\* outstanding_count() is zero only while the worker is outside transcribe().
THEOREM IdleMeansBackendFreeAlways == QueueSpec => []IdleMeansBackendFree
  <1>1. QueueTypeOK /\ Flags => IdleMeansBackendFree
    BY LenProperties DEF Flags, QueueTypeOK, IdleMeansBackendFree, Outstanding
  <1> QED
    BY <1>1, QueueTypesAndFlags, PTL

-----------------------------------------------------------------------------
(* No job is lost, duplicated or run twice *)

\* Storing a result adds its job, and no other, to the finished ones.
LEMMA StoreFinishes ==
    ASSUME QueueTypeOK, Flags, StoreResult
    PROVE  /\ Finished' = Finished \cup {job}
           /\ /\ \A i, k \in DOMAIN completed : completed[i].id = completed[k].id => i = k
              /\ job \notin Finished
              => \A i, k \in DOMAIN completed' : completed'[i].id = completed'[k].id => i = k
  <1> DEFINE r == [id |-> job, ok |-> result]
  <1>1. job \in Sessions /\ r \in Result
    BY Zenon DEF StoreResult, Flags, Running, QueueTypeOK, Result
  <1>2. completed' = Append(completed, r) /\ completed \in Seq(Result)
    BY Zenon DEF StoreResult, QueueTypeOK
  <1> HIDE DEF r
  <1>3. /\ Len(completed) \in Nat /\ DOMAIN completed = 1 .. Len(completed)
        /\ DOMAIN completed' = 1 .. Len(completed) + 1
        /\ \A i \in 1 .. Len(completed) : completed'[i] = completed[i]
        /\ completed'[Len(completed) + 1] = r
    BY <1>1, <1>2, AppendProperties, LenProperties
  <1>4. r.id = job
    BY Zenon DEF r
  <1> QED
    BY <1>3, <1>4 DEF Finished

\* The accounts, with sequences reduced to their elements.
Accounts(Q, W, H, F, D) ==
    /\ Q = W \cup H \cup F \cup D
    /\ W \cap H = {} /\ W \cap F = {} /\ W \cap D = {}
    /\ H \cap F = {} /\ H \cap D = {} /\ F \cap D = {}

Queued == {j \in Sessions : told[j] = "queued"}

Orders ==
    /\ Distinct(pending) /\ Distinct(dropped)
    /\ \A i, k \in DOMAIN completed : completed[i].id = completed[k].id => i = k

\* The accounts in the form the steps below use.
LEMMA AccountsForm ==
    JobsAccounted <=> Accounts(Queued, Waiting, InHand, Finished, Doomed) /\ Orders
  BY Zenon DEF JobsAccounted, Accounts, Queued, Orders, Distinct

\* How each action that moves jobs changes the sets the accounts are made of.
LEMMA EnqueueMoves ==
    ASSUME QueueTypeOK, JobsAccounted, NEW j \in Sessions, told[j] = "nothing", TryEnqueue(j)
    PROVE  /\ j \notin Queued /\ Queued' = Queued \cup {j}
           /\ Waiting' = Waiting \cup {j}
           /\ UNCHANGED <<InHand, Finished, Doomed>>
           /\ Orders'
  <1>1. j \notin Queued /\ j \notin Waiting /\ Distinct(pending) /\ pending \in Seq(Sessions)
    BY AccountsForm, Zenon DEF QueueTypeOK, Queued, Accounts, Orders
  <1>2. Waiting' = Waiting \cup {j} /\ Distinct(pending')
    BY <1>1, AppendElements DEF TryEnqueue, Waiting, Elements
  <1>3. Queued' = Queued \cup {j}
    BY Zenon DEF TryEnqueue, Queued, QueueTypeOK
  <1>4. UNCHANGED <<InHand, Finished, Doomed, completed, dropped>>
    BY Zenon DEF TryEnqueue, workerVars, InHand, Running, Finished, Doomed
  <1> QED
    BY <1>1, <1>2, <1>3, <1>4, AccountsForm, Zenon DEF Orders, Distinct

\* cancel_pending() takes its job from the waiting ones and tells the owner.
LEMMA CancelMoves ==
    ASSUME QueueTypeOK, JobsAccounted, NEW j \in Sessions, CancelPending(j)
    PROVE  /\ j \in Waiting /\ Queued' = Queued \ {j}
           /\ Waiting' = Waiting \ {j}
           /\ UNCHANGED <<InHand, Finished, Doomed>>
           /\ Orders'
  <1>1. PICK i \in DOMAIN pending : pending[i] = j /\ pending' = Erase(pending, i)
    BY Zenon DEF CancelPending, Erase
  <1>2. i \in 1 .. Len(pending) /\ pending \in Seq(Sessions) /\ Distinct(pending)
    BY <1>1, LenProperties, AccountsForm, Zenon DEF QueueTypeOK, Orders
  <1>3. Waiting' = Waiting \ {j} /\ Distinct(pending') /\ j \in Waiting
    BY <1>1, <1>2, EraseElements, Zenon DEF Waiting, Elements
  <1>4. Queued' = Queued \ {j}
    BY Zenon DEF CancelPending, Queued, QueueTypeOK
  <1>5. UNCHANGED <<InHand, Finished, Doomed, completed, dropped>>
    BY Zenon DEF CancelPending, workerVars, InHand, Running, Finished, Doomed
  <1> QED
    BY <1>3, <1>4, <1>5, AccountsForm, Zenon DEF Orders, Distinct

\* drain_completed() tells the owner of the finished jobs and empties them.
LEMMA DrainMoves ==
    ASSUME JobsAccounted, DrainCompleted
    PROVE  /\ Queued' = Queued \ Finished
           /\ Finished' = {}
           /\ UNCHANGED <<Waiting, InHand, Doomed>>
           /\ Orders'
  <1>1. Finished' = {} /\ DOMAIN completed' = {}
    BY DEF DrainCompleted, Finished
  <1>2. Queued' = Queued \ Finished
    BY DEF DrainCompleted, Queued, Finished
  <1>3. UNCHANGED <<Waiting, InHand, Doomed, pending, dropped>>
    BY Zenon DEF DrainCompleted, workerVars, InHand, Running, Waiting, Doomed
  <1> QED
    BY <1>1, <1>2, <1>3, AccountsForm, Zenon DEF Orders, Distinct

\* The locked part of shutdown() makes every waiting job a dropped one.
LEMMA LockMoves ==
    ASSUME Flags, JobsAccounted, ShutdownLocked
    PROVE  /\ Doomed = {} /\ Doomed' = Waiting /\ Waiting' = {}
           /\ UNCHANGED <<Queued, InHand, Finished>>
           /\ Orders'
  <1>1. dropped = <<>> /\ dropped' = pending /\ pending' = <<>>
    BY Zenon DEF ShutdownLocked, Flags
  <1>2. Doomed = {} /\ Doomed' = Waiting /\ Waiting' = {}
    BY <1>1 DEF Doomed, Waiting
  <1>3. UNCHANGED <<Queued, InHand, Finished, completed>>
    BY Zenon DEF ShutdownLocked, workerVars, Queued, InHand, Running, Finished
  <1> QED
    BY <1>1, <1>2, <1>3, AccountsForm, Zenon DEF Orders, Distinct

\* The end of shutdown() tells the owner of the dropped jobs.
LEMMA JoinMoves ==
    ASSUME JobsAccounted, ShutdownJoin
    PROVE  /\ Queued' = Queued \ Doomed
           /\ Doomed' = {}
           /\ UNCHANGED <<Waiting, InHand, Finished>>
           /\ Orders'
  <1>1. Doomed' = {} /\ dropped' = <<>>
    BY DEF ShutdownJoin, Doomed
  <1>2. Queued' = Queued \ Doomed
    BY Zenon DEF ShutdownJoin, Queued, Doomed
  <1>3. UNCHANGED <<Waiting, InHand, Finished, pending, completed>>
    BY Zenon DEF ShutdownJoin, sharedVars, workerVars, Waiting, InHand, Running, Finished
  <1> QED
    BY <1>1, <1>2, <1>3, AccountsForm DEF Orders, Distinct

\* run() moves the oldest waiting job into its hands.
LEMMA TakeMoves ==
    ASSUME QueueTypeOK, JobsAccounted, RunTake
    PROVE  /\ Waiting = {Head(pending)} \cup Waiting' /\ Head(pending) \notin Waiting'
           /\ InHand = {} /\ InHand' = {Head(pending)}
           /\ UNCHANGED <<Queued, Finished, Doomed>>
           /\ Orders'
  <1>1. pending \in Seq(Sessions) /\ pending # <<>> /\ Distinct(pending)
    BY AccountsForm, Zenon DEF RunTake, QueueTypeOK, Orders
  <1>2. /\ Elements(pending) = {Head(pending)} \cup Elements(Tail(pending))
        /\ Distinct(Tail(pending)) /\ Head(pending) \notin Elements(Tail(pending))
    BY <1>1, TakeFront, Zenon
  <1>3. Waiting = Elements(pending) /\ Waiting' = Elements(pending') /\ pending' = Tail(pending)
    BY Zenon DEF Waiting, Elements, RunTake
  <1>4. InHand = {} /\ InHand' = {Head(pending)}
    BY Zenon DEF RunTake, InHand, Running
  <1>5. UNCHANGED <<Queued, Finished, Doomed, completed, dropped>>
    BY Zenon DEF RunTake, ownerVars, Queued, Finished, Doomed
  <1> QED
    BY <1>2, <1>3, <1>4, <1>5, AccountsForm, Zenon DEF Orders, Distinct

\* run() moves the job in its hands to the finished ones.
LEMMA StoreMoves ==
    ASSUME QueueTypeOK, Flags, JobsAccounted, StoreResult
    PROVE  /\ InHand = {job} /\ InHand' = {}
           /\ Finished' = Finished \cup {job}
           /\ UNCHANGED <<Queued, Waiting, Doomed>>
           /\ Orders'
  <1>1. InHand = {job} /\ InHand' = {}
    BY Zenon DEF StoreResult, InHand, Running
  <1>2. UNCHANGED <<Queued, Waiting, Doomed, pending, dropped>>
    BY Zenon DEF StoreResult, ownerVars, Queued, Waiting, Doomed
  <1>3. job \notin Finished
    BY <1>1, AccountsForm, Zenon DEF Accounts
  <1> QED
    BY <1>1, <1>2, <1>3, AccountsForm, StoreFinishes, Zenon DEF Orders, Distinct

\* The other actions move no job.
Still == \/ DrainStarted \/ ShutdownAbort \/ \E present \in BOOLEAN : SetActivityCallback(present)
         \/ RunExit \/ NotifyCopy \/ NotifyCall \/ \E ok \in BOOLEAN : Transcribed(ok)
         \/ UNCHANGED queueVars

\* The other steps move no job.
LEMMA StillMoves ==
    ASSUME Still
    PROVE  UNCHANGED <<pending, completed, dropped, told, stopping, InHand>>
  BY Zenon DEF Still, DrainStarted, ShutdownAbort, SetActivityCallback, RunExit, NotifyCopy, NotifyCall,
         Transcribed, queueVars, sharedVars, workerVars, ownerVars, InHand, Running

\* The accounts are preserved by every step of either thread.
LEMMA AccountsNext ==
    QueueTypeOK /\ Flags /\ JobsAccounted /\ [QueueNext]_queueVars => JobsAccounted'
  <1> SUFFICES ASSUME QueueTypeOK, Flags, JobsAccounted, [QueueNext]_queueVars
               PROVE  Accounts(Queued, Waiting, InHand, Finished, Doomed)' /\ Orders'
    BY AccountsForm, PTL
  <1>0. Accounts(Queued, Waiting, InHand, Finished, Doomed) /\ Orders
    BY AccountsForm, Zenon
  <1> USE DEF Accounts
  <1>1. CASE \E j \in Sessions : told[j] = "nothing" /\ TryEnqueue(j)
    BY <1>0, <1>1, EnqueueMoves, ZenonT(30)
  <1>2. CASE \E j \in Sessions : CancelPending(j)
    BY <1>0, <1>2, CancelMoves, Zenon
  <1>3. CASE DrainCompleted
    BY <1>0, <1>3, DrainMoves, Zenon
  <1>4. CASE ShutdownLocked
    BY <1>0, <1>4, LockMoves, Zenon
  <1>5. CASE ShutdownJoin
    BY <1>0, <1>5, JoinMoves, Zenon
  <1>6. CASE RunTake
    BY <1>0, <1>6, TakeMoves, Zenon
  <1>7. CASE StoreResult
    BY <1>0, <1>7, StoreMoves, Zenon
  <1>8. CASE Still
    BY <1>0, <1>8, StillMoves, SMTT(20) DEF Orders, Distinct, Queued, Waiting, Finished, Doomed
  <1> QED
    BY <1>1, <1>2, <1>3, <1>4, <1>5, <1>6, <1>7, <1>8, Zenon DEF QueueNext, Owner, Worker, Still

\* No job is lost, duplicated or run twice, for any capacity and any number of
\* sessions.
THEOREM JobsAccountedAlways == QueueSpec => []JobsAccounted
  <1>1. QueueInit => JobsAccounted
    BY DEF QueueInit, JobsAccounted, Waiting, Finished, Doomed, InHand, Running
  <1>2. QueueTypeOK /\ Flags /\ JobsAccounted /\ [QueueNext]_queueVars => JobsAccounted'
    BY AccountsNext, Zenon
  <1> QED
    BY <1>1, <1>2, QueueTypesAndFlags, PTL DEF QueueSpec

\* Once shutdown() has returned the worker is gone, and every job the owner has
\* no outcome for left a result to be drained.
THEOREM ShutdownIsFinalAlways == QueueSpec => []ShutdownIsFinal
  <1>1. Flags /\ JobsAccounted => ShutdownIsFinal
    <2> SUFFICES ASSUME Flags, JobsAccounted, shut = "down"
                 PROVE  wpc = "exited" /\ {j \in Sessions : told[j] = "queued"} \subseteq Finished
      BY Zenon DEF ShutdownIsFinal
    <2>1. wpc = "exited" /\ pending = <<>> /\ dropped = <<>>
      BY Zenon DEF Flags
    <2>2. Waiting = {} /\ Doomed = {} /\ InHand = {}
      BY <2>1 DEF Waiting, Doomed, InHand, Running
    <2> QED
      BY <2>1, <2>2, Zenon DEF JobsAccounted
  <1> QED
    BY <1>1, QueueTypesAndFlags, JobsAccountedAlways, PTL

\* Only the owner's own try_enqueue() makes outstanding_count() positive again.
THEOREM IdleEndsByOwnerAlways == QueueSpec => IdleEndsByOwner
  <1> DEFINE Step == Outstanding = 0 => Outstanding' = 0 \/ \E j \in Sessions : TryEnqueue(j)
  <1>1. QueueTypeOK /\ [QueueNext]_queueVars => [Step]_queueVars
    <2> SUFFICES ASSUME QueueTypeOK, QueueNext, Outstanding = 0, ~ \E j \in Sessions : TryEnqueue(j)
                 PROVE  Outstanding' = 0
      BY Zenon
    <2>1. pending = <<>> /\ busy = FALSE
      BY EmptySeq, LenProperties DEF Outstanding, QueueTypeOK
    <2>2. pending' = <<>> /\ busy' = FALSE
      <3>1. ~RunTake /\ \A j \in Sessions : ~CancelPending(j)
        BY <2>1 DEF RunTake, CancelPending
      <3>2. CASE DrainStarted \/ DrainCompleted \/ \E present \in BOOLEAN : SetActivityCallback(present)
        BY <2>1, <3>2, Zenon DEF DrainStarted, DrainCompleted, SetActivityCallback
      <3>3. CASE ShutdownLocked \/ ShutdownAbort \/ ShutdownJoin
        BY <2>1, <3>3, Zenon DEF ShutdownLocked, ShutdownAbort, ShutdownJoin, sharedVars
      <3>4. CASE RunExit \/ NotifyCopy \/ NotifyCall \/ StoreResult \/ \E ok \in BOOLEAN : Transcribed(ok)
        BY <2>1, <3>4, Zenon DEF RunExit, NotifyCopy, NotifyCall, StoreResult, Transcribed, sharedVars
      <3> QED
        BY <3>1, <3>2, <3>3, <3>4, Zenon DEF QueueNext, Owner, Worker
    <2> QED
      BY <2>2, EmptySeq DEF Outstanding
  <1> QED
    BY <1>1, QueueTypesAndFlags, PTL DEF QueueSpec, IdleEndsByOwner

-----------------------------------------------------------------------------
(* The queue implements the ledger *)

\* Every step of the queue is a step of the ledger or changes nothing in it.
LEMMA LedgerStep ==
    QueueTypeOK /\ Flags /\ JobsAccounted /\ [QueueNext]_queueVars
        => [Ledger!LedgerNext]_(Ledger!ledgerVars)
  <1> SUFFICES ASSUME QueueTypeOK, Flags, JobsAccounted, [QueueNext]_queueVars
               PROVE  [Ledger!LedgerNext]_(Ledger!ledgerVars)
    BY Zenon
  <1> DEFINE status == [j \in Sessions |-> LedgerStatus(j)]
  <1>0. Accounts(Queued, Waiting, InHand, Finished, Doomed)
    BY AccountsForm, Zenon
  <1>t. told \in [Sessions -> {"nothing", "queued", "cancelled", "dropped", "ok", "error"}]
    BY Zenon DEF QueueTypeOK
  <1>q. \A j \in Sessions : j \in Queued <=> told[j] = "queued"
    BY Zenon DEF Queued
  <1>1. ASSUME NEW j \in Sessions, told[j] = "nothing", TryEnqueue(j) PROVE Ledger!Accept(j)
    <2>1. ASSUME NEW k \in Sessions
          PROVE  LedgerStatus(k)' = IF k = j THEN "waiting" ELSE LedgerStatus(k)
      <3>1. told' = [told EXCEPT ![j] = "queued"]
        BY <1>1, Zenon DEF TryEnqueue
      <3> QED
        BY <1>1, <1>t, <3>1, EnqueueMoves, Zenon DEF LedgerStatus
    <2>2. status[j] = "new"
      BY <1>1, Zenon DEF LedgerStatus
    <2>3. status' = [status EXCEPT ![j] = "waiting"]
      BY <2>1, Zenon
    <2> QED
      BY <1>1, <2>2, <2>3, Zenon DEF Ledger!Accept, TryEnqueue, HasCapacity
  <1>2. ASSUME NEW j \in Sessions, CancelPending(j)
        PROVE  \E i \in DOMAIN pending : Ledger!Withdraw(i)
    <2>1. PICK i \in DOMAIN pending : pending[i] = j /\ pending' = Erase(pending, i)
      BY <1>2, Zenon DEF CancelPending, Erase
    <2>2. told' = [told EXCEPT ![j] = "cancelled"] /\ stopping' = stopping
      BY <1>2, Zenon DEF CancelPending
    <2>3. ASSUME NEW k \in Sessions
          PROVE  LedgerStatus(k)' = IF k = j THEN "cancelled" ELSE LedgerStatus(k)
      BY <1>2, <1>t, <2>2, CancelMoves, Zenon DEF LedgerStatus
    <2>4. status' = [status EXCEPT ![pending[i]] = "cancelled"]
      BY <2>1, <2>3, Zenon
    <2> QED
      BY <2>1, <2>2, <2>4, Zenon DEF Ledger!Withdraw, Erase
  <1>3. ASSUME DrainCompleted PROVE Ledger!Report
    <2> DEFINE how == [j \in Sessions |-> IF told'[j] = "ok" THEN "ok" ELSE "error"]
    <2>1. ASSUME NEW k \in Sessions PROVE told'[k] = IF k \in Finished THEN how[k] ELSE told[k]
      BY <1>3 DEF DrainCompleted, Finished
    <2>2. ASSUME NEW k \in Sessions PROVE LedgerStatus(k) = "finished" <=> k \in Finished
      BY <1>0, <1>q, <1>t, Zenon DEF LedgerStatus, Accounts
    <2>3. ASSUME NEW k \in Sessions
          PROVE  LedgerStatus(k)' = IF LedgerStatus(k) = "finished" THEN how[k] ELSE LedgerStatus(k)
      <3>1. CASE k \in Finished
        <4>1. told'[k] = how[k] /\ how[k] \in {"ok", "error"}
          BY <2>1, <3>1, Zenon
        <4> QED
          BY <2>2, <3>1, <4>1, Zenon DEF LedgerStatus
      <3>2. CASE k \notin Finished
        <4>1. told'[k] = told[k]
          BY <2>1, <3>2, Zenon
        <4> QED
          BY <1>3, <2>2, <3>2, <4>1, DrainMoves, Zenon DEF LedgerStatus
      <3> QED
        BY <3>1, <3>2, Zenon
    <2>4. status' = [k \in Sessions |-> IF status[k] = "finished" THEN how[k] ELSE status[k]]
      BY <2>3, Zenon
    <2>5. pending' = pending /\ stopping' = stopping /\ how \in [Sessions -> {"ok", "error"}]
      BY <1>3, Zenon DEF DrainCompleted
    <2> QED
      BY <2>4, <2>5, Zenon DEF Ledger!Report
  <1>4. ASSUME ShutdownLocked PROVE Ledger!Close
    <2>1. told' = told /\ stopping' = TRUE /\ pending' = <<>>
      BY <1>4, Zenon DEF ShutdownLocked
    <2>2. ASSUME NEW k \in Sessions
          PROVE  LedgerStatus(k)' = IF LedgerStatus(k) = "waiting" THEN "dropped" ELSE LedgerStatus(k)
      BY <1>0, <1>4, <1>q, <1>t, <2>1, LockMoves, Zenon DEF LedgerStatus, Accounts
    <2>3. status' = [k \in Sessions |-> IF status[k] = "waiting" THEN "dropped" ELSE status[k]]
      BY <2>2, Zenon
    <2> QED
      BY <2>1, <2>3, Zenon DEF Ledger!Close
  <1>5. ASSUME ShutdownJoin PROVE UNCHANGED <<pending, stopping, status>>
    <2>1. ASSUME NEW k \in Sessions PROVE told'[k] = IF k \in Doomed THEN "dropped" ELSE told[k]
      BY <1>5, Zenon DEF ShutdownJoin, Doomed
    <2>2. ASSUME NEW k \in Sessions PROVE LedgerStatus(k)' = LedgerStatus(k)
      BY <1>0, <1>5, <1>q, <2>1, JoinMoves, Zenon DEF LedgerStatus, Accounts
    <2> QED
      BY <1>5, <2>2, Zenon DEF ShutdownJoin, sharedVars
  <1>6. ASSUME RunTake PROVE Ledger!Begin
    <2>1. ~stopping /\ pending # <<>> /\ pending' = Tail(pending) /\ UNCHANGED <<stopping, told>>
      BY <1>6, Zenon DEF RunTake, ownerVars
    <2>2. ASSUME NEW k \in Sessions
          PROVE  /\ LedgerStatus(k) # "running"
                 /\ LedgerStatus(k)' = IF k = Head(pending) THEN "running" ELSE LedgerStatus(k)
      BY <1>0, <1>6, <1>q, <1>t, <2>1, TakeMoves, Zenon DEF LedgerStatus, Accounts
    <2>3. status' = [status EXCEPT ![Head(pending)] = "running"]
      BY <2>2, Zenon
    <2> QED
      BY <2>1, <2>2, <2>3, Zenon DEF Ledger!Begin
  <1>7. ASSUME StoreResult PROVE job \in Sessions /\ Ledger!Finish(job)
    <2>1. job \in Sessions /\ UNCHANGED <<pending, stopping, told>>
      BY <1>7, Zenon DEF StoreResult, ownerVars, Flags, Running
    <2>2. ASSUME NEW k \in Sessions
          PROVE  /\ k = job => LedgerStatus(k) = "running"
                 /\ LedgerStatus(k)' = IF k = job THEN "finished" ELSE LedgerStatus(k)
      BY <1>0, <1>7, <1>q, <2>1, StoreMoves, Zenon DEF LedgerStatus, Accounts
    <2>3. status' = [status EXCEPT ![job] = "finished"]
      BY <2>2, Zenon
    <2> QED
      BY <2>1, <2>2, <2>3, Zenon DEF Ledger!Finish
  <1>8. ASSUME Still PROVE UNCHANGED <<pending, stopping, status>>
    <2>1. UNCHANGED <<told, Waiting, Doomed, InHand>>
      BY <1>8, StillMoves, Zenon DEF Waiting, Doomed
    <2> QED
      BY <1>8, <2>1, StillMoves, Zenon DEF LedgerStatus
  <1>9. QueueNext \/ UNCHANGED queueVars
    BY Zenon
  <1> HIDE DEF status
  <1>10. CASE ShutdownJoin \/ Still
    BY <1>5, <1>8, <1>10 DEF Ledger!ledgerVars, status
  <1>11. CASE ~(ShutdownJoin \/ Still)
    BY <1>1, <1>2, <1>3, <1>4, <1>6, <1>7, <1>9, <1>11, Zenon DEF Ledger!LedgerNext, QueueNext, Owner, Worker, Still
  <1> QED
    BY <1>10, <1>11, Zenon

\* The queue implements the abstract ledger for any capacity and any number of
\* sessions.
THEOREM QueueImplementsLedger == QueueSpec => ImplementsLedger
  <1>1. QueueInit => Ledger!LedgerInit
    BY Zenon DEF QueueInit, Ledger!LedgerInit, LedgerStatus
  <1> QED
    BY <1>1, LedgerStep, QueueTypesAndFlags, JobsAccountedAlways, PTL
       DEF QueueSpec, ImplementsLedger, Ledger!LedgerSpec

-----------------------------------------------------------------------------
(* The capture device and the recording manager *)

\* OneDevice by cases.
DeviceCount == (initialized => objects = 1) /\ (~initialized => objects = 0)

\* What the fields of the device say of each other: whatever streams, runs or is
\* being started is allocated.
DeviceInv ==
    /\ DeviceTypeOK
    /\ DeviceCount
    /\ running \/ inStart \/ hw # "none" => initialized

\* The count that the invariant carries is the property that the runs check.
LEMMA CountIsOneDevice == DeviceCount <=> OneDevice
BY Zenon DEF DeviceCount, OneDevice

\* No device is open before the first start().
LEMMA DeviceStart == DeviceInit => DeviceInv
<1> SUFFICES ASSUME DeviceInit PROVE DeviceInv
    BY Zenon
<1>1. opens \in 0 .. MaxOpens /\ frames \in 0 .. MaxBuffers /\ objects \in Nat
    BY DeviceAssumption, SMTT(20) DEF DeviceAssumption, DeviceInit
<1>2. QED
    BY <1>1, Zenon DEF DeviceInit, DeviceInv, DeviceTypeOK, DeviceCount, Hardware

\* Every step of the controlling thread and of miniaudio's thread keeps it.
LEMMA DeviceStep == DeviceInv /\ [DeviceNext]_deviceVars => DeviceInv'
<1> SUFFICES ASSUME DeviceInv, [DeviceNext]_deviceVars PROVE DeviceInv'
    BY Zenon
<1> USE DEF DeviceInv, DeviceTypeOK, DeviceCount, Hardware
<1>0. Leftover = 0
    BY SMT DEF Leftover
<1>1. CASE StartFails
    BY <1>0, <1>1, Zenon DEF StartFails
<1>2. CASE StartStreams
    <2>1. objects' = 1 /\ objects' \in Nat /\ opens' \in 0 .. MaxOpens /\ frames' \in 0 .. MaxBuffers
        BY <1>0, <1>2, DeviceAssumption, SMT DEF StartStreams, DeviceAssumption
    <2>2. QED
        BY <1>2, <2>1, Zenon DEF StartStreams
<1>3. CASE StartReturns
    BY <1>3, Zenon DEF StartReturns
<1>4. CASE StopDevice
    <2>1. initialized => objects' = 0 /\ objects' \in Nat
        BY <1>4, SMT DEF StopDevice
    <2>2. QED
        BY <1>4, <2>1, Zenon DEF StopDevice
<1>5. CASE ForwardSamples
    <2>1. frames' \in 0 .. MaxBuffers
        BY <1>5, DeviceAssumption, SMT DEF ForwardSamples, DeviceAssumption
    <2>2. QED
        BY <1>5, <2>1, Zenon DEF ForwardSamples
<1>6. CASE HardwareGone
    BY <1>6, Zenon DEF HardwareGone
<1>7. CASE HandleNotification
    BY <1>7, Zenon DEF HandleNotification
<1>8. CASE UNCHANGED deviceVars
    BY <1>8, Zenon DEF deviceVars
<1>9. QED
    BY <1>1, <1>2, <1>3, <1>4, <1>5, <1>6, <1>7, <1>8, Zenon DEF DeviceNext

\* However start(), stop(), failed openings and unplugs follow each other, one
\* device is open while Impl::initialized is set and none otherwise.
THEOREM OneDeviceAlways == DeviceSpec => []OneDevice
<1>1. DeviceInv => OneDevice
    BY CountIsOneDevice, Zenon DEF DeviceInv
<1>2. QED
    BY <1>1, DeviceStart, DeviceStep, PTL DEF DeviceSpec

-----------------------------------------------------------------------------
(* The recording manager *)

\* What the buffer holds while the device is open.
Delivered == [n \in 1 .. frames |-> <<opens, n>>]

\* A device is open only for a recording that is being started or made, and never
\* for both; AudioIsOwnAndWhole, by cases, is inductive with that.
RecordingInv ==
    /\ DeviceInv
    /\ recording \in Sessions \cup {NoSession}
    /\ lost \in BOOLEAN /\ inStop \in BOOLEAN
    /\ opening \in Sessions \cup {NoSession}
    /\ inStart => opening # NoSession
    /\ initialized => inStart \/ recording # NoSession
    /\ recording # NoSession => ~inStart
    /\ inStop => recording # NoSession
    /\ initialized => opens > 0 /\ samples = Delivered
    /\ ~initialized => samples = <<>>

\* Nothing is recorded in the initial state.
LEMMA RecordingStart == RecordingInit => RecordingInv
<1> SUFFICES ASSUME RecordingInit PROVE RecordingInv
    BY Zenon
<1>1. DeviceInv
    BY DeviceStart, Zenon DEF RecordingInit
<1>2. QED
    BY <1>1, SessionIdAssumption, Zenon DEF RecordingInit, RecordingInv, DeviceInit

\* Every step of the manager is a step of the device or leaves it alone.
LEMMA RecordingDeviceStep == [RecordingNext]_recordingVars => [DeviceNext]_deviceVars
BY Zenon DEF RecordingNext, recordingVars, DeviceNext, OnSamples, RecordFails, RecordStreams, RecordReturns,
       StopReads, StopReturns

\* One more buffer from the device is one more at the end of what it delivered.
LEMMA DeliveredGrows ==
    ASSUME DeviceTypeOK, ForwardSamples
    PROVE  Append(Delivered, <<opens, frames + 1>>) = Delivered'
BY SMT, SMTT(20) DEF DeviceTypeOK, ForwardSamples, Delivered

\* on_samples() on the audio thread, start() and stop() on the controlling one
\* keep the buffer, the device and active_session_ in step.
LEMMA RecordingStep == RecordingInv /\ [RecordingNext]_recordingVars => RecordingInv'
<1> SUFFICES ASSUME RecordingInv, [RecordingNext]_recordingVars PROVE RecordingInv'
    BY Zenon
<1>0. DeviceInv'
    BY RecordingDeviceStep, DeviceStep, Zenon DEF RecordingInv
<1> USE DEF RecordingInv
<1>1. CASE OnSamples
    <2>1. initialized /\ initialized' /\ UNCHANGED <<opens, inStart>>
        BY <1>1, Zenon DEF OnSamples, ForwardSamples, DeviceInv
    <2>2. samples' = Delivered'
        BY <1>1, <2>1, DeliveredGrows, Zenon DEF OnSamples, DeviceInv
    <2>3. QED
        BY <1>0, <1>1, <2>1, <2>2, Zenon DEF OnSamples
<1>2. CASE (HardwareGone \/ HandleNotification) /\ UNCHANGED managerVars
    <2>1. UNCHANGED <<initialized, inStart, opens, frames, managerVars>>
        BY <1>2, Zenon DEF HardwareGone, HandleNotification
    <2>2. UNCHANGED Delivered
        BY <2>1, Zenon DEF Delivered
    <2>3. QED
        BY <1>0, <2>1, <2>2, Zenon DEF managerVars
<1>3. CASE RecordFails
    BY <1>0, <1>3, Zenon DEF RecordFails, RecordingFree, StartFails
<1>4. ASSUME NEW s \in Sessions, RecordStreams(s) PROVE RecordingInv'
    <2>1. Delivered' = <<>> /\ opens' > 0
        BY <1>4, SMT DEF RecordStreams, StartStreams, Delivered, DeviceInv, DeviceTypeOK
    <2>2. QED
        BY <1>0, <1>4, <2>1, SessionIdAssumption, Zenon
           DEF RecordStreams, RecordingFree, StartStreams, SessionIdAssumption
<1>5. CASE RecordReturns
    <2>1. UNCHANGED <<initialized, opens, frames, samples>>
        BY <1>5, Zenon DEF RecordReturns, StartReturns
    <2>2. UNCHANGED Delivered
        BY <2>1, Zenon DEF Delivered
    <2>3. /\ inStart /\ ~inStart' /\ recording' = opening /\ opening # NoSession
          /\ opening' \in Sessions \cup {NoSession} /\ UNCHANGED <<lost, inStop>>
        BY <1>5, Zenon DEF RecordReturns, StartReturns
    <2>4. QED
        BY <1>0, <2>1, <2>2, <2>3, Zenon
<1>6. CASE StopReads
    <2>1. UNCHANGED <<initialized, inStart, opens, frames, samples, recording, opening>>
        BY <1>6, Zenon DEF StopReads, deviceVars
    <2>2. UNCHANGED Delivered
        BY <2>1, Zenon DEF Delivered
    <2>3. (~running) \in BOOLEAN
        BY Zenon
    <2>4. QED
        BY <1>0, <1>6, <2>1, <2>2, <2>3, Zenon DEF StopReads
<1>7. CASE StopReturns
    BY <1>0, <1>7, Zenon DEF StopReturns, StopDevice
<1>8. CASE UNCHANGED recordingVars
    <2>1. UNCHANGED <<initialized, inStart, opens, frames, managerVars>>
        BY <1>8, Zenon DEF recordingVars, deviceVars
    <2>2. UNCHANGED Delivered
        BY <2>1, Zenon DEF Delivered
    <2>3. QED
        BY <1>0, <2>1, <2>2, Zenon DEF managerVars
<1>9. QED
    BY <1>1, <1>2, <1>3, <1>4, <1>5, <1>6, <1>7, <1>8, Zenon DEF RecordingNext

\* Buffer, device and active_session_ stay in step in every reachable state.
THEOREM RecordingInvAlways == RecordingSpec => []RecordingInv
BY RecordingStart, RecordingStep, PTL DEF RecordingSpec

\* A recording holds everything its device delivered and nothing else, whatever
\* the audio thread does while start() and stop() run.
THEOREM AudioIsOwnAndWholeAlways == RecordingSpec => []AudioIsOwnAndWhole
<1>1. RecordingInv => AudioIsOwnAndWhole
    BY Zenon DEF RecordingInv, AudioIsOwnAndWhole, Delivered
<1>2. QED
    BY <1>1, RecordingInvAlways, PTL

\* start() always finds the device closed.
THEOREM StartFindsDeviceClosedAlways == RecordingSpec => []StartFindsDeviceClosed
<1>1. RecordingInv => StartFindsDeviceClosed
    BY Zenon DEF RecordingInv, DeviceInv, StartFindsDeviceClosed, RecordingFree
<1>2. QED
    BY <1>1, RecordingInvAlways, PTL

-----------------------------------------------------------------------------
(* The queue under the session manager *)

\* An id that was handed out and not yet queued.
Fresh(s) == s \in Sessions /\ s < nextId /\ told[s] = "nothing"

\* start_session() hands out each id once, and the id of the session being
\* recorded reaches the queue at most once, at the end of stop_session(), which
\* finds the room that start_session() saw.
Ids ==
    /\ nextId \in Nat
    /\ \A s \in Sessions : s >= nextId => told[s] = "nothing"
    /\ call = "start" => Fresh(opening)
    /\ state = "Recording" => Fresh(active)
    /\ call \in {"stop", "enqueue", "cancel"} => state = "Recording"
    /\ call = "start" \/ state = "Recording" => stopping \/ Len(pending) < Capacity

\* The inductive invariant: Ids needs the accounts of the queue, and those need
\* that every step of the manager is a step the queue expects, which needs Ids.
ManagedInv == QueueTypeOK /\ Flags /\ JobsAccounted /\ Ids

\* The steps of the controlling thread that leave the queue alone.
QueueUntouched ==
    \/ StartSessionFails \/ StartSessionStreams \/ StartSessionReturns
    \/ StopSessionReads \/ StopSessionLost \/ StopSessionTakes \/ StopSessionRefused
    \/ CancelSessionReads \/ CancelSessionStops \/ CancelSessionAcknowledges
    \/ AudioThread

\* Every step of the manager is a step of the queue or leaves it alone.
LEMMA ManagedQueueStep == Ids /\ [SessionNext]_managedVars => [QueueNext]_queueVars
  <1> SUFFICES ASSUME Ids, [SessionNext]_managedVars PROVE [QueueNext]_queueVars
    BY Zenon
  <1>1. CASE QueueUntouched
    BY <1>1, Zenon DEF QueueUntouched, StartSessionFails, StartSessionStreams, StartSessionReturns, StopSessionReads,
                StopSessionLost, StopSessionTakes, StopSessionRefused, CancelSessionReads,
                CancelSessionStops, CancelSessionAcknowledges, AudioThread
  <1>2. CASE StopSessionQueues
    <2>1. active \in Sessions /\ told[active] = "nothing" /\ TryEnqueue(active)
      BY <1>2, Zenon DEF StopSessionQueues, Ids, Fresh
    <2> QED
      BY <2>1, Zenon DEF QueueNext, Owner
  <1>3. CASE \E s \in Sessions : CancelJob(s)
    BY <1>3, Zenon DEF CancelJob, QueueNext, Owner
  <1>4. CASE PollDrains \/ PollPublishes \/ \E present \in BOOLEAN : SetCallback(present)
    BY <1>4, Zenon DEF PollDrains, PollPublishes, SetCallback, QueueNext, Owner
  <1>5. CASE ShutdownSteps
    BY <1>5, Zenon DEF ShutdownSteps, ShutdownBegins, ShutdownRequestsAbort, ShutdownReports, QueueNext, Owner
  <1>6. CASE WorkerThread
    BY <1>6, Zenon DEF WorkerThread, QueueNext
  <1>7. CASE UNCHANGED managedVars
    BY <1>7, Zenon DEF managedVars
  <1> QED
    BY <1>1, <1>2, <1>3, <1>4, <1>5, <1>6, <1>7, Zenon DEF SessionNext, ControllingThread, QueueUntouched

\* The steps of the queue other than try_enqueue().
NotEnqueue ==
    \/ \E j \in Sessions : CancelPending(j)
    \/ DrainCompleted \/ ShutdownLocked \/ ShutdownJoin
    \/ RunTake \/ StoreResult
    \/ Still

\* What the owner was never told about stays that way unless it is enqueued, and
\* only try_enqueue() makes the line longer.
LEMMA NotEnqueueKeeps ==
    ASSUME QueueTypeOK, JobsAccounted, NotEnqueue
    PROVE  /\ \A s \in Sessions : told[s] = "nothing" => told'[s] = "nothing"
           /\ stopping \/ Len(pending) < Capacity => stopping' \/ Len(pending') < Capacity
  <1>0. /\ \A s \in Sessions : told[s] = "nothing" => s \notin Waiting /\ s \notin Finished /\ s \notin Doomed
        /\ told \in [Sessions -> {"nothing", "queued", "cancelled", "dropped", "ok", "error"}]
        /\ pending \in Seq(Sessions) /\ Len(pending) \in Nat /\ Capacity \in Nat
    BY LenProperties, QueueAssumption, Zenon DEF JobsAccounted, QueueTypeOK
  <1>1. CASE \E j \in Sessions : CancelPending(j)
    <2>1. PICK j \in Sessions : CancelPending(j)
      BY <1>1, Zenon
    <2>2. PICK i \in DOMAIN pending : pending[i] = j /\ pending' = Erase(pending, i)
      BY <2>1, Zenon DEF CancelPending, Erase
    <2>3. i \in 1 .. Len(pending) /\ j \in Waiting
      BY <1>0, <2>2, LenProperties, Zenon DEF Waiting
    <2>4. Len(pending') = Len(pending) - 1
      BY <1>0, <2>2, <2>3, EraseAt, Zenon
    <2>5. told' = [told EXCEPT ![j] = "cancelled"] /\ stopping' = stopping
      BY <2>1, Zenon DEF CancelPending
    <2> QED
      BY <1>0, <2>3, <2>4, <2>5
  <1>2. CASE DrainCompleted
    <2>1. UNCHANGED <<pending, stopping>>
      BY <1>2, Zenon DEF DrainCompleted
    <2>2. \A s \in Sessions : told[s] = "nothing" => told'[s] = "nothing"
      <3> SUFFICES ASSUME NEW s \in Sessions, told[s] = "nothing" PROVE told'[s] = "nothing"
        BY Zenon
      <3>1. \A i \in DOMAIN completed : completed[i].id # s
        BY <1>0, Zenon DEF Finished
      <3>2. ~\E i \in DOMAIN completed : completed[i] = [id |-> s, ok |-> TRUE]
        BY ONLY <3>1
      <3> QED
        BY <1>2, <3>1, <3>2, Zenon DEF DrainCompleted
    <2> QED
      BY <2>1, <2>2, Zenon
  <1>3. CASE ShutdownLocked
    <2>1. stopping' = TRUE /\ told' = told
      BY <1>3, Zenon DEF ShutdownLocked
    <2> QED
      BY <2>1, Zenon
  <1>4. CASE ShutdownJoin
    <2>1. UNCHANGED <<pending, stopping>>
      BY <1>4, Zenon DEF ShutdownJoin, sharedVars
    <2>2. \A s \in Sessions : told[s] = "nothing" => told'[s] = "nothing"
      BY <1>0, <1>4, Zenon DEF ShutdownJoin, Doomed
    <2> QED
      BY <2>1, <2>2, Zenon
  <1>5. CASE RunTake
    <2>1. Len(pending') = Len(pending) - 1
      BY <1>0, <1>5, HeadTailProperties, Zenon DEF RunTake
    <2> QED
      BY <1>0, <1>5, <2>1 DEF RunTake, ownerVars
  <1>6. CASE StoreResult
    BY <1>6, Zenon DEF StoreResult, ownerVars
  <1>7. CASE Still
    BY <1>7, StillMoves
  <1> QED
    BY <1>1, <1>2, <1>3, <1>4, <1>5, <1>6, <1>7, Zenon DEF NotEnqueue

\* Every step but the last of stop_session() enqueues nothing.
LEMMA OthersDoNotEnqueue ==
    ASSUME [SessionNext]_managedVars, ~StopSessionQueues
    PROVE  NotEnqueue
  <1> USE DEF NotEnqueue, Still
  <1>1. CASE QueueUntouched
    BY <1>1, Zenon DEF QueueUntouched, StartSessionFails, StartSessionStreams, StartSessionReturns, StopSessionReads,
                StopSessionLost, StopSessionTakes, StopSessionRefused, CancelSessionReads,
                CancelSessionStops, CancelSessionAcknowledges, AudioThread
  <1>2. CASE \E s \in Sessions : CancelJob(s)
    BY <1>2, Zenon DEF CancelJob
  <1>3. CASE PollDrains \/ PollPublishes \/ \E present \in BOOLEAN : SetCallback(present)
    BY <1>3, Zenon DEF PollDrains, PollPublishes, SetCallback
  <1>4. CASE ShutdownSteps
    BY <1>4, Zenon DEF ShutdownSteps, ShutdownBegins, ShutdownRequestsAbort, ShutdownReports
  <1>5. CASE WorkerThread
    BY <1>5, Zenon DEF WorkerThread, Worker
  <1>6. CASE UNCHANGED managedVars
    BY <1>6, Zenon DEF managedVars
  <1> QED
    BY <1>1, <1>2, <1>3, <1>4, <1>5, <1>6, Zenon DEF SessionNext, ControllingThread, QueueUntouched

\* How the other steps move the manager's own state between the ids.
LEMMA OthersMove ==
    ASSUME [SessionNext]_managedVars, ~StopSessionQueues, Ids
    PROVE  \/ /\ CanStart /\ nextId' = nextId + 1 /\ state' = state
              /\ call' = "none" \/ (call' = "start" /\ opening' = nextId)
           \/ /\ nextId' = nextId
              /\ call' = "start" => call = "start" /\ opening' = opening
              /\ state' = "Recording" => \/ state = "Recording" /\ active' = active
                                         \/ call = "start" /\ active' = opening
              /\ call' \in {"stop", "enqueue", "cancel"} => state' = "Recording"
  <1> USE DEF Ids
  <1>1. CASE StartSessionFails \/ StartSessionStreams
    BY <1>1, Zenon DEF StartSessionFails, StartSessionStreams, CanStart, RecordStreams
  <1>2. CASE StartSessionReturns
    BY <1>2, Zenon DEF StartSessionReturns
  <1>3. CASE StopSessionReads \/ StopSessionLost \/ StopSessionTakes \/ StopSessionRefused
    BY <1>3, Zenon DEF StopSessionReads, StopSessionLost, StopSessionTakes, StopSessionRefused
  <1>4. CASE CancelSessionReads \/ CancelSessionStops \/ CancelSessionAcknowledges
    BY <1>4, Zenon DEF CancelSessionReads, CancelSessionStops, CancelSessionAcknowledges, Forget
  <1>5. CASE \E s \in Sessions : CancelJob(s)
    BY <1>5, Zenon DEF CancelJob, recordingVars, managerVars
  <1>6. CASE PollDrains \/ PollPublishes \/ \E present \in BOOLEAN : SetCallback(present)
    BY <1>6, Zenon DEF PollDrains, PollPublishes, SetCallback, recordingVars, managerVars, sessionVars
  <1>7. CASE ShutdownSteps
    BY <1>7, Zenon DEF ShutdownSteps, ShutdownBegins, ShutdownRequestsAbort, ShutdownReports, recordingVars, managerVars,
                sessionVars
  <1>8. CASE WorkerThread \/ UNCHANGED managedVars
    BY <1>8, Zenon DEF WorkerThread, managedVars, recordingVars, managerVars, sessionVars
  <1>9. CASE AudioThread
    BY <1>9, Zenon DEF AudioThread, OnSamples, managerVars, sessionVars
  <1> QED
    BY <1>1, <1>2, <1>3, <1>4, <1>5, <1>6, <1>7, <1>8, <1>9, Zenon DEF SessionNext, ControllingThread

\* Ids is preserved by every step of the manager.
LEMMA IdsNext == ManagedInv /\ [SessionNext]_managedVars => Ids'
  <1> SUFFICES ASSUME ManagedInv, [SessionNext]_managedVars PROVE Ids'
    BY Zenon
  <1>0. QueueTypeOK /\ JobsAccounted /\ Ids
    BY Zenon DEF ManagedInv
  <1>n. Sessions \subseteq Nat
    BY CounterAssumption, Zenon
  <1>1. CASE StopSessionQueues
    <2>1. /\ Fresh(active)
          /\ told' = [told EXCEPT ![active] = "queued"]
          /\ nextId' = nextId /\ call' = "none" /\ state' = "Idle"
      BY <1>0, <1>1, Zenon DEF StopSessionQueues, TryEnqueue, Ids
    <2> QED
      BY <1>0, <1>n, <2>1 DEF Ids, Fresh, QueueTypeOK
  <1>2. CASE ~StopSessionQueues
    <2>1. /\ \A s \in Sessions : told[s] = "nothing" => told'[s] = "nothing"
          /\ stopping \/ Len(pending) < Capacity => stopping' \/ Len(pending') < Capacity
      BY <1>0, <1>2, OthersDoNotEnqueue, NotEnqueueKeeps, Zenon
    <2>2. CASE /\ CanStart /\ nextId' = nextId + 1 /\ state' = state
               /\ call' = "none" \/ (call' = "start" /\ opening' = nextId)
      BY <1>0, <1>n, <2>1, <2>2 DEF Ids, Fresh, CanStart, HasCapacity
    <2>3. CASE /\ nextId' = nextId
               /\ call' = "start" => call = "start" /\ opening' = opening
               /\ state' = "Recording" => \/ state = "Recording" /\ active' = active
                                          \/ call = "start" /\ active' = opening
               /\ call' \in {"stop", "enqueue", "cancel"} => state' = "Recording"
      BY <1>0, <2>1, <2>3, Zenon DEF Ids, Fresh
    <2> QED
      BY <1>0, <1>2, <2>2, <2>3, OthersMove, Zenon
  <1> QED
    BY <1>1, <1>2, Zenon

\* The inductive invariant holds in every reachable state of the manager.
THEOREM ManagedInvariant == SessionSpec => []ManagedInv
  <1>1. SessionInit => ManagedInv
    <2> SUFFICES ASSUME SessionInit PROVE ManagedInv
      BY Zenon
    <2>1. QueueTypeOK /\ Flags
      BY FlagsInit, Zenon DEF SessionInit
    <2>2. JobsAccounted
      BY DEF SessionInit, QueueInit, JobsAccounted, Waiting, Finished, Doomed, InHand, Running
    <2>3. Ids
      BY Zenon DEF SessionInit, QueueInit, Ids
    <2> QED
      BY <2>1, <2>2, <2>3, Zenon DEF ManagedInv
  <1>2. ManagedInv /\ [SessionNext]_managedVars => ManagedInv'
    BY ManagedQueueStep, TypeNext, FlagsNext, AccountsNext, IdsNext, Zenon DEF ManagedInv
  <1> QED
    BY <1>1, <1>2, PTL DEF SessionSpec

\* Under the session manager the queue is used as its own specification assumes:
\* one producer, each id enqueued at most once, nothing called during shutdown().
THEOREM SessionUsesQueueProperly == SessionSpec => UsesQueueProperly
  <1>1. SessionInit => QueueInit
    BY Zenon DEF SessionInit
  <1>2. ManagedInv /\ [SessionNext]_managedVars => [QueueNext]_queueVars
    BY ManagedQueueStep, Zenon DEF ManagedInv
  <1> QED
    BY <1>1, <1>2, ManagedInvariant, PTL DEF SessionSpec, QueueSpec, UsesQueueProperly

\* stop_session() finds the room that start_session() saw, unless the queue was
\* shut down in between.
THEOREM RefusedOnlyAtShutdownAlways == SessionSpec => []RefusedOnlyAtShutdown
  <1>1. ManagedInv => RefusedOnlyAtShutdown
    BY Zenon DEF ManagedInv, Ids, RefusedOnlyAtShutdown, HasCapacity
  <1> QED
    BY <1>1, ManagedInvariant, PTL

-----------------------------------------------------------------------------
(* The recording manager under the session manager *)

\* The steps of the controlling thread that leave the recording manager alone.
RecorderUntouched ==
    \/ StopSessionQueues \/ StopSessionRefused \/ CancelSessionAcknowledges
    \/ \E s \in Sessions : CancelJob(s)
    \/ PollDrains \/ PollPublishes
    \/ \E present \in BOOLEAN : SetCallback(present)
    \/ ShutdownSteps

\* Every step of the manager is a step of the recording manager or leaves it alone.
LEMMA ManagedRecordingStep == [SessionNext]_managedVars => [RecordingNext]_recordingVars
  <1> SUFFICES ASSUME [SessionNext]_managedVars PROVE [RecordingNext]_recordingVars
    BY Zenon
  <1>1. CASE RecorderUntouched
    BY <1>1, Zenon DEF RecorderUntouched, StopSessionQueues, StopSessionRefused, CancelSessionAcknowledges, CancelJob,
                PollDrains, PollPublishes, SetCallback, ShutdownSteps, ShutdownBegins, ShutdownRequestsAbort,
                ShutdownReports
  <1>2. CASE StartSessionFails \/ StartSessionStreams \/ StartSessionReturns
    BY <1>2, Zenon DEF StartSessionFails, StartSessionStreams, StartSessionReturns, CanStart, RecordingNext
  <1>3. CASE StopSessionReads \/ StopSessionLost \/ StopSessionTakes
    BY <1>3, Zenon DEF StopSessionReads, StopSessionLost, StopSessionTakes, RecordingNext
  <1>4. CASE CancelSessionReads \/ CancelSessionStops
    BY <1>4, Zenon DEF CancelSessionReads, CancelSessionStops, RecordingNext
  <1>5. CASE WorkerThread \/ UNCHANGED managedVars
    BY <1>5, Zenon DEF WorkerThread, managedVars
  <1>6. CASE AudioThread
    BY <1>6, Zenon DEF AudioThread, RecordingNext
  <1> QED
    BY <1>1, <1>2, <1>3, <1>4, <1>5, <1>6, Zenon DEF SessionNext, ControllingThread, RecorderUntouched

\* Under the session manager the recording manager is used as its own
\* specification assumes, so its theorems hold there.
THEOREM SessionUsesRecorderProperly == SessionSpec => RecordingSpec
  <1>1. SessionInit => RecordingInit
    BY Zenon DEF SessionInit
  <1> QED
    BY <1>1, ManagedRecordingStep, PTL DEF SessionSpec, RecordingSpec

\* What CaptureViewsAgree says of the moment between two calls.
Agree ==
    /\ state = "Idle" <=> active = NoSession
    /\ state = "Recording" <=> recording # NoSession
    /\ state = "Recording" => active = recording /\ phase = "Recording"
    /\ state = "Error" => phase = "Failed"

\* The same inside each call: start_session() has the device open and no session
\* yet, stop_session() and cancel_session() still have both, and stop_session()
\* has taken the recording and not yet queued it.
Views ==
    /\ state \in {"Idle", "Recording", "Error"}
    /\ shut \in {"abort", "join"} => call = "shutdown"
    /\ inStart <=> call = "start"
    /\ call = "start" => state = "Idle" /\ active = NoSession
    /\ call \in {"stop", "cancel"} =>
           state = "Recording" /\ active = recording /\ recording # NoSession /\ phase = "Recording"
    /\ call = "enqueue" =>
           state = "Recording" /\ active # NoSession /\ recording = NoSession /\ phase = "Processing"
    /\ call \notin {"start", "stop", "cancel", "enqueue"} => Agree

\* Each step of an operation hands the views on to the next.
LEMMA ViewsNext ==
    ASSUME RecordingInv, Views, [SessionNext]_managedVars
    PROVE  Views'
  <1> USE DEF Views, Agree
  <1>1. CASE StartSessionFails
    BY <1>1, Zenon DEF StartSessionFails, CanStart, RecordFails, StartFails, queueVars, ownerVars
  <1>2. CASE StartSessionStreams
    BY <1>2, Zenon DEF StartSessionStreams, CanStart, RecordStreams, StartStreams, queueVars, ownerVars
  <1>3. CASE StartSessionReturns
    BY <1>3, Zenon DEF StartSessionReturns, RecordReturns, StartReturns, RecordingInv, TryTransition, SessionMoves,
                queueVars, ownerVars
  <1>4. CASE StopSessionReads \/ CancelSessionReads
    BY <1>4 DEF StopSessionReads, CancelSessionReads, StopReads, deviceVars, queueVars, ownerVars
  <1>5. CASE StopSessionLost
    BY <1>5, Zenon DEF StopSessionLost, StopReturns, StopDevice, TryTransition, SessionMoves, queueVars, ownerVars
  <1>6. CASE StopSessionTakes
    BY <1>6, Zenon DEF StopSessionTakes, StopReturns, StopDevice, TryTransition, SessionMoves, queueVars, ownerVars
  <1>7. CASE StopSessionQueues
    BY <1>7, Zenon DEF StopSessionQueues, TryEnqueue, recordingVars, deviceVars, managerVars
  <1>8. CASE StopSessionRefused
    BY <1>8, Zenon DEF StopSessionRefused, TryTransition, SessionMoves, recordingVars, deviceVars, managerVars,
                queueVars, ownerVars
  <1>9. CASE CancelSessionStops
    BY <1>9, Zenon DEF CancelSessionStops, StopReturns, StopDevice, Forget, queueVars, ownerVars
  <1>10. CASE CancelSessionAcknowledges
    <2>1. /\ call = "none" /\ state = "Error" /\ Forget
          /\ UNCHANGED <<inStart, recording, shut>>
      BY <1>10, Zenon DEF CancelSessionAcknowledges, recordingVars, deviceVars, managerVars, queueVars, ownerVars
    <2> QED
      BY <2>1, Zenon DEF Forget
  <1>11. CASE \E s \in Sessions : CancelJob(s)
    <2>1. UNCHANGED <<inStart, recording, state, active, phase, call, shut>>
      BY <1>11, Zenon DEF CancelJob, CancelPending, recordingVars, deviceVars, managerVars
    <2> QED
      BY <2>1, Zenon
  <1>12. CASE PollDrains \/ PollPublishes \/ \E present \in BOOLEAN : SetCallback(present)
    <2>1. UNCHANGED <<inStart, recording, state, active, phase>>
      BY <1>12, Zenon DEF PollDrains, PollPublishes, SetCallback, recordingVars, deviceVars, managerVars, sessionVars
    <2>2. shut' = shut
      BY <1>12, Zenon DEF PollDrains, PollPublishes, SetCallback, DrainCompleted, DrainStarted, SetActivityCallback,
                   ownerVars
    <2>3. /\ call \in {"none", "poll"}
          /\ call' \in {"none", "poll"}
      BY <1>12, Zenon DEF PollDrains, PollPublishes, SetCallback, sessionVars
    <2> QED
      BY <2>1, <2>2, <2>3, Zenon
  <1>13. CASE ShutdownSteps
    <2>1. UNCHANGED <<inStart, recording, state, active, phase>>
      BY <1>13, Zenon DEF ShutdownSteps, ShutdownBegins, ShutdownRequestsAbort, ShutdownReports, recordingVars,
                   deviceVars, managerVars, sessionVars
    <2>2. /\ call \in {"none", "shutdown"}
          /\ \/ call' = "shutdown"
             \/ call' = "none" /\ shut' = "down"
      BY <1>13, Zenon DEF ShutdownSteps, ShutdownBegins, ShutdownRequestsAbort, ShutdownReports, ShutdownAbort,
                   ShutdownJoin, sessionVars
    <2> QED
      BY <2>1, <2>2, Zenon
  <1>14. CASE WorkerThread
    <2>1. shut' = shut
      BY <1>14, Zenon DEF WorkerThread, Worker, RunExit, RunTake, NotifyCopy, NotifyCall, Transcribed,
                   StoreResult, ownerVars
    <2> QED
      BY <1>14, <2>1, Zenon DEF WorkerThread, recordingVars, deviceVars, managerVars, sessionVars
  <1>15. CASE AudioThread
    BY <1>15 DEF AudioThread, OnSamples, ForwardSamples, HardwareGone, HandleNotification, managerVars,
                 sessionVars, queueVars, ownerVars
  <1>16. CASE UNCHANGED managedVars
    BY <1>16, Zenon DEF managedVars, recordingVars, deviceVars, managerVars, sessionVars, queueVars, ownerVars
  <1> QED
    BY <1>1, <1>2, <1>3, <1>4, <1>5, <1>6, <1>7, <1>8, <1>9, <1>10, <1>11, <1>12, <1>13, <1>14, <1>15, <1>16, ZenonT(30)
       DEF SessionNext, ControllingThread

\* The views hold in every reachable state of the manager.
THEOREM ViewsAlways == SessionSpec => []Views
  <1>1. SessionInit => Views
    BY Zenon DEF SessionInit, RecordingInit, DeviceInit, QueueInit, Views, Agree
  <1>2. RecordingInv /\ Views /\ [SessionNext]_managedVars => Views'
    BY ViewsNext, Zenon
  <1> QED
    BY <1>1, <1>2, RecordingInvAlways, SessionUsesRecorderProperly, PTL DEF SessionSpec

\* Between calls the service state, the active session and the recording manager
\* tell one story, for any number of sessions, unplugs and refusals.
THEOREM CaptureViewsAgreeAlways == SessionSpec => []CaptureViewsAgree
  <1>1. Views => CaptureViewsAgree
    BY Zenon DEF Views, Agree, CaptureViewsAgree
  <1> QED
    BY <1>1, ViewsAlways, PTL

-----------------------------------------------------------------------------
(* The lives of a session *)

\* Pushing one more element, in the two ways the model writes it.
LEMMA PushBack ==
    ASSUME NEW S, NEW s \in Seq(S), NEW x \in S, NEW u \in Seq(S), Len(u) = Len(s) + 1,
           \A i \in 1 .. Len(s) : u[i] = s[i], u[Len(s) + 1] = x
    PROVE  s \o <<x>> = u
  <1>1. /\ Append(s, x) \in Seq(S) /\ Len(Append(s, x)) = Len(s) + 1
        /\ \A i \in 1 .. Len(s) : Append(s, x)[i] = s[i]
        /\ Append(s, x)[Len(s) + 1] = x
    BY AppendProperties
  <1>2. Len(s) \in Nat
    BY LenProperties, Zenon
  <1>3. \A i \in 1 .. Len(u) : Append(s, x)[i] = u[i]
    BY <1>1, <1>2
  <1>4. Append(s, x) = u
    BY <1>1, <1>3, SeqEqual, Zenon
  <1> QED
    BY <1>4, AppendIsConcat, Zenon

\* Tuples, one element at a time.
LEMMA Tuples ==
    ASSUME NEW S, NEW a \in S, NEW b \in S, NEW c \in S
    PROVE  /\ <<a>> \in Seq(S) /\ <<a, b>> \in Seq(S) /\ <<a, b, c>> \in Seq(S)
           /\ <<a>> \o <<b>> = <<a, b>>
           /\ <<a, b>> \o <<c>> = <<a, b, c>>
  <1>1. <<a>> \o <<b>> = <<a, b>>
    <2> DEFINE s == <<a>>
               u == <<a, b>>
    <2>1. s \in Seq(S) /\ u \in Seq(S) /\ Len(s) = 1 /\ Len(u) = 2 /\ u[1] = s[1] /\ u[2] = b
      OBVIOUS
    <2> HIDE DEF s, u
    <2>2. Len(u) = Len(s) + 1 /\ u[Len(s) + 1] = b /\ \A i \in 1 .. Len(s) : u[i] = s[i]
      BY <2>1
    <2>3. s \o <<b>> = u
      BY ONLY <2>1, <2>2, b \in S, PushBack, Zenon
    <2> QED
      BY <2>3, Zenon DEF s, u
  <1>2. <<a, b>> \o <<c>> = <<a, b, c>>
    <2> DEFINE s == <<a, b>>
               u == <<a, b, c>>
    <2>1. /\ s \in Seq(S) /\ u \in Seq(S) /\ Len(s) = 2 /\ Len(u) = 3
          /\ u[1] = s[1] /\ u[2] = s[2] /\ u[3] = c
      OBVIOUS
    <2> HIDE DEF s, u
    <2>2. Len(u) = Len(s) + 1 /\ u[Len(s) + 1] = c /\ \A i \in 1 .. Len(s) : u[i] = s[i]
      BY <2>1
    <2>3. s \o <<c>> = u
      BY ONLY <2>1, <2>2, c \in S, PushBack, Zenon
    <2> QED
      BY <2>3, Zenon DEF s, u
  <1> QED
    BY <1>1, <1>2

\* The beginnings of lives that a session may stay in.
LifeRecording == <<"RecordingStarted">>
LifeTaken     == <<"RecordingStarted", "RecordingFinished">>
LifeQueued    == LifeTaken \o <<"TranscriptionQueued">>
LifeStarted   == LifeQueued \o <<"TranscriptionStarted">>
LifeLost      == <<"RecordingStarted", "audio error">>
LifeRefused   == LifeTaken \o <<"queue error">>

Beginnings == {<<>>, LifeRecording, LifeTaken, LifeQueued, LifeStarted, LifeLost, LifeRefused} \cup Lives

\* How the events published by each operation carry a life on or end it.
LEMMA LifeSteps ==
    /\ Beginnings \subseteq Seq(EventKinds)
    /\ <<>> \o <<"RecordingStarted">> = LifeRecording
    /\ LifeRecording \o <<"RecordingFinished">> = LifeTaken
    /\ LifeRecording \o <<"audio error">> = LifeLost
    /\ LifeRecording \o <<"SessionCancelled">> \in Lives
    /\ LifeRecording \o <<"RecordingFinished", "SessionCancelled">> \in Lives
    /\ LifeQueued \o <<"SessionCancelled">> \in Lives
    /\ Append(LifeQueued, "queue error") \in Lives
    /\ LifeStarted \o <<"TranscriptionCompleted">> \in Lives
    /\ LifeStarted \o <<"speech error">> \in Lives
    /\ LifeLost \o <<"SessionCancelled">> \in Lives
    /\ LifeRefused \o <<"SessionCancelled">> \in Lives
  <1> DEFINE K == EventKinds
  <1>0. /\ "RecordingStarted" \in K /\ "RecordingFinished" \in K /\ "TranscriptionQueued" \in K
        /\ "TranscriptionStarted" \in K /\ "TranscriptionCompleted" \in K /\ "SessionCancelled" \in K
        /\ "audio error" \in K /\ "queue error" \in K /\ "speech error" \in K
    BY Zenon DEF EventKinds
  <1> HIDE DEF K
  <1>t. \A a, b, c \in K : /\ <<a>> \in Seq(K) /\ <<a, b>> \in Seq(K) /\ <<a, b, c>> \in Seq(K)
                          /\ <<a>> \o <<b>> = <<a, b>> /\ <<a, b>> \o <<c>> = <<a, b, c>>
    <2> TAKE a, b, c \in K
    <2> QED
      BY Tuples
  <1>a. \A s, t, u \in Seq(K) : (s \o t) \o u = s \o (t \o u)
    BY ConcatAssociative, SMTT(20)
  <1>1. /\ LifeRecording \in Seq(K) /\ LifeTaken \in Seq(K) /\ LifeLost \in Seq(K)
        /\ LifeRecording \o <<"RecordingFinished">> = LifeTaken
        /\ LifeRecording \o <<"audio error">> = LifeLost
    BY <1>0, <1>t, Zenon DEF LifeRecording, LifeTaken, LifeLost
  <1>2. \A x \in K : <<x>> \in Seq(K)
    BY Tuples, Zenon
  <1>3. LifeQueued \in Seq(K) /\ LifeRefused \in Seq(K)
    BY <1>0, <1>1, <1>2, ConcatProperties, Zenon DEF LifeQueued, LifeRefused
  <1>4. LifeStarted \in Seq(K)
    BY <1>0, <1>2, <1>3, ConcatProperties, Zenon DEF LifeStarted
  <1>5. <<>> \o <<"RecordingStarted">> = LifeRecording
    BY <1>0, <1>2, ConcatEmptySeq, Zenon DEF LifeRecording
  <1>6. \A x, y \in K : (LifeTaken \o <<x>>) \o <<y>> = LifeTaken \o <<x, y>>
    <2> TAKE x, y \in K
    <2>1. (LifeTaken \o <<x>>) \o <<y>> = LifeTaken \o (<<x>> \o <<y>>)
      <3>1. LifeTaken \in Seq(K) /\ <<x>> \in Seq(K) /\ <<y>> \in Seq(K)
        BY <1>1, <1>2, Zenon
      <3> QED
        BY ONLY <1>a, <3>1, Zenon
    <2> QED
      BY <1>t, <2>1, Zenon
  <1>7. \A x, y, z \in K : ((LifeTaken \o <<x>>) \o <<y>>) \o <<z>> = LifeTaken \o <<x, y, z>>
    <2> TAKE x, y, z \in K
    <2>1. <<x, y>> \in Seq(K) /\ <<x, y>> \o <<z>> = <<x, y, z>>
      BY <1>t, Zenon
    <2>2. (LifeTaken \o <<x, y>>) \o <<z>> = LifeTaken \o (<<x, y>> \o <<z>>)
      <3>1. LifeTaken \in Seq(K) /\ <<x, y>> \in Seq(K) /\ <<z>> \in Seq(K)
        BY <1>1, <1>2, <2>1, Zenon
      <3> QED
        BY ONLY <1>a, <3>1, Zenon
    <2> QED
      BY <1>6, <2>1, <2>2, Zenon
  <1>8. /\ LifeQueued \o <<"SessionCancelled">> = LifeTaken \o <<"TranscriptionQueued", "SessionCancelled">>
        /\ LifeQueued \o <<"queue error">> = LifeTaken \o <<"TranscriptionQueued", "queue error">>
        /\ LifeRefused \o <<"SessionCancelled">> = LifeTaken \o <<"queue error", "SessionCancelled">>
    BY <1>0, <1>6, Zenon DEF LifeQueued, LifeRefused
  <1>9. /\ LifeStarted \o <<"TranscriptionCompleted">>
              = LifeTaken \o <<"TranscriptionQueued", "TranscriptionStarted", "TranscriptionCompleted">>
        /\ LifeStarted \o <<"speech error">>
              = LifeTaken \o <<"TranscriptionQueued", "TranscriptionStarted", "speech error">>
    <2>1. \A z \in K : LifeStarted \o <<z>> = LifeTaken \o <<"TranscriptionQueued", "TranscriptionStarted", z>>
      <3>1. "TranscriptionQueued" \in K /\ "TranscriptionStarted" \in K
        BY <1>0, Zenon
      <3> QED
        BY ONLY <1>7, <3>1, Zenon DEF LifeQueued, LifeStarted
    <2>2. "TranscriptionCompleted" \in K /\ "speech error" \in K
      BY <1>0, Zenon
    <2> QED
      BY ONLY <2>1, <2>2, Zenon
  <1>10. /\ LifeRecording \o <<"SessionCancelled">> = <<"RecordingStarted", "SessionCancelled">>
         /\ LifeLost \o <<"SessionCancelled">> = <<"RecordingStarted", "audio error", "SessionCancelled">>
    <2>1. "RecordingStarted" \in K /\ "audio error" \in K /\ "SessionCancelled" \in K
      BY <1>0, Zenon
    <2> QED
      BY ONLY <1>t, <2>1, Zenon DEF LifeRecording, LifeLost
  <1>11. LifeRecording \o <<"RecordingFinished", "SessionCancelled">> = LifeTaken \o <<"SessionCancelled">>
    <2>1. /\ <<"RecordingFinished", "SessionCancelled">> = <<"RecordingFinished">> \o <<"SessionCancelled">>
      BY <1>0, <1>t, Zenon
    <2>2. LifeRecording \o (<<"RecordingFinished">> \o <<"SessionCancelled">>)
            = (LifeRecording \o <<"RecordingFinished">>) \o <<"SessionCancelled">>
      <3>1. <<"RecordingFinished">> \in Seq(K) /\ <<"SessionCancelled">> \in Seq(K) /\ LifeRecording \in Seq(K)
        BY <1>0, <1>1, <1>2, Zenon
      <3> QED
        BY ONLY <1>a, <3>1, Zenon
    <2> QED
      BY <1>1, <2>1, <2>2, Zenon
  <1>12. Append(LifeQueued, "queue error") = LifeQueued \o <<"queue error">>
    BY <1>0, <1>3, AppendIsConcat, Zenon
  <1> DEFINE Rests ==
        {<<"TranscriptionQueued", "TranscriptionStarted", "TranscriptionCompleted">>,
         <<"TranscriptionQueued", "TranscriptionStarted", "speech error">>,
         <<"TranscriptionQueued", "SessionCancelled">>,
         <<"TranscriptionQueued", "queue error">>,
         <<"queue error", "SessionCancelled">>,
         <<"SessionCancelled">>}
  <1>13. Lives = {LifeTaken \o rest : rest \in Rests}
                   \cup {<<"RecordingStarted", "audio error", "SessionCancelled">>,
                         <<"RecordingStarted", "SessionCancelled">>}
    BY Zenon DEF Lives, LifeTaken
  <1>14. Rests \subseteq Seq(K)
    <2>1. \A x, y, z \in K : <<x>> \in Seq(K) /\ <<x, y>> \in Seq(K) /\ <<x, y, z>> \in Seq(K)
      BY <1>t, Zenon
    <2>2. /\ <<"TranscriptionQueued", "TranscriptionStarted", "TranscriptionCompleted">> \in Seq(K)
          /\ <<"TranscriptionQueued", "TranscriptionStarted", "speech error">> \in Seq(K)
      BY <1>0, <2>1, Zenon
    <2>3. /\ <<"TranscriptionQueued", "SessionCancelled">> \in Seq(K)
          /\ <<"TranscriptionQueued", "queue error">> \in Seq(K)
          /\ <<"queue error", "SessionCancelled">> \in Seq(K)
          /\ <<"SessionCancelled">> \in Seq(K)
      BY <1>0, <2>1, Zenon
    <2> QED
      BY <2>2, <2>3, Zenon
  <1>15. Lives \subseteq Seq(K)
    <2>1. \A rest \in Rests : LifeTaken \o rest \in Seq(K)
      BY <1>1, <1>14, ConcatProperties, Zenon
    <2>2. /\ <<"RecordingStarted", "audio error", "SessionCancelled">> \in Seq(K)
          /\ <<"RecordingStarted", "SessionCancelled">> \in Seq(K)
      BY <1>0, <1>t, Zenon
    <2> QED
      BY <1>13, <2>1, <2>2, Zenon
  <1>16. Beginnings \subseteq Seq(K)
    BY <1>1, <1>3, <1>4, <1>15, EmptySeq, Zenon DEF Beginnings
  <1>17. /\ LifeTaken \o <<"TranscriptionQueued", "SessionCancelled">> \in Lives
         /\ LifeTaken \o <<"TranscriptionQueued", "queue error">> \in Lives
         /\ LifeTaken \o <<"queue error", "SessionCancelled">> \in Lives
         /\ LifeTaken \o <<"SessionCancelled">> \in Lives
         /\ LifeTaken \o <<"TranscriptionQueued", "TranscriptionStarted", "TranscriptionCompleted">> \in Lives
         /\ LifeTaken \o <<"TranscriptionQueued", "TranscriptionStarted", "speech error">> \in Lives
         /\ <<"RecordingStarted", "audio error", "SessionCancelled">> \in Lives
         /\ <<"RecordingStarted", "SessionCancelled">> \in Lives
    BY <1>13, Zenon
  <1> QED
    BY <1>1, <1>5, <1>8, <1>9, <1>10, <1>11, <1>12, <1>16, <1>17, Zenon DEF K

\* Each of them is the beginning of a whole life.
LEMMA BeginningsAreLegal ==
    ASSUME NEW e \in Beginnings
    PROVE  \E life \in Lives : Len(e) <= Len(life) /\ e = SubSeq(life, 1, Len(e))
  <1>1. ASSUME NEW s \in Seq(EventKinds), NEW t \in Seq(EventKinds)
        PROVE  Len(s) <= Len(s \o t) /\ s = SubSeq(s \o t, 1, Len(s))
    <2>1. /\ s \o t \in Seq(EventKinds) /\ Len(s \o t) = Len(s) + Len(t) /\ Len(s) \in Nat /\ Len(t) \in Nat
          /\ \A i \in 1 .. Len(s) + Len(t) : (s \o t)[i] = IF i <= Len(s) THEN s[i] ELSE t[i - Len(s)]
      BY ConcatProperties, LenProperties, Zenon
    <2>2. \A i \in 1 .. Len(s) : (s \o t)[i] = s[i] /\ s[i] \in EventKinds
      BY <2>1, ElementOfSeq
    <2>3. /\ SubSeq(s \o t, 1, Len(s)) \in Seq(EventKinds)
          /\ Len(SubSeq(s \o t, 1, Len(s))) = Len(s)
          /\ \A i \in 1 .. Len(s) : SubSeq(s \o t, 1, Len(s))[i] = (s \o t)[i]
      BY <2>1, <2>2, SubSeqProperties
    <2>4. s = SubSeq(s \o t, 1, Len(s))
      BY <2>2, <2>3, SeqEqual, Zenon
    <2> QED
      BY <2>1, <2>4
  <1>2. ASSUME NEW t \in Seq(EventKinds), e \o t \in Lives
        PROVE  \E life \in Lives : Len(e) <= Len(life) /\ e = SubSeq(life, 1, Len(e))
    BY <1>1, <1>2, LifeSteps, Zenon
  <1>3. \A x \in EventKinds : <<x>> \in Seq(EventKinds)
    BY Tuples, Zenon
  <1>4. /\ <<"SessionCancelled">> \in Seq(EventKinds) /\ <<"speech error">> \in Seq(EventKinds)
    BY <1>3, Zenon DEF EventKinds
  <1>5. CASE e \in Lives
    BY <1>2, <1>5, LifeSteps, EmptySeq, ConcatEmptySeq, Zenon
  <1>6. CASE e = <<>>
    <2>1. LifeRecording \o <<"SessionCancelled">> \in Seq(EventKinds)
      BY LifeSteps, Zenon DEF Beginnings
    <2>2. e \o (LifeRecording \o <<"SessionCancelled">>) \in Lives
      BY <1>6, <2>1, LifeSteps, ConcatEmptySeq, Zenon
    <2> QED
      BY <1>2, <2>1, <2>2, Zenon
  <1>7. CASE e \in {LifeRecording, LifeQueued, LifeLost, LifeRefused}
    BY <1>2, <1>4, <1>7, LifeSteps, Zenon
  <1>8. CASE e = LifeStarted
    BY <1>2, <1>4, <1>8, LifeSteps, Zenon
  <1>9. CASE e = LifeTaken
    <2>1. /\ <<"SessionCancelled">> \in Seq(EventKinds)
          /\ LifeTaken \o <<"SessionCancelled">> \in Lives
      BY <1>4, Zenon DEF Lives, LifeTaken
    <2> QED
      BY <1>2, <1>9, <2>1, Zenon
  <1> QED
    BY <1>5, <1>6, <1>7, <1>8, <1>9, Zenon DEF Beginnings

=============================================================================
