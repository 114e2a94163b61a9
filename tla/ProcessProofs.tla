---------------------------- MODULE ProcessProofs ----------------------------
(***************************************************************************)
(* Proofs about what daemon processes leave behind when they end at any    *)
(* point: the configuration file, for any set of fields, and the socket    *)
(* file and the clipboard's children, for any number of processes and      *)
(* texts of any size.                                                      *)
(***************************************************************************)
EXTENDS Configuration, Instances, TLAPS

-----------------------------------------------------------------------------
(* The configuration: what was acknowledged is on disk and comes back,       *)
(* wherever the process dies.                                                *)

\* The file a successful write leaves, and what it decodes to.
Loads(c) == DecodeToml(c).configuration

\* ConfigTypeOK, DiskHoldsAcknowledged and ObserversFollow, with what they need of
\* an update in progress: it writes a configuration validate() accepts, the
\* temporary file is whole before it is renamed, and memory keeps the acknowledged
\* configuration until the rename.
ConfigInv ==
    /\ ConfigTypeOK
    /\ cpc \in {"write", "flush", "rename", "commit"} => Validate(next) = {}
    /\ cpc = "rename" => temp = Document(next)
    /\ cpc = "commit" => file = Document(next)
    /\ settled => file.kind = "document"
    /\ settled /\ cpc # "commit" => Loads(file.says) = kept
    /\ seen = current
    /\ settled /\ cpc # "down" => current \in {kept, Defaults}

-----------------------------------------------------------------------------
(* toml_codec *)

\* The defaults are a valid configuration, so a load() that falls back to them can save them.
LEMMA DefaultsFit == Defaults \in Configurations /\ Validate(Defaults) = {} /\ Defaults \in Entries
<1>1. Defaults \in [Field -> {"default"}] /\ \A f \in Field : Defaults[f] = "default"
    BY Zenon DEF Defaults
<1>2. Defaults \in Configurations
    BY <1>1, Zenon DEF Configurations
<1>3. Defaults \in Entries
    BY <1>1, Zenon DEF Entries
<1>4. Validate(Defaults) = {}
    BY <1>1, Zenon DEF Validate, Field
<1>5. QED
    BY <1>2, <1>3, <1>4, Zenon

\* Whatever a document says, it decodes to a configuration.
LEMMA DecodesToConfiguration ==
    ASSUME NEW d \in Entries
    PROVE  Loads(d) \in Configurations /\ DecodeToml(d).errors \in [Field -> Nat]
<1>1. Loads(d) = [f \in Field |-> IF f \in Validate(Typed(d)) THEN "default" ELSE Typed(d)[f]]
    BY Zenon DEF Loads, DecodeToml
<1>2. ASSUME NEW f \in Field
      PROVE  /\ Loads(d)[f] \in {"default", "chosen", "refused"}
             /\ Loads(d)[f] # "refused"
    <2>1. Typed(d)[f] = IF d[f] \in {"missing", "mistyped"} \/ (d[f] = "refused" /\ f \in Enumerated)
                          THEN "default" ELSE d[f]
        BY Zenon DEF Typed
    <2>2. d[f] \in {"missing", "mistyped", "default", "chosen", "refused"} /\ (d[f] = "refused" => f \notin Plain)
        BY Zenon DEF Entries
    <2>3. f \in Validate(Typed(d)) <=> f \in Checked /\ Typed(d)[f] = "refused"
        BY Zenon DEF Validate
    <2>4. QED
        BY <1>1, <2>1, <2>2, <2>3, Zenon DEF Field
<1>3. Loads(d) \in Configurations
    BY <1>1, <1>2, Zenon DEF Configurations
<1>4. DecodeToml(d).errors = [f \in Field |-> (IF f \in Untyped(d) THEN 1 ELSE 0)
                                   + (IF f \in Validate(Typed(d)) THEN 1 ELSE 0)]
    BY Zenon DEF DecodeToml
<1>5. QED
    BY <1>3, <1>4

\* What is encoded decodes to itself.
LEMMA RoundTrip ==
    ASSUME NEW c \in Configurations, Validate(c) = {}
    PROVE  c \in Entries /\ Loads(c) = c
<1>1. c \in [Field -> {"default", "chosen", "refused"}] /\ \A f \in Field : c[f] # "refused"
    BY Zenon DEF Configurations, Validate
<1>2. c \in Entries
    BY <1>1, Zenon DEF Entries
<1>3. Typed(c) = c
    BY <1>1, Zenon DEF Typed
<1>4. Loads(c) = [f \in Field |-> IF f \in Validate(Typed(c)) THEN "default" ELSE Typed(c)[f]]
    BY Zenon DEF Loads, DecodeToml
<1>5. QED
    BY <1>1, <1>2, <1>3, <1>4, Zenon

\* An accepted set_config yields a configuration.
LEMMA SetConfigDecodes ==
    ASSUME NEW d \in Entries, current \in Configurations, SetConfigAccepted(d)
    PROVE  DecodeSetConfig(d) \in Configurations
<1>1. ASSUME NEW f \in Field
      PROVE  /\ d[f] \in {"missing", "default", "chosen", "refused"}
             /\ d[f] = "refused" => f \in Checked
             /\ current[f] \in {"default", "chosen", "refused"} /\ (current[f] = "refused" => f \in Checked)
    BY Zenon DEF SetConfigAccepted, Untyped, Entries, Configurations, Field
<1>2. QED
    BY <1>1, Zenon DEF DecodeSetConfig, Configurations

-----------------------------------------------------------------------------
(* The manager *)

\* What the three kinds of file content are, for the file write_file_atomically() replaces.
LEMMA ContentTypes ==
    /\ Absent \in Contents /\ Garbage \in Contents
    /\ \A d \in Entries : Document(d) \in Contents /\ Document(d).kind = "document" /\ Document(d).says = d
    /\ \A c \in Contents : c.kind = "document" => c.says \in Entries
<1>1. Absent \in [kind : {"absent", "garbage"}, says : {Defaults}]
    BY Zenon DEF Absent
<1>2. Garbage \in [kind : {"absent", "garbage"}, says : {Defaults}]
    BY Zenon DEF Garbage
<1>3. \A d \in Entries : /\ Document(d) \in [kind : {"document"}, says : Entries]
                         /\ Document(d).kind = "document" /\ Document(d).says = d
    BY Zenon DEF Document
<1>4. ASSUME NEW c \in Contents, c.kind = "document" PROVE c.says \in Entries
    BY <1>4, Zenon DEF Contents
<1>5. QED
    BY <1>1, <1>2, <1>3, <1>4, Zenon DEF Contents

\* The inductive invariant holds before the first load().
LEMMA ConfigStart == ConfigInit => ConfigInv
<1> SUFFICES ASSUME ConfigInit PROVE ConfigInv
    BY Zenon
<1>1. ConfigTypeOK
    BY DefaultsFit, ContentTypes, Zenon DEF ConfigInit, ConfigTypeOK, Silent
<1>2. cpc = "down" /\ ~settled /\ seen = current
    BY Zenon DEF ConfigInit
<1>3. QED
    BY <1>1, <1>2, Zenon DEF ConfigInv

\* load(), update() with each of its outcomes, an exit at any point and edits of
\* the file by hand keep the inductive invariant.
LEMMA ConfigStep == ConfigInv /\ [ConfigNext]_configVars => ConfigInv'
<1> SUFFICES ASSUME ConfigInv, [ConfigNext]_configVars PROVE ConfigInv'
    BY Zenon
<1> USE DEF ConfigInv, ConfigTypeOK
<1>0. Silent \in [Field -> Nat]
    BY Zenon DEF Silent
<1>1. CASE LoadFails
    BY <1>0, <1>1, DefaultsFit, Zenon DEF LoadFails
<1>2. CASE LoadReads
    <2>1. CASE file.kind = "document"
        <3>1. /\ current' = Loads(file.says) /\ seen' = Loads(file.says) /\ kept' = Loads(file.says)
              /\ errors' = DecodeToml(file.says).errors /\ settled' = TRUE /\ cpc' = "up"
              /\ UNCHANGED <<file, temp, next>>
            BY <1>2, <2>1, Zenon DEF LoadReads, Loads
        <3>2. Loads(file.says) \in Configurations /\ DecodeToml(file.says).errors \in [Field -> Nat]
            BY <2>1, ContentTypes, DecodesToConfiguration, Zenon
        <3>3. QED
            BY <2>1, <3>1, <3>2, Zenon
    <2>2. CASE file.kind # "document"
        <3>1. /\ current' = Defaults /\ seen' = Defaults /\ kept' = Defaults
              /\ errors' = Silent /\ settled' = FALSE /\ cpc' = "up"
              /\ UNCHANGED <<file, temp, next>>
            BY <1>2, <2>2, Zenon DEF LoadReads
        <3>2. QED
            BY <1>0, <3>1, DefaultsFit, Zenon
    <2>3. QED
        BY <2>1, <2>2, Zenon
<1>3. CASE LoadCreates
    BY <1>0, <1>3, DefaultsFit, Zenon DEF LoadCreates
<1>4. ASSUME NEW d \in Entries, SetConfig(d) PROVE ConfigInv'
    BY <1>4, SetConfigDecodes, Zenon DEF SetConfig
<1>5. CASE WriteTemp
    <2>1. temp' \in Contents
        <3>1. ASSUME NEW lostFields \in SUBSET Field,
                     temp' = Document([f \in Field |-> IF f \in lostFields THEN "missing" ELSE next[f]])
              PROVE  temp' \in Contents
            <4>1. next \in Entries
                BY <1>5, RoundTrip, Zenon DEF WriteTemp
            <4>2. [f \in Field |-> IF f \in lostFields THEN "missing" ELSE next[f]] \in Entries
                BY <4>1, Zenon DEF Entries
            <4>3. QED
                BY <3>1, <4>2, ContentTypes, Zenon
        <3>2. QED
            BY <1>5, <3>1, ContentTypes, Zenon DEF WriteTemp
    <2>2. QED
        BY <1>5, <2>1, Zenon DEF WriteTemp
<1>6. CASE FlushTemp
    <2>1. next \in Entries /\ temp' = Document(next)
        BY <1>6, RoundTrip, Zenon DEF FlushTemp, EncodeToml
    <2>2. QED
        BY <1>6, <2>1, ContentTypes, Zenon DEF FlushTemp
<1>7. CASE WriteFails
    BY <1>7, Zenon DEF WriteFails
<1>8. CASE Rename
    <2>1. next \in Entries /\ file' = Document(next)
        BY <1>8, RoundTrip, Zenon DEF Rename
    <2>2. QED
        BY <1>8, <2>1, ContentTypes, Zenon DEF Rename
<1>9. CASE RenameFails
    BY <1>9, ContentTypes, Zenon DEF RenameFails
<1>10. CASE Commit
    <2>1. next \in Entries /\ Loads(next) = next /\ file = Document(next)
        BY <1>10, RoundTrip, Zenon DEF Commit
    <2>2. QED
        BY <1>10, <2>1, ContentTypes, Zenon DEF Commit
<1>11. CASE Exit
    <2>1. cpc = "commit" => next \in Entries /\ Loads(next) = next
        BY RoundTrip, Zenon
    <2>2. CASE cpc = "commit"
        BY <1>0, <1>11, <2>1, <2>2, DefaultsFit, ContentTypes, Zenon DEF Exit
    <2>3. CASE cpc # "commit"
        BY <1>0, <1>11, <2>3, DefaultsFit, ContentTypes, Zenon DEF Exit
    <2>4. QED
        BY <2>2, <2>3, Zenon
<1>12. CASE Edit
    BY <1>12, Zenon DEF Edit
<1>13. CASE UNCHANGED configVars
    BY <1>13, Zenon DEF configVars
<1>14. QED
    BY <1>1, <1>2, <1>3, <1>4, <1>5, <1>6, <1>7, <1>8, <1>9, <1>10, <1>11, <1>12, <1>13, Zenon DEF ConfigNext

\* Disk, memory and observers stay related as ConfigInv says, whatever fails.
THEOREM ConfigInvAlways == ConfigSpec => []ConfigInv
BY ConfigStart, ConfigStep, PTL DEF ConfigSpec

\* Every value in memory and on disk is one its field can have.
THEOREM ConfigTypesAlways == ConfigSpec => []ConfigTypeOK
<1>1. ConfigInv => ConfigTypeOK
    BY Zenon DEF ConfigInv
<1>2. QED
    BY <1>1, ConfigInvAlways, PTL

\* The file always decodes to what was last acknowledged or is about to be.
THEOREM DiskHoldsAcknowledgedAlways == ConfigSpec => []DiskHoldsAcknowledged
<1>1. ConfigInv => DiskHoldsAcknowledged
    <2> SUFFICES ASSUME ConfigInv, settled
                 PROVE  /\ file.kind = "document"
                        /\ Loads(file.says) = IF cpc = "commit" THEN next ELSE kept
        BY Zenon DEF DiskHoldsAcknowledged, Loads
    <2>1. CASE cpc = "commit"
        BY <2>1, RoundTrip, ContentTypes, Zenon DEF ConfigInv, ConfigTypeOK
    <2>2. CASE cpc # "commit"
        BY <2>2, Zenon DEF ConfigInv
    <2>3. QED
        BY <2>1, <2>2, Zenon
<1>2. QED
    BY <1>1, ConfigInvAlways, PTL

\* Memory and observers move together, and only to what was acknowledged.
THEOREM ObserversFollowAlways == ConfigSpec => []ObserversFollow
<1>1. ConfigInv => ObserversFollow
    BY Zenon DEF ConfigInv, ObserversFollow
<1>2. QED
    BY <1>1, ConfigInvAlways, PTL

\* load() names every field it replaced, once, and no other.
THEOREM FaultsReportedOnceAlways == ConfigSpec => FaultsReportedOnce
<1> DEFINE Reported == \A f \in Field :
              LET faulty == file.says[f] \in {"mistyped", "refused"}
              IN  /\ errors'[f] = IF faulty THEN 1 ELSE 0
                  /\ current'[f] = IF faulty \/ file.says[f] = "missing" THEN "default" ELSE file.says[f]
<1>1. ConfigInv /\ [ConfigNext]_configVars => [LoadReads /\ file.kind = "document" => Reported]_configVars
    <2> SUFFICES ASSUME ConfigInv, LoadReads, file.kind = "document", NEW f \in Field
                 PROVE  LET faulty == file.says[f] \in {"mistyped", "refused"}
                        IN  /\ errors'[f] = IF faulty THEN 1 ELSE 0
                            /\ current'[f] = IF faulty \/ file.says[f] = "missing" THEN "default" ELSE file.says[f]
        BY Zenon
    <2> DEFINE d == file.says
    <2>1. d \in Entries
        BY ContentTypes, Zenon DEF ConfigInv, ConfigTypeOK
    <2>2. /\ current' = DecodeToml(d).configuration /\ errors' = DecodeToml(d).errors
        BY Zenon DEF LoadReads
    <2> HIDE DEF d
    <2>3. /\ current'[f] = IF f \in Validate(Typed(d)) THEN "default" ELSE Typed(d)[f]
          /\ errors'[f] = (IF f \in Untyped(d) THEN 1 ELSE 0) + (IF f \in Validate(Typed(d)) THEN 1 ELSE 0)
        BY <2>2, Zenon DEF DecodeToml
    <2>4. Typed(d)[f] = IF d[f] \in {"missing", "mistyped"} \/ (d[f] = "refused" /\ f \in Enumerated)
                          THEN "default" ELSE d[f]
        BY Zenon DEF Typed
    <2>5. d[f] \in {"missing", "mistyped", "default", "chosen", "refused"} /\ (d[f] = "refused" => f \notin Plain)
        BY <2>1, Zenon DEF Entries
    <2>6. /\ f \in Validate(Typed(d)) <=> f \in Checked /\ Typed(d)[f] = "refused"
          /\ f \in Untyped(d) <=> d[f] = "mistyped" \/ (d[f] = "refused" /\ f \in Enumerated)
        BY Zenon DEF Validate, Untyped
    <2>7. /\ errors'[f] = IF d[f] \in {"mistyped", "refused"} THEN 1 ELSE 0
          /\ current'[f] = IF d[f] \in {"mistyped", "refused"} \/ d[f] = "missing" THEN "default" ELSE d[f]
        BY <2>3, <2>4, <2>5, <2>6, FieldAssumption DEF Field, FieldAssumption
    <2>8. QED
        BY <2>7, Zenon DEF d
<1>2. QED
    BY <1>1, ConfigInvAlways, PTL DEF ConfigSpec, FaultsReportedOnce

-----------------------------------------------------------------------------
(* The processes that share a socket path: no clipboard command leaves a     *)
(* trace, and the socket file follows its owner.                             *)

Places == Alive \cup {"off", "gone", "crashed", "piped"}

\* A process inside copy() serves and ignores SIGPIPE, so it is never ended by a
\* broken pipe; outside, it has neither a child nor a pipe.  Nothing is known of
\* the child of a process that crashed.
Clean ==
    /\ pc \in [Daemons -> Places]
    /\ copying \in [Daemons -> {"no", "write", "wait", "kill"}]
    /\ writeEnd \in [Daemons -> BOOLEAN]
    /\ child \in [Daemons -> {"none", "running", "ok", "failed"}]
    /\ \A p \in Daemons :
          /\ pc[p] # "piped"
          /\ pc[p] = "serving" => p \in sigpipe
          /\ pc[p] # "serving" => copying[p] = "no"
          /\ pc[p] # "crashed" /\ copying[p] = "no" => child[p] = "none" /\ ~writeEnd[p]
          /\ copying[p] \in {"wait", "kill"} => ~writeEnd[p]

\* From the unlink() of start() to the one of stop().
Region == {"unlink", "bind", "listen", "wake", "boot", "serving", "cleanup"}

\* FileFollowsOwner needs that, without overlap and with every probe, at most one
\* process is in there: one more would have found the socket of the first live.
Follows ==
    /\ pc \in [Daemons -> Places]
    /\ path \in Daemons \cup {NoFile}
    /\ \A p \in Daemons : path = p => pc[p] \in {"listen", "wake", "boot", "serving", "cleanup", "crashed"}
    /\ ~overlapped => \A p, q \in Daemons : pc[p] \in InCall /\ pc[q] \in InCall => p = q
    /\ ~overlapped /\ ~blind =>
          /\ \A p, q \in Daemons : pc[p] \in Region /\ pc[q] \in Region => p = q
          /\ \A p \in Daemons : pc[p] \in {"listen", "wake", "boot", "serving"} => path = p
          /\ \A p \in Daemons : pc[p] \in {"wake", "boot", "serving"} => p \in listening

-----------------------------------------------------------------------------
(* The clipboard command *)

\* No process runs a clipboard command in the initial state.
LEMMA CleanStart == InstancesInit => Clean
BY DEF InstancesInit, ClipboardInit, Clean, Places

\* A step of p inside start(), stop() or main().
LEMMA GotoClean ==
    ASSUME Clean, NEW p \in Daemons, NEW from, NEW to \in Places \ {"serving", "piped", "crashed"}, Goto(p, from, to),
           from # "crashed", copying[p] = "no", UNCHANGED <<clipboardVars, sigpipe>>
    PROVE  Clean'
BY Zenon DEF Clean, Goto, clipboardVars

\* Every step of every process keeps copy() and the SIGPIPE disposition paired.
LEMMA CleanStep == Clean /\ [InstancesNext]_instancesVars => Clean'
<1> SUFFICES ASSUME Clean, [InstancesNext]_instancesVars PROVE Clean'
    BY Zenon
<1>1. ASSUME NEW p \in Daemons,
             \/ Launch(p) \/ Probe(p) \/ Unlink(p) \/ Bind(p) \/ Listen(p) \/ CreateWake(p) \/ Cleanup(p) \/ Stop(p)
      PROVE  Clean'
    <2>1. /\ \E from \in Places \ {"crashed"}, to \in Places \ {"serving", "piped", "crashed"} : Goto(p, from, to)
          /\ pc[p] # "serving" \/ copying[p] = "no"
        BY <1>1, Zenon DEF Launch, Probe, Unlink, Bind, Listen, CreateWake, Cleanup, Stop, Places, Alive, InCall, Goto
    <2>2. UNCHANGED <<clipboardVars, sigpipe>>
        BY <1>1, Zenon DEF Launch, Probe, Unlink, Bind, Listen, CreateWake, Cleanup, Stop
    <2>3. QED
        BY <2>1, <2>2, GotoClean, Zenon DEF Clean
<1>2. ASSUME NEW p \in Daemons, InstallHandlers(p) PROVE Clean'
    BY <1>2, Zenon DEF InstallHandlers, Goto, Clean, Places, Alive, clipboardVars
<1>3. ASSUME NEW p \in Daemons, Serve(p) PROVE Clean'
    <2>1. CASE FollowConfiguration(p)
        BY <1>3, <2>1, Zenon DEF Serve, FollowConfiguration, Clean, socketVars
    <2>2. ASSUME NEW n \in TextSizes, CopyForks(p, n) PROVE Clean'
        BY <1>3, <2>2, Zenon DEF Serve, CopyForks, Clean, socketVars
    <2>3. QED
        BY <1>3, <2>1, <2>2, Zenon DEF Serve
<1>4. ASSUME NEW p \in Daemons, Copy(p) PROVE Clean'
    <2>1. CopyStep(p) /\ UNCHANGED socketVars /\ pc[p] = "serving"
        BY <1>4, Zenon DEF Copy, Clean
    <2>2. CASE CopyWrites(p) \/ WaitTimesOut(p)
        BY <2>1, <2>2 DEF CopyWrites, WaitTimesOut, Clean, socketVars
    <2>3. CASE CopyCloses(p)
        BY <2>1, <2>3, Zenon DEF CopyCloses, Clean, socketVars
    <2>4. CASE WaitReaps(p) \/ CopyKills(p)
        BY <2>1, <2>4 DEF WaitReaps, CopyKills, Clean, socketVars
    <2>5. QED
        BY <2>1, <2>2, <2>3, <2>4, Zenon DEF CopyStep
<1>5. ASSUME NEW p \in Daemons, Children(p) PROVE Clean'
    BY <1>5 DEF Children, ChildReads, ChildCloses, HelperEnds, ChildExits, Clean, socketVars
<1>6. ASSUME NEW p \in Daemons, Crash(p) PROVE Clean'
    BY <1>6, Zenon DEF Crash, ParentDies, Goto, Clean, Places
<1>7. CASE Done \/ UNCHANGED instancesVars
    BY <1>7, Zenon DEF Done, instancesVars, clipboardVars, socketVars, Clean
<1>8. QED
    BY <1>1, <1>2, <1>3, <1>4, <1>5, <1>6, <1>7, Zenon DEF InstancesNext, Process

\* Whatever the clipboard command does, the daemon survives it and keeps nothing of it.
THEOREM ChildLeavesNoTraceAlways == InstancesSpec => []ChildLeavesNoTrace
<1>1. Clean => ChildLeavesNoTrace
    BY Zenon DEF Clean, ChildLeavesNoTrace
<1>2. QED
    BY <1>1, CleanStart, CleanStep, PTL DEF InstancesSpec

-----------------------------------------------------------------------------
(* The socket file *)

\* No process owns the socket file in the initial state.
LEMMA FollowsStart == InstancesInit => Follows
BY NoFileAssumption, Zenon DEF InstancesInit, Follows, Places, Region, InCall, NoFileAssumption

\* No step undoes what the history says, and a step of p moves nobody else.
LEMMA GotoMoves ==
    ASSUME Follows, NEW p \in Daemons, NEW from, NEW to \in Places, Goto(p, from, to)
    PROVE  /\ pc' \in [Daemons -> Places] /\ pc[p] = from /\ pc'[p] = to
           /\ \A q \in Daemons \ {p} : pc'[q] = pc[q]
           /\ overlapped => overlapped'
           /\ ~overlapped' => \A q, r \in Daemons : pc'[q] \in InCall /\ pc'[r] \in InCall => q = r
<1>1. pc' \in [Daemons -> Places] /\ pc[p] = from /\ pc'[p] = to /\ \A q \in Daemons \ {p} : pc'[q] = pc[q]
    BY Zenon DEF Goto, Follows
<1>2. overlapped' = (overlapped \/ \E q, r \in Daemons : q # r /\ {pc'[q], pc'[r]} \subseteq InCall)
    BY Zenon DEF Goto
<1>3. overlapped => overlapped'
    BY <1>2, Zenon
<1>4. ~overlapped' => \A q, r \in Daemons : pc'[q] \in InCall /\ pc'[r] \in InCall => q = r
    BY <1>2, Zenon
<1>5. QED
    BY <1>1, <1>3, <1>4, Zenon

\* Every step of start(), stop() and crashes keeps the file with its owner, as long
\* as no two calls met.
LEMMA FollowsStep == Clean /\ Follows /\ [InstancesNext]_instancesVars => Follows'
<1> SUFFICES ASSUME Clean, Follows, [InstancesNext]_instancesVars PROVE Follows'
    BY Zenon
<1> USE DEF Follows, Region, InCall
<1>0. "off" \in Places /\ InCall \subseteq Places /\ {"boot", "serving", "gone", "crashed", "piped"} \subseteq Places
    BY Zenon DEF Places, Alive
<1>1. ASSUME NEW p \in Daemons, Launch(p) PROVE Follows'
    <2>1. Goto(p, "off", "probe") /\ UNCHANGED <<path, listening, blind>>
        BY <1>1, Zenon DEF Launch
    <2>2. QED
        BY <1>0, <2>1, GotoMoves
<1>2. ASSUME NEW p \in Daemons, Probe(p) PROVE Follows'
    <2>1. UNCHANGED <<path, listening>>
        BY <1>2, Zenon DEF Probe
    <2>2. CASE Goto(p, "probe", "gone") /\ UNCHANGED blind
        BY <1>0, <2>1, <2>2, GotoMoves
    <2>3. CASE ~IsSocketLive /\ Goto(p, "probe", "unlink") /\ UNCHANGED blind
        <3>1. /\ pc' \in [Daemons -> Places] /\ pc[p] = "probe" /\ pc'[p] = "unlink"
              /\ \A q \in Daemons \ {p} : pc'[q] = pc[q]
              /\ overlapped => overlapped'
              /\ ~overlapped' => \A q, r \in Daemons : pc'[q] \in InCall /\ pc'[r] \in InCall => q = r
            BY <1>0, <2>3, GotoMoves, Zenon
        <3>2. ASSUME ~overlapped', ~blind', NEW q \in Daemons, pc[q] \in Region PROVE FALSE
            <4>1. ~overlapped /\ ~blind
                BY <2>3, <3>1, <3>2, Zenon
            <4>2. q # p
                BY <3>1, <3>2, Zenon
            <4>3. pc[q] \in {"boot", "serving"}
                BY <3>1, <3>2, <4>2, Zenon
            <4>4. path = q /\ q \in listening
                BY <4>1, <4>3, Zenon
            <4>5. IsSocketLive
                BY <4>3, <4>4, NoFileAssumption, Zenon DEF IsSocketLive, Held, NoFileAssumption
            <4>6. QED
                BY <2>3, <4>5, Zenon
        <3>3. QED
            BY <2>1, <2>3, <3>1, <3>2, Zenon
    <2>4. CASE Goto(p, "probe", "unlink") /\ blind' = TRUE
        BY <1>0, <2>1, <2>4, GotoMoves
    <2>5. QED
        BY <1>2, <2>2, <2>3, <2>4, Zenon DEF Probe
<1>3. ASSUME NEW p \in Daemons, Unlink(p) PROVE Follows'
    <2>1. Goto(p, "unlink", "bind") /\ path' = NoFile /\ UNCHANGED <<listening, blind>>
        BY <1>3, Zenon DEF Unlink
    <2>2. QED
        BY <1>0, <2>1, GotoMoves, NoFileAssumption DEF NoFileAssumption
<1>4. ASSUME NEW p \in Daemons, Bind(p) PROVE Follows'
    <2>1. UNCHANGED <<listening, blind>>
        BY <1>4, Zenon DEF Bind
    <2>2. CASE path = NoFile /\ Goto(p, "bind", "listen") /\ path' = p
        BY <1>0, <2>1, <2>2, GotoMoves
    <2>3. CASE Goto(p, "bind", "gone") /\ UNCHANGED path
        BY <1>0, <2>1, <2>3, GotoMoves
    <2>4. QED
        BY <1>4, <2>2, <2>3, Zenon DEF Bind
<1>5. ASSUME NEW p \in Daemons, Listen(p) PROVE Follows'
    <2>1. UNCHANGED <<path, blind>>
        BY <1>5, Zenon DEF Listen
    <2>2. CASE Goto(p, "listen", "wake") /\ listening' = listening \cup {p}
        BY <1>0, <2>1, <2>2, GotoMoves
    <2>3. CASE Goto(p, "listen", "cleanup") /\ UNCHANGED listening
        BY <1>0, <2>1, <2>3, GotoMoves
    <2>4. QED
        BY <1>5, <2>2, <2>3, Zenon DEF Listen
<1>6. ASSUME NEW p \in Daemons, CreateWake(p) \/ InstallHandlers(p) \/ Stop(p) PROVE Follows'
    <2>1. UNCHANGED <<path, listening, blind>>
        BY <1>6, Zenon DEF CreateWake, InstallHandlers, Stop
    <2>2. \/ Goto(p, "wake", "boot") \/ Goto(p, "wake", "cleanup")
          \/ Goto(p, "boot", "serving") \/ Goto(p, "serving", "cleanup")
        BY <1>6, Zenon DEF CreateWake, InstallHandlers, Stop
    <2>3. QED
        BY <1>0, <2>1, <2>2, GotoMoves
<1>7. ASSUME NEW p \in Daemons, Cleanup(p) PROVE Follows'
    <2>1. Goto(p, "cleanup", "gone") /\ path' = NoFile /\ UNCHANGED <<listening, blind>>
        BY <1>7, Zenon DEF Cleanup
    <2>2. QED
        BY <1>0, <2>1, GotoMoves, NoFileAssumption DEF NoFileAssumption
<1>8. ASSUME NEW p \in Daemons, Crash(p) PROVE Follows'
    <2>1. Goto(p, pc[p], "crashed") /\ UNCHANGED <<path, listening, blind>> /\ pc[p] \in Alive
        BY <1>8, Zenon DEF Crash
    <2>2. QED
        BY <1>0, <2>1, GotoMoves DEF Alive
<1>9. ASSUME NEW p \in Daemons, Serve(p) \/ Copy(p) \/ Children(p) PROVE UNCHANGED socketVars
    BY <1>9, Zenon DEF Serve, Copy, Children, Clean
<1>10. CASE UNCHANGED socketVars
    BY <1>10, Zenon DEF socketVars
<1>11. QED
    BY <1>1, <1>2, <1>3, <1>4, <1>5, <1>6, <1>7, <1>8, <1>9, <1>10, Zenon
       DEF InstancesNext, Process, Done, instancesVars

\* A daemon that serves is the one clients reach, and only a crash leaves a file
\* without its process.
THEOREM FileFollowsOwnerAlways == InstancesSpec => []FileFollowsOwner
<1>1. Follows => FileFollowsOwner
    BY Zenon DEF Follows, FileFollowsOwner
<1>2. QED
    BY <1>1, CleanStart, CleanStep, FollowsStart, FollowsStep, PTL DEF InstancesSpec

-----------------------------------------------------------------------------
(* Types *)

\* The types of the clipboard's fields, step by step.
LEMMA ClipboardTypesStep ==
    ASSUME ClipboardTypeOK, NEW p \in Daemons,
           \/ FollowConfiguration(p) \/ (\E n \in TextSizes : CopyForks(p, n)) \/ CopyStep(p) \/ ParentDies(p)
           \/ ChildReads(p) \/ ChildCloses(p) \/ HelperEnds(p)
           \/ \E status \in {"ok", "failed"}, orphan \in BOOLEAN : ChildExits(p, status, orphan)
    PROVE  ClipboardTypeOK'
<1> USE DEF ClipboardTypeOK
<1>0. PipeRoom \in Nat \ {0} /\ TextSizes \subseteq Nat /\ MaxCopies \in Nat
    BY ClipboardAssumption, Zenon DEF ClipboardAssumption
<1>1. CASE FollowConfiguration(p)
    BY <1>1, ZenonT(30) DEF FollowConfiguration
<1>2. CASE \E n \in TextSizes : CopyForks(p, n)
    BY <1>0, <1>2 DEF CopyForks
<1>3. CASE CopyWrites(p)
    <2>1. unsent[p] - 1 \in Nat /\ pipe[p] + 1 \in 0 .. PipeRoom
        BY <1>0, <1>3 DEF CopyWrites
    <2>2. QED
        BY <1>3, <2>1, Zenon DEF CopyWrites
<1>4. CASE CopyCloses(p)
    BY <1>4 DEF CopyCloses
<1>5. CASE WaitReaps(p) \/ WaitTimesOut(p)
    BY <1>5 DEF WaitReaps, WaitTimesOut
<1>a. CASE CopyKills(p)
    <2>1. stdin' \in [Daemons -> BOOLEAN]
        BY <1>a, Zenon DEF CopyKills
    <2>2. QED
        BY <1>a, <2>1 DEF CopyKills
<1>6. CASE ParentDies(p)
    <2>1. 0 \in Nat /\ FALSE \in BOOLEAN
        BY Zenon
    <2>2. QED
        BY <1>6, <2>1, ZenonT(30) DEF ParentDies
<1>7. CASE ChildReads(p)
    <2>1. pipe[p] - 1 \in 0 .. PipeRoom
        BY <1>0, <1>7 DEF ChildReads
    <2>2. QED
        BY <1>7, <2>1, Zenon DEF ChildReads
<1>8. CASE ChildCloses(p) \/ HelperEnds(p)
    <2>1. stdin' \in [Daemons -> BOOLEAN] /\ helper' \in [Daemons -> BOOLEAN]
        BY <1>8, Zenon DEF ChildCloses, HelperEnds
    <2>2. QED
        BY <1>8, <2>1 DEF ChildCloses, HelperEnds
<1>9. CASE \E status \in {"ok", "failed"}, orphan \in BOOLEAN : ChildExits(p, status, orphan)
    <2>1. PICK status \in {"ok", "failed"}, orphan \in BOOLEAN : ChildExits(p, status, orphan)
        BY <1>9, Zenon
    <2>2. (helper[p] \/ status = "ok") \in BOOLEAN
        BY Zenon
    <2>3. helper' \in [Daemons -> BOOLEAN]
        BY <2>1, <2>2, Zenon DEF ChildExits
    <2>4. QED
        BY <2>1, <2>3 DEF ChildExits
<1>10. QED
    BY <1>1, <1>2, <1>3, <1>4, <1>5, <1>6, <1>7, <1>8, <1>9, <1>a, Zenon DEF CopyStep

\* The fields of every process, the file and the clipboard's locals stay in their
\* types; the pipe never holds more than it has room for.
THEOREM InstancesTypesAlways == InstancesSpec => []InstancesTypeOK
<1>1. InstancesInit => InstancesTypeOK
    <2>1. ClipboardInit => ClipboardTypeOK
        BY ClipboardAssumption DEF ClipboardAssumption, ClipboardInit, ClipboardTypeOK
    <2>2. QED
        BY <2>1, Zenon DEF InstancesInit, InstancesTypeOK
<1>2. InstancesTypeOK /\ [InstancesNext]_instancesVars => InstancesTypeOK'
    <2> SUFFICES ASSUME InstancesTypeOK, [InstancesNext]_instancesVars PROVE InstancesTypeOK'
        BY Zenon
    <2>0. ClipboardTypeOK
        BY Zenon DEF InstancesTypeOK
    <2>1. ASSUME NEW p \in Daemons, NEW to \in Alive \cup {"off", "gone", "crashed", "piped"}, Goto(p, pc[p], to)
          PROVE  pc' \in [Daemons -> Alive \cup {"off", "gone", "crashed", "piped"}] /\ overlapped' \in BOOLEAN
        BY <2>1, Zenon DEF Goto, InstancesTypeOK
    <2>2. ASSUME NEW p \in Daemons,
                 \/ Launch(p) \/ Probe(p) \/ Unlink(p) \/ Bind(p) \/ Listen(p) \/ CreateWake(p) \/ Cleanup(p)
                 \/ InstallHandlers(p) \/ Stop(p)
          PROVE  InstancesTypeOK'
        <3>1. /\ \E to \in Alive \cup {"off", "gone", "crashed", "piped"} : Goto(p, pc[p], to)
              /\ UNCHANGED clipboardVars
            BY <2>2, Zenon DEF Launch, Probe, Unlink, Bind, Listen, CreateWake, Cleanup, InstallHandlers, Stop, Goto, Alive, InCall
        <3>2. /\ path' \in Daemons \cup {NoFile} /\ listening' \subseteq Daemons /\ sigpipe' \subseteq Daemons
              /\ blind' \in BOOLEAN
            BY <2>2, Zenon DEF Launch, Probe, Unlink, Bind, Listen, CreateWake, Cleanup, InstallHandlers, Stop, InstancesTypeOK
        <3>3. ClipboardTypeOK'
            BY <2>0, <3>1, Zenon DEF ClipboardTypeOK, clipboardVars
        <3>4. QED
            BY <2>1, <3>1, <3>2, <3>3, Zenon DEF InstancesTypeOK
    <2>3. ASSUME NEW p \in Daemons, Serve(p) \/ Copy(p) \/ Crash(p) \/ Children(p)
          PROVE  InstancesTypeOK'
        <3>1. ClipboardTypeOK'
            <4>1. (pc[p] \notin Alive) \in BOOLEAN
                BY Zenon
            <4>2. QED
                BY <2>0, <2>3, <4>1, ClipboardTypesStep, Zenon DEF Serve, Copy, Crash, Children
        <3>2. \/ UNCHANGED socketVars
              \/ /\ \E to \in {"crashed", "piped"} : Goto(p, pc[p], to)
                 /\ UNCHANGED <<path, listening, sigpipe, blind>>
            BY <2>3, Zenon DEF Serve, Copy, Crash, Children, Goto
        <3>3. QED
            BY <2>1, <3>1, <3>2, Zenon DEF InstancesTypeOK, socketVars
    <2>4. CASE UNCHANGED instancesVars
        BY <2>4, Zenon DEF instancesVars, clipboardVars, socketVars, InstancesTypeOK, ClipboardTypeOK
    <2>5. QED
        BY <2>2, <2>3, <2>4, Zenon DEF InstancesNext, Process, Done
<1>3. QED
    BY <1>1, <1>2, PTL DEF InstancesSpec
=============================================================================
