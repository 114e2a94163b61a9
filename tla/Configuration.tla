---------------------------- MODULE Configuration ----------------------------
(***************************************************************************)
(* domains/config: configuration_manager and toml_codec, with the part of  *)
(* ipc/message_codec and command_dispatcher that changes a configuration.  *)
(* The process may die between any two system calls and be started again,  *)
(* and while it is down the user may edit the file.  A power loss, which   *)
(* the code does not guard against, is not modelled.                       *)
(*                                                                         *)
(* Fields differ only in how a value is checked: Checked ones by           *)
(* validate(), Enumerated ones when they are parsed, the others by type.   *)
(***************************************************************************)
EXTENDS Naturals

CONSTANTS Checked, Enumerated, Plain      \* names of fields

Field == Checked \cup Enumerated \cup Plain

ASSUME FieldAssumption ==
    Checked \cap Enumerated = {} /\ Checked \cap Plain = {} /\ Enumerated \cap Plain = {}

\* A value is the default, another good one, or one that validate() refuses.
Configurations == {c \in [Field -> {"default", "chosen", "refused"}] :
                      \A f \in Field : c[f] = "refused" => f \in Checked}

\* What a file or a set_config message says of a field: nothing, something of
\* the wrong type, or a value, which may be one that is refused.
Entries == {d \in [Field -> {"missing", "mistyped", "default", "chosen", "refused"}] :
               \A f \in Field : d[f] = "refused" => f \notin Plain}

VARIABLES file,      \* config.toml
          temp,      \* the temporary file of this process
          cpc,       \* where the process is
          current,   \* configuration_
          next,      \* the configuration being written
          errors,    \* history: how often the last load() named each field
          seen,      \* the copies of the components that follow ConfigurationChanged
          kept,      \* history: the configuration last loaded or acknowledged
          settled    \* history: the file has not been edited since

configVars == <<file, temp, cpc, current, next, errors, seen, kept, settled>>

Defaults == [f \in Field |-> "default"]
Silent   == [f \in Field |-> 0]

Contents == [kind : {"absent", "garbage"}, says : {Defaults}] \cup [kind : {"document"}, says : Entries]
Absent   == [kind |-> "absent", says |-> Defaults]
Garbage  == [kind |-> "garbage", says |-> Defaults]
Document(d) == [kind |-> "document", says |-> d]

\* The file, the fields of ConfigurationManager and the history; no configuration
\* holds a value its field's parser refuses.
ConfigTypeOK ==
    /\ file \in Contents
    /\ temp \in Contents
    /\ cpc \in {"down", "up", "write", "flush", "rename", "commit"}
    /\ current \in Configurations /\ next \in Configurations
    /\ seen \in Configurations /\ kept \in Configurations
    /\ errors \in [Field -> Nat]
    /\ settled \in BOOLEAN

ConfigInit ==
    /\ file = Absent /\ temp = Absent
    /\ cpc = "down"
    /\ current = Defaults /\ next = Defaults /\ seen = Defaults /\ kept = Defaults
    /\ errors = Silent
    /\ settled = FALSE

-----------------------------------------------------------------------------
(* toml_codec *)

\* The fields validate() complains about.
Validate(c) == {f \in Checked : c[f] = "refused"}

EncodeToml(c) == Document(c)

\* The first pass of decode_toml(): typed values over the defaults.
Typed(d) ==
    [f \in Field |-> IF d[f] \in {"missing", "mistyped"} \/ (d[f] = "refused" /\ f \in Enumerated)
                       THEN "default" ELSE d[f]]

\* Fault: an unknown enumerator is not reported.
UntypedByTypeOnly(d) == {f \in Field : d[f] = "mistyped"}

Untyped(d) == {f \in Field : d[f] = "mistyped" \/ (d[f] = "refused" /\ f \in Enumerated)}

\* decode_toml(): what fails validate() falls back to its default.
DecodeToml(d) ==
    [configuration |-> [f \in Field |-> IF f \in Validate(Typed(d)) THEN "default" ELSE Typed(d)[f]],
     errors |-> [f \in Field |-> (IF f \in Untyped(d) THEN 1 ELSE 0)
                                   + (IF f \in Validate(Typed(d)) THEN 1 ELSE 0)]]

\* decode_set_config(): values over the current ones, or an error at the first
\* one of the wrong type.
SetConfigAccepted(d) == Untyped(d) = {}
DecodeSetConfig(d) == [f \in Field |-> IF d[f] = "missing" THEN current[f] ELSE d[f]]

-----------------------------------------------------------------------------
(* load() *)

\* The directory or the file cannot be reached or read.
LoadFails ==
    /\ cpc = "down"
    /\ cpc' = "up"
    /\ current' = Defaults /\ seen' = Defaults
    /\ errors' = Silent
    /\ UNCHANGED <<file, temp, next, kept, settled>>

\* A document that is not TOML at all falls back to the defaults as a whole.
LoadReads ==
    /\ cpc = "down"
    /\ file.kind # "absent"
    /\ LET decoded == IF file.kind = "document" THEN DecodeToml(file.says)
                      ELSE [configuration |-> Defaults, errors |-> Silent]
       IN  /\ current' = decoded.configuration
           /\ seen' = decoded.configuration
           /\ kept' = decoded.configuration
           /\ errors' = decoded.errors
    /\ settled' = (file.kind = "document")
    /\ cpc' = "up"
    /\ UNCHANGED <<file, temp, next>>

\* There is no file: the defaults are written.
LoadCreates ==
    /\ cpc = "down"
    /\ file.kind = "absent"
    /\ current' = Defaults /\ seen' = Defaults /\ next' = Defaults
    /\ errors' = Silent
    /\ cpc' = "write"
    /\ UNCHANGED <<file, temp, kept, settled>>

-----------------------------------------------------------------------------
(* set_config and update() *)

\* Fault: update() changes the configuration before it is saved.
SetConfigEarly(d) ==
    /\ cpc = "up"
    /\ SetConfigAccepted(d)
    /\ Validate(DecodeSetConfig(d)) = {}
    /\ next' = DecodeSetConfig(d)
    /\ current' = DecodeSetConfig(d)
    /\ cpc' = "write"
    /\ UNCHANGED <<file, temp, errors, seen, kept, settled>>

SetConfig(d) ==
    /\ cpc = "up"
    /\ SetConfigAccepted(d)
    /\ Validate(DecodeSetConfig(d)) = {}
    /\ next' = DecodeSetConfig(d)
    /\ cpc' = "write"
    /\ UNCHANGED <<file, temp, current, errors, seen, kept, settled>>

\* Fault: the file itself is written.
WriteInPlace ==
    /\ cpc = "write"
    /\ \/ \E lostFields \in SUBSET Field \ {{}} :
             temp' = Document([f \in Field |-> IF f \in lostFields THEN "missing" ELSE next[f]])
       \/ temp' = Garbage
    /\ file' = temp'
    /\ cpc' = "flush"
    /\ UNCHANGED <<current, next, errors, seen, kept, settled>>

\* write_file_atomically(): open and write, perhaps not all of it, ...
WriteTemp ==
    /\ cpc = "write"
    /\ \/ \E lostFields \in SUBSET Field \ {{}} :
             temp' = Document([f \in Field |-> IF f \in lostFields THEN "missing" ELSE next[f]])
       \/ temp' = Garbage
    /\ cpc' = "flush"
    /\ UNCHANGED <<file, current, next, errors, seen, kept, settled>>

FlushTemp ==
    /\ cpc = "flush"
    /\ temp' = EncodeToml(next)
    /\ cpc' = "rename"
    /\ UNCHANGED <<file, current, next, errors, seen, kept, settled>>

\* ... or fail at it, which leaves the temporary file, ...
WriteFails ==
    /\ cpc \in {"write", "flush"}
    /\ cpc' = "up"
    /\ UNCHANGED <<file, temp, current, next, errors, seen, kept, settled>>

\* ... and rename it, or remove it.
Rename ==
    /\ cpc = "rename"
    /\ file' = temp
    /\ temp' = Absent
    /\ cpc' = "commit"
    /\ UNCHANGED <<current, next, errors, seen, kept, settled>>

RenameFails ==
    /\ cpc = "rename"
    /\ temp' = Absent
    /\ cpc' = "up"
    /\ UNCHANGED <<file, current, next, errors, seen, kept, settled>>

\* The end of update(): commit, publish ConfigurationChanged, acknowledge.
Commit ==
    /\ cpc = "commit"
    /\ current' = next
    /\ seen' = next
    /\ kept' = next
    /\ settled' = TRUE
    /\ cpc' = "up"
    /\ UNCHANGED <<file, temp, next, errors>>

-----------------------------------------------------------------------------
(* The world outside *)

\* The process ends, by a signal or a crash.  Its temporary file carries its
\* process id, so nobody reads it again.
Exit ==
    /\ cpc # "down"
    /\ cpc' = "down"
    /\ temp' = Absent
    /\ kept' = IF cpc = "commit" THEN next ELSE kept      \* saved, if not acknowledged
    /\ settled' = (settled \/ cpc = "commit")
    /\ current' = Defaults /\ next' = Defaults /\ seen' = Defaults /\ errors' = Silent
    /\ UNCHANGED file

Edit ==
    /\ cpc = "down"
    /\ file' \in Contents
    /\ settled' = FALSE
    /\ UNCHANGED <<temp, cpc, current, next, errors, seen, kept>>

ConfigNext ==
    \/ LoadFails \/ LoadReads \/ LoadCreates
    \/ \E d \in Entries : SetConfig(d)
    \/ WriteTemp \/ FlushTemp \/ WriteFails \/ Rename \/ RenameFails \/ Commit
    \/ Exit \/ Edit

ConfigSpec == ConfigInit /\ [][ConfigNext]_configVars

-----------------------------------------------------------------------------
(* Properties *)

\* The file is never half written: between edits by the user it decodes to the
\* configuration last acknowledged, or to the one that was renamed into place and
\* is about to be, so that a restart brings back no other.
DiskHoldsAcknowledged ==
    settled =>
        /\ file.kind = "document"
        /\ DecodeToml(file.says).configuration = IF cpc = "commit" THEN next ELSE kept

\* load() names every field it replaced, once, and no other.
FaultsReportedOnce ==
    [][LoadReads /\ file.kind = "document" =>
          \A f \in Field :
              LET faulty == file.says[f] \in {"mistyped", "refused"}
              IN  /\ errors'[f] = IF faulty THEN 1 ELSE 0
                  /\ current'[f] = IF faulty \/ file.says[f] = "missing" THEN "default" ELSE file.says[f]]_configVars

\* A failed or unfinished update leaves memory and observers on the same,
\* acknowledged configuration; a finished one moves them together.
ObserversFollow == seen = current /\ (cpc = "up" /\ settled => current \in {kept, Defaults})
=============================================================================
