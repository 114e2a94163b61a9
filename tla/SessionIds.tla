----------------------------- MODULE SessionIds -----------------------------
(***************************************************************************)
(* core/session_id: the identifiers every component tags its work with.    *)
(***************************************************************************)

CONSTANTS Sessions,     \* the SessionId values of a behaviour
          NoSession     \* an empty optional<SessionId>

ASSUME SessionIdAssumption == NoSession \notin Sessions
=============================================================================
