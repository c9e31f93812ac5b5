------------------------------ MODULE Delivery ------------------------------
(***************************************************************************)
(* What a download promises about its output path, without sidecar,        *)
(* segments, writer and channel: the sessions of a path gather the bytes   *)
(* of one file.  A session may drop what it finds only when it opens the   *)
(* file; after that, whatever fails, no right byte is lost before the      *)
(* session ends, and it ends with Ok only when the file is complete.       *)
(* Module Storage implements it.                                           *)
(***************************************************************************)
EXTENDS Integers

CONSTANTS FileSize

VARIABLES
    phase,    \* "down", "prepared", "running"
    outcome,  \* of the last session: "none", "ok", "err", "aborted"
    have,     \* bytes that are on disk as the server has them
    length    \* length of the file

vars == <<phase, outcome, have, length>>

Bytes == 0 .. FileSize - 1
Complete == have = Bytes /\ length = FileSize

Init == phase = "down" /\ outcome = "none" /\ have \subseteq Bytes /\ length \in Nat

\* A session is planned; the file is not touched.
Plan ==
    /\ phase = "down" /\ phase' = "prepared" /\ outcome' = "none"
    /\ UNCHANGED <<have, length>>

\* The file is opened: resumed as it is, or begun anew.
Open ==
    /\ phase = "prepared" /\ phase' = "running" /\ outcome' = outcome
    /\ \/ UNCHANGED <<have, length>>
       \/ have' = {} /\ length' = 0

\* Bytes arrive, in any order and any number.
Gather ==
    /\ phase = "running" /\ phase' = "running" /\ outcome' = outcome
    /\ have' \in SUBSET Bytes /\ have \subseteq have'
    /\ length' >= length

\* The session ends.
End ==
    /\ phase' = "down" /\ outcome' \in {"ok", "err", "aborted"}
    /\ outcome' = "ok" => phase = "running" /\ Complete
    /\ UNCHANGED <<have, length>>

\* Somebody else touches the file of a download that is not finished.
Damage ==
    /\ phase = "down" /\ outcome # "ok"
    /\ have' \in SUBSET have /\ length' <= length
    /\ UNCHANGED <<phase, outcome>>

Next == Plan \/ Open \/ Gather \/ End \/ Damage

Spec == Init /\ [][Next]_vars
=============================================================================
