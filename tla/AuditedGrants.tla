---------------------------- MODULE AuditedGrants ----------------------------
(***************************************************************************)
(* What the grant store promises (grant_store.rs, "crash safety and write   *)
(* order"), in terms of what a power loss leaves: a grant is durable only   *)
(* after the audit entry that explains it, the audit log loses nothing, and *)
(* no grant disappears except one from before there was an audit log and    *)
(* one that an edit dropped which could not read the files.                 *)
(***************************************************************************)
CONSTANTS
    Keys,     \* grant keys
    Legacy    \* the grants of a store from before the audit log

VARIABLES
    recorded,   \* keys with a durable audit entry
    granted,    \* keys of the durable grants.json
    wiped       \* keys that an edit dropped which could not read the files, and
                \* that were not granted again

vars == <<recorded, granted, wiped>>

Init == recorded = {} /\ granted = Legacy /\ wiped = {}

\* One durable step: audit entries R appear; grants G, audited before, appear;
\* grants Q, which the audit log does not explain or which were wiped, go.
Commit(R, G, Q) ==
    /\ G \subseteq recorded
    /\ Q \subseteq Legacy \cup wiped
    /\ recorded' = recorded \cup R
    /\ granted' = (granted \cup G) \ Q
    /\ wiped \ G \subseteq wiped' /\ wiped' \subseteq wiped

\* An edit that could not read the files drops the grants D.
Wipe(D) == wiped' = wiped \cup D /\ UNCHANGED <<recorded, granted>>

Next ==
    \/ \E R, G, Q \in SUBSET Keys : Commit(R, G, Q)
    \/ \E D \in SUBSET Keys : Wipe(D)

Spec == Init /\ [][Next]_vars
=============================================================================
