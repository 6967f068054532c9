----------------------------- MODULE LeaseStore -----------------------------
(***************************************************************************)
(* The cross-process lease store (crates/supercli-core/schedule_leases.rs): *)
(* one SQLite row per schedule (or durable run), claimed, renewed and       *)
(* released by workers, and the fencing token a run carries while it acts.  *)
(*                                                                          *)
(* Every statement of the store is one SQLite transaction that compares the *)
(* row with the database clock, so every operation is one action.  The      *)
(* clock is the machine's wall clock: it may jump, backwards too.           *)
(*                                                                          *)
(* The row that does not exist yet is the tombstone of generation 0: claim  *)
(* treats both alike (generation + 1, nothing taken over).                  *)
(***************************************************************************)
EXTENDS Naturals

CONSTANTS
    Workers,        \* store instances, each with its own owner id
    Schedules,      \* row keys of one tenant
    Tombstone,      \* owner = '' in the table: released, or never claimed
    Ttl,            \* ttl_ms, in clock units
    MaxTime,        \* bound on the clock
    MaxGeneration   \* bound on the generations a row goes through

ASSUME TombstoneAssumption == Tombstone \notin Workers
ASSUME TtlAssumption == Ttl \in Nat \ {0}
ASSUME BoundsAssumption == MaxTime \in Nat /\ MaxGeneration \in Nat

VARIABLES
    now,       \* the database clock (DB_NOW_MS)
    rows,      \* the schedule_leases table
    claims     \* the ClaimInfo of the run a worker is in, per schedule

Owners == Workers \cup {Tombstone}

\* claimed_at_ms is left out: it only ever appears in a message.
Row == [owner : Owners, expires_at : Nat, generation : Nat]

NoRow == [owner |-> Tombstone, expires_at |-> 0, generation |-> 0]

\* took_over is flattened: lapsed_owner = Tombstone stands for None.
ClaimInfo == [generation : Nat, lapsed_owner : Owners]

NoClaim == [generation |-> 0, lapsed_owner |-> Tombstone]

NoClaims == [w \in Workers |-> [s \in Schedules |-> NoClaim]]

StoreTypeOK ==
    /\ now \in Nat
    /\ rows \in [Schedules -> Row]
    /\ claims \in [Workers -> [Schedules -> ClaimInfo]]

-----------------------------------------------------------------------------

\* The WHERE clause of the claim: a tombstone, or a lease past its expiry.
Lapsed(r) == r.owner = Tombstone \/ r.expires_at <= now

\* The row a successful claim writes.
ClaimedRow(w, r) == [owner |-> w, expires_at |-> now + Ttl,
                     generation |-> r.generation + 1]

\* What a successful claim returns: its generation and whom it took over.  A
\* clean release left a tombstone, and nothing to inspect.
ClaimResult(r) == [generation |-> r.generation + 1, lapsed_owner |-> r.owner]

\* A claim by a worker that is not already in a run of s: the scheduler's tick
\* is sequential and fires a schedule only after the previous run returned.  A
\* claim of a live lease, the worker's own too, changes nothing.
StoreClaim(w, s) ==
    /\ claims[w][s] = NoClaim
    /\ Lapsed(rows[s])
    /\ rows[s].generation < MaxGeneration
    /\ rows' = [rows EXCEPT ![s] = ClaimedRow(w, rows[s])]
    /\ claims' = [claims EXCEPT ![w][s] = ClaimResult(rows[s])]
    /\ UNCHANGED now

RenewedRow(r) == [r EXCEPT !.expires_at = now + Ttl]

\* An owner extends a lease that has not expired; the generation stays.
StoreRenew(w, s) ==
    /\ claims[w][s] # NoClaim
    /\ rows[s].owner = w
    /\ rows[s].expires_at > now
    /\ rows' = [rows EXCEPT ![s] = RenewedRow(rows[s])]
    /\ UNCHANGED <<now, claims>>

\* Mutant: release deletes the row instead of keeping a tombstone.
ReleasedRowDeleted(r) == NoRow

\* Mutant: release expires the row but leaves its owner.
ReleasedRowOwned(r) == [r EXCEPT !.expires_at = 0]

\* Mutant: release backdates the expiry by one time to live.
ReleasedRowBackdated(r) == [r EXCEPT !.owner = Tombstone,
                                     !.expires_at = now - Ttl]

ReleasedRow(r) == [r EXCEPT !.owner = Tombstone, !.expires_at = 0]

\* The run ends and releases.  Only the owner's release takes effect, and it
\* does so after expiry too; a stale worker's release is a silent no-op.
StoreRelease(w, s) ==
    /\ claims[w][s] # NoClaim
    /\ claims' = [claims EXCEPT ![w][s] = NoClaim]
    /\ rows' = IF rows[s].owner = w
               THEN [rows EXCEPT ![s] = ReleasedRow(rows[s])]
               ELSE rows
    /\ UNCHANGED now

\* The takeover check sent the schedule to needs_review: the worker fires
\* nothing and leaves the lease to lapse.
StoreHold(w, s) ==
    /\ claims[w][s] # NoClaim
    /\ claims' = [claims EXCEPT ![w][s] = NoClaim]
    /\ UNCHANGED <<now, rows>>

\* The process dies and restarts: its runs are gone, its rows stay.  The owner
\* id is made of the pid, which the operating system may hand out again.
StoreCrash(w) ==
    /\ claims' = [claims EXCEPT ![w] = [s \in Schedules |-> NoClaim]]
    /\ UNCHANGED <<now, rows>>

\* Mutant: the fence asks only whether somebody holds a live lease.
IsLive(w, s) == rows[s].expires_at > now

\* LeaseFence::is_current for the fence of w's run of s.
IsCurrent(w, s) ==
    /\ rows[s].owner = w
    /\ rows[s].generation = claims[w][s].generation
    /\ rows[s].expires_at > now

\* The wall clock moves, in either direction.
StoreClock ==
    /\ now' \in 0..MaxTime
    /\ UNCHANGED <<rows, claims>>
=============================================================================
