--------------------------- MODULE ScheduleLeases ---------------------------
(***************************************************************************)
(* What the lease store promises to the runs that use it: a specification   *)
(* of workers that claim, act under their fence, renew, release, hold back  *)
(* and crash in any order, with the history its promises speak of.          *)
(***************************************************************************)
EXTENDS LeaseStore

VARIABLES
    granted,   \* history: every claim that ever succeeded
    finished,  \* history: the generations released by their owner
    acted      \* history: the generation that last passed the fence

leaseVars == <<now, rows, claims, granted, finished, acted>>

Grant == [schedule : Schedules, generation : Nat, owner : Workers]

GrantOf(s, r) == [schedule |-> s, generation |-> r.generation,
                  owner |-> r.owner]

\* A row of a database created before the lease_generation column existed:
\* the migration of `init` gives it generation 1, whoever owns it.
Migrated == [owner : Workers, expires_at : 0..MaxTime + Ttl,
             generation : {1}]

LeaseInit ==
    /\ now \in 0..MaxTime
    /\ rows \in [Schedules -> {NoRow} \cup Migrated]
    /\ claims = NoClaims
    /\ granted = {GrantOf(s, rows[s]) :
                     s \in {t \in Schedules : rows[t] # NoRow}}
    /\ finished = {}
    /\ acted = [s \in Schedules |-> 0]

Claim(w, s) ==
    /\ StoreClaim(w, s)
    /\ granted' = granted \cup {GrantOf(s, ClaimedRow(w, rows[s]))}
    /\ UNCHANGED <<finished, acted>>

Renew(w, s) == StoreRenew(w, s) /\ UNCHANGED <<granted, finished, acted>>

Release(w, s) ==
    /\ StoreRelease(w, s)
    /\ finished' = IF rows[s].owner = w
                   THEN finished \cup {<<s, rows[s].generation>>}
                   ELSE finished
    /\ UNCHANGED <<granted, acted>>

Hold(w, s) == StoreHold(w, s) /\ UNCHANGED <<granted, finished, acted>>

LeaseCrash(w) == StoreCrash(w) /\ UNCHANGED <<granted, finished, acted>>

\* A run passes its fence before a side effect.
Act(w, s) ==
    /\ claims[w][s] # NoClaim
    /\ IsCurrent(w, s)
    /\ acted' = [acted EXCEPT ![s] = claims[w][s].generation]
    /\ UNCHANGED <<now, rows, claims, granted, finished>>

LeaseClock == StoreClock /\ UNCHANGED <<granted, finished, acted>>

LeaseNext ==
    \/ LeaseClock
    \/ \E w \in Workers : LeaseCrash(w)
    \/ \E w \in Workers, s \in Schedules :
          \/ Claim(w, s)
          \/ Renew(w, s)
          \/ Release(w, s)
          \/ Hold(w, s)
          \/ Act(w, s)

LeaseSpec == LeaseInit /\ [][LeaseNext]_leaseVars

-----------------------------------------------------------------------------

\* Every variable has its type: the rows and the claims of the store, and the
\* history of the claims the code granted.
LeaseTypeOK ==
    /\ StoreTypeOK
    /\ granted \subseteq Grant
    /\ finished \subseteq Schedules \X Nat
    /\ acted \in [Schedules -> Nat]

\* A generation is granted once: across releases, lapses, crashes, restarts and
\* clock jumps no two claims of a schedule ever carry the same generation
\* (schedule_leases.rs keeps the released row so that the sequence continues).
GenerationUnique ==
    \A g, h \in granted :
        g.schedule = h.schedule /\ g.generation = h.generation => g = h

\* The run that replaces one that never released is told exactly whom it
\* replaces, and a run that follows a clean release is told of nobody: the
\* takeover check sees every lapsed run and no finished one.
TakeoverReported ==
    \A w \in Workers, s \in Schedules :
        LET c == claims[w][s] IN
        c # NoClaim =>
            IF c.lapsed_owner = Tombstone
            THEN c.generation = 1 \/ <<s, c.generation - 1>> \in finished
            ELSE /\ <<s, c.generation - 1>> \notin finished
                 /\ [schedule |-> s, generation |-> c.generation - 1,
                     owner |-> c.lapsed_owner] \in granted

\* Side effects pass the fence in the order of their generations: once a run has
\* acted, no run of an earlier generation ever acts again (the promise of the
\* fencing token, whatever the clock does).
FenceOrder ==
    [][\A s \in Schedules : acted'[s] >= acted[s]]_leaseVars

\* A fence that was superseded, or whose lease its owner released, is stale for
\* good: no later step makes it current again, although an expired one that
\* nobody took may come back when the clock steps back.
StaleForGood ==
    [][\A w \in Workers, s \in Schedules :
          /\ claims[w][s] # NoClaim
          /\ claims'[w][s] = claims[w][s]
          /\ \/ claims[w][s].generation < rows[s].generation
             \/ <<s, claims[w][s].generation>> \in finished
          => ~IsCurrent(w, s)']_leaseVars
=============================================================================
