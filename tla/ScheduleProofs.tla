--------------------------- MODULE ScheduleProofs ---------------------------
(***************************************************************************)
(* Theorems about the leases and about the fires that run under them, for   *)
(* every set of workers and schedules, every time to live and every clock,  *)
(* any number of calls, retries and reviews, and any faults.                *)
(***************************************************************************)
EXTENDS ScheduleLeases, ScheduledFire, SequenceTheorems, TLAPS

-----------------------------------------------------------------------------
(* The lease store: what it grants, reports and fences.                     *)

\* A live row carries its own grant and an unfinished generation; a tombstone
\* is the missing row or a finished generation.
RowAccounted ==
    \A s \in Schedules :
        IF rows[s].owner = Tombstone
        THEN rows[s].generation = 0 \/ <<s, rows[s].generation>> \in finished
        ELSE /\ GrantOf(s, rows[s]) \in granted
             /\ <<s, rows[s].generation>> \notin finished

\* The row's generation bounds every generation ever granted, finished, held
\* or acted upon.
GenerationBounds ==
    /\ \A g \in granted : g.generation <= rows[g.schedule].generation
    /\ \A s \in Schedules, n \in Nat :
          <<s, n>> \in finished => n <= rows[s].generation
    /\ \A w \in Workers, s \in Schedules :
          claims[w][s] # NoClaim =>
             /\ claims[w][s].generation > 0
             /\ claims[w][s].generation <= rows[s].generation
    /\ \A s \in Schedules : acted[s] <= rows[s].generation

\* The inductive invariant.
GrantInv ==
    /\ LeaseTypeOK
    /\ RowAccounted
    /\ GenerationBounds
    /\ GenerationUnique
    /\ TakeoverReported

-----------------------------------------------------------------------------

\* What a claim writes and returns has the row's and the result's type, and
\* carries the next generation.
LEMMA ClaimWrites ==
    ASSUME LeaseTypeOK, NEW w \in Workers, NEW s \in Schedules
    PROVE  /\ ClaimedRow(w, rows[s]) \in Row
           /\ ClaimResult(rows[s]) \in ClaimInfo
           /\ GrantOf(s, ClaimedRow(w, rows[s])) \in Grant
           /\ ClaimedRow(w, rows[s]).generation = rows[s].generation + 1
           /\ ClaimResult(rows[s]).generation = rows[s].generation + 1
  BY TtlAssumption
     DEF LeaseTypeOK, StoreTypeOK, Row, ClaimInfo, Grant, GrantOf, Owners,
                       ClaimedRow, ClaimResult

LEMMA GrantInvInit == LeaseInit => GrantInv
<1> SUFFICES ASSUME LeaseInit PROVE GrantInv
  OBVIOUS
<1> USE BoundsAssumption, TtlAssumption, TombstoneAssumption
<1>0. rows \in [Schedules -> Row] /\ now \in Nat
  BY DEF LeaseInit, NoClaims, NoRow, Migrated, Row, Owners
<1>1. LeaseTypeOK
  <2>1. granted \subseteq Grant
    BY <1>0 DEF LeaseInit, NoClaims, Grant, GrantOf, Migrated, NoRow
  <2>2. claims \in [Workers -> [Schedules -> ClaimInfo]]
    BY DEF LeaseInit, NoClaims, ClaimInfo, NoClaim, Owners
  <2> QED BY <1>0, <2>1, <2>2 DEF LeaseInit, NoClaims, LeaseTypeOK, StoreTypeOK
<1>2. RowAccounted
  BY DEF LeaseInit, NoClaims, RowAccounted, NoRow, Migrated
<1>3. GenerationBounds
  BY <1>0 DEF LeaseInit, NoClaims, GenerationBounds, GrantOf, Row
<1>4. GenerationUnique
  BY DEF LeaseInit, NoClaims, GenerationUnique, GrantOf
<1>5. TakeoverReported
  BY DEF LeaseInit, NoClaims, TakeoverReported
<1> QED BY <1>1, <1>2, <1>3, <1>4, <1>5 DEF GrantInv

\* Every step keeps the types.
LEMMA LeaseTypeStep == LeaseTypeOK /\ [LeaseNext]_leaseVars => LeaseTypeOK'
<1> SUFFICES ASSUME LeaseTypeOK, [LeaseNext]_leaseVars PROVE LeaseTypeOK'
  OBVIOUS
<1> USE BoundsAssumption, TtlAssumption
<1>1. CASE LeaseClock
  BY <1>1 DEF LeaseClock, StoreClock, LeaseTypeOK, StoreTypeOK
<1>2. ASSUME NEW w \in Workers, LeaseCrash(w) PROVE LeaseTypeOK'
  BY <1>2 DEF LeaseCrash, StoreCrash, LeaseTypeOK, StoreTypeOK, ClaimInfo, NoClaim, Owners
<1>3. ASSUME NEW w \in Workers, NEW s \in Schedules, Claim(w, s)
      PROVE LeaseTypeOK'
  BY <1>3, ClaimWrites DEF Claim, StoreClaim, LeaseTypeOK, StoreTypeOK
<1>4. ASSUME NEW w \in Workers, NEW s \in Schedules, Renew(w, s)
      PROVE LeaseTypeOK'
  BY <1>4 DEF Renew, StoreRenew, RenewedRow, LeaseTypeOK, StoreTypeOK, Row
<1>5. ASSUME NEW w \in Workers, NEW s \in Schedules, Release(w, s)
      PROVE LeaseTypeOK'
  <2>1. rows[s] \in Row /\ ReleasedRow(rows[s]) \in Row
    BY DEF LeaseTypeOK, StoreTypeOK, ReleasedRow, Row, Owners
  <2>2. rows' \in [Schedules -> Row] /\ finished' \subseteq Schedules \X Nat
    BY <1>5, <2>1 DEF Release, StoreRelease, LeaseTypeOK, StoreTypeOK, Row
  <2>3. claims' \in [Workers -> [Schedules -> ClaimInfo]]
    BY <1>5
       DEF Release, StoreRelease, LeaseTypeOK, StoreTypeOK, ClaimInfo, NoClaim,
           Owners
  <2> QED BY <1>5, <2>2, <2>3 DEF Release, StoreRelease, LeaseTypeOK, StoreTypeOK
<1>6. ASSUME NEW w \in Workers, NEW s \in Schedules, Hold(w, s)
      PROVE LeaseTypeOK'
  BY <1>6 DEF Hold, StoreHold, LeaseTypeOK, StoreTypeOK, ClaimInfo, NoClaim, Owners
<1>7. ASSUME NEW w \in Workers, NEW s \in Schedules, Act(w, s)
      PROVE LeaseTypeOK'
  BY <1>7 DEF Act, LeaseTypeOK, StoreTypeOK, ClaimInfo
<1>8. CASE UNCHANGED leaseVars
  BY <1>8 DEF leaseVars, LeaseTypeOK, StoreTypeOK
<1> QED
  BY <1>1, <1>2, <1>3, <1>4, <1>5, <1>6, <1>7, <1>8 DEF LeaseNext

\* A claim keeps the invariant: the granted generation is above everything
\* granted, finished or held before.
LEMMA ClaimStep ==
    ASSUME GrantInv, LeaseTypeOK', NEW w \in Workers, NEW s \in Schedules,
           Claim(w, s)
    PROVE  GrantInv'
<1> USE TombstoneAssumption DEF GrantInv
<1> DEFINE r == ClaimedRow(w, rows[s])
           g == GrantOf(s, r)
<1>1. /\ rows' = [rows EXCEPT ![s] = r]
      /\ granted' = granted \cup {g}
      /\ claims' = [claims EXCEPT ![w][s] = ClaimResult(rows[s])]
      /\ UNCHANGED <<now, finished, acted>>
  BY DEF Claim, StoreClaim
<1>2. /\ r.generation = rows[s].generation + 1 /\ rows[s].generation \in Nat
      /\ g.generation = r.generation /\ g.schedule = s
      /\ r.owner = w
  BY ClaimWrites DEF GrantOf, ClaimedRow, LeaseTypeOK, StoreTypeOK, Row
<1>3. RowAccounted'
  <2> SUFFICES ASSUME NEW t \in Schedules
               PROVE  (IF rows[t].owner = Tombstone
                       THEN rows[t].generation = 0
                            \/ <<t, rows[t].generation>> \in finished
                       ELSE /\ GrantOf(t, rows[t]) \in granted
                            /\ <<t, rows[t].generation>> \notin finished)'
    BY DEF RowAccounted
  <2>1. CASE t = s
    <3>1. rows'[t] = r
      BY <1>1, <2>1 DEF LeaseTypeOK, StoreTypeOK
    <3>2. <<s, r.generation>> \notin finished
      BY <1>2 DEF GenerationBounds, LeaseTypeOK, StoreTypeOK
    <3> QED BY <1>1, <1>2, <2>1, <3>1, <3>2
  <2>2. CASE t # s
    BY <1>1, <2>2 DEF RowAccounted, LeaseTypeOK, StoreTypeOK, GrantOf
  <2> QED BY <2>1, <2>2
<1>4. GenerationBounds'
  <2>1. \A t \in Schedules : /\ rows'[t].generation \in Nat
                             /\ rows[t].generation \in Nat
                             /\ rows'[t].generation >= rows[t].generation
    BY <1>1, <1>2 DEF LeaseTypeOK, StoreTypeOK, Row
  <2>2. (\A h \in granted : h.generation <= rows[h.schedule].generation)'
    BY <1>1, <1>2, <2>1 DEF GenerationBounds, LeaseTypeOK, StoreTypeOK, Grant
  <2>3. (\A t \in Schedules, n \in Nat :
            <<t, n>> \in finished => n <= rows[t].generation)'
    BY <1>1, <2>1 DEF GenerationBounds, LeaseTypeOK, StoreTypeOK
  <2>4. (\A v \in Workers, t \in Schedules :
            claims[v][t] # NoClaim =>
               /\ claims[v][t].generation > 0
               /\ claims[v][t].generation <= rows[t].generation)'
    <3> SUFFICES ASSUME NEW v \in Workers, NEW t \in Schedules,
                        claims'[v][t] # NoClaim
                 PROVE  /\ claims'[v][t].generation > 0
                        /\ claims'[v][t].generation <= rows'[t].generation
      OBVIOUS
    <3>1. CASE v = w /\ t = s
      <4>1. claims'[v][t] = ClaimResult(rows[s]) /\ rows'[t] = r
        BY <1>1, <3>1 DEF LeaseTypeOK, StoreTypeOK
      <4> QED BY <4>1, <1>2, ClaimWrites
    <3>2. CASE ~(v = w /\ t = s)
      <4>1. claims'[v][t] = claims[v][t]
        BY <1>1, <3>2 DEF LeaseTypeOK, StoreTypeOK
      <4>2. claims[v][t].generation \in Nat
        BY DEF LeaseTypeOK, StoreTypeOK, ClaimInfo
      <4>3. /\ claims[v][t].generation > 0
            /\ claims[v][t].generation <= rows[t].generation
        BY <4>1 DEF GenerationBounds
      <4> QED BY <4>1, <4>2, <4>3, <2>1
    <3> QED BY <3>1, <3>2
  <2>5. (\A t \in Schedules : acted[t] <= rows[t].generation)'
    BY <1>1, <2>1 DEF GenerationBounds, LeaseTypeOK, StoreTypeOK
  <2> QED BY <2>2, <2>3, <2>4, <2>5 DEF GenerationBounds
<1>5. GenerationUnique'
  BY <1>1, <1>2
     DEF GenerationUnique, GenerationBounds, LeaseTypeOK, StoreTypeOK, Grant
<1>6. TakeoverReported'
  <2> SUFFICES ASSUME NEW v \in Workers, NEW t \in Schedules,
                      claims'[v][t] # NoClaim
               PROVE  LET c == claims'[v][t] IN
                      IF c.lapsed_owner = Tombstone
                      THEN \/ c.generation = 1
                           \/ <<t, c.generation - 1>> \in finished
                      ELSE /\ <<t, c.generation - 1>> \notin finished
                           /\ [schedule |-> t, generation |-> c.generation - 1,
                               owner |-> c.lapsed_owner]
                                 \in granted'
    BY <1>1 DEF TakeoverReported
  <2>1. CASE v = w /\ t = s
    <3>1. claims'[v][t] = ClaimResult(rows[s])
      BY <1>1, <2>1 DEF LeaseTypeOK, StoreTypeOK
    <3>2. rows[s].generation + 1 - 1 = rows[s].generation
      BY <1>2
    <3>3. CASE rows[s].owner = Tombstone
      <4>1. /\ ClaimResult(rows[s]).lapsed_owner = Tombstone
            /\ ClaimResult(rows[s]).generation = rows[s].generation + 1
        BY <3>3 DEF ClaimResult
      <4>2. rows[s].generation = 0 \/ <<s, rows[s].generation>> \in finished
        BY <3>3 DEF RowAccounted
      <4> QED BY <1>2, <2>1, <3>1, <3>2, <4>1, <4>2
    <3>4. CASE rows[s].owner # Tombstone
      <4>1. ClaimResult(rows[s]) = [generation |-> rows[s].generation + 1,
                                    lapsed_owner |-> rows[s].owner]
        BY <3>4 DEF ClaimResult
      <4>2. /\ [schedule |-> s, generation |-> rows[s].generation,
                owner |-> rows[s].owner] \in granted
            /\ <<s, rows[s].generation>> \notin finished
        BY <3>4 DEF RowAccounted, GrantOf
      <4> QED BY <1>1, <1>2, <2>1, <3>1, <3>2, <3>4, <4>1, <4>2
    <3> QED BY <3>3, <3>4
  <2>2. CASE ~(v = w /\ t = s)
    <3>1. claims'[v][t] = claims[v][t]
      BY <1>1, <2>2 DEF LeaseTypeOK, StoreTypeOK
    <3> QED BY <1>1, <3>1 DEF TakeoverReported
  <2> QED BY <2>1, <2>2
<1> QED BY <1>3, <1>4, <1>5, <1>6

\* A release keeps the invariant: it finishes the row's generation, which no
\* later claim has followed yet.
LEMMA ReleaseStep ==
    ASSUME GrantInv, LeaseTypeOK', NEW w \in Workers, NEW s \in Schedules,
           Release(w, s)
    PROVE  GrantInv'
<1> USE TombstoneAssumption DEF GrantInv
<1>0. /\ \A v \in Workers, t \in Schedules :
            /\ claims'[v][t] = claims[v][t] \/ claims'[v][t] = NoClaim
            /\ claims[v][t].generation \in Nat
      /\ \A t \in Schedules : rows[t].generation \in Nat
      /\ UNCHANGED <<granted, acted>>
  BY DEF Release, StoreRelease, LeaseTypeOK, StoreTypeOK, ClaimInfo, Row
<1>1. CASE rows[s].owner # w
  <2>1. UNCHANGED <<rows, finished>>
    BY <1>1 DEF Release, StoreRelease
  <2>2. RowAccounted' /\ GenerationUnique'
    BY <1>0, <2>1 DEF RowAccounted, GenerationUnique, GrantOf
  <2>3. GenerationBounds'
    BY <1>0, <2>1 DEF GenerationBounds
  <2>4. TakeoverReported'
    BY <1>0, <2>1 DEF TakeoverReported
  <2> QED BY <2>2, <2>3, <2>4
<1>2. CASE rows[s].owner = w
  <2>1. /\ rows' = [rows EXCEPT ![s] = ReleasedRow(rows[s])]
        /\ finished' = finished \cup {<<s, rows[s].generation>>}
    BY <1>2 DEF Release, StoreRelease
  <2>2. /\ ReleasedRow(rows[s]).owner = Tombstone
        /\ ReleasedRow(rows[s]).generation = rows[s].generation
    BY DEF ReleasedRow, LeaseTypeOK, StoreTypeOK, Row
  <2>3. \A t \in Schedules : rows'[t].generation = rows[t].generation
    BY <2>1, <2>2 DEF LeaseTypeOK, StoreTypeOK
  <2>4. RowAccounted'
    <3> SUFFICES ASSUME NEW t \in Schedules
                 PROVE  (IF rows[t].owner = Tombstone
                         THEN rows[t].generation = 0
                              \/ <<t, rows[t].generation>> \in finished
                         ELSE /\ GrantOf(t, rows[t]) \in granted
                              /\ <<t, rows[t].generation>> \notin finished)'
      BY DEF RowAccounted
    <3>1. CASE t = s
      BY <2>1, <2>2, <3>1 DEF LeaseTypeOK, StoreTypeOK
    <3>2. CASE t # s
      BY <1>0, <2>1, <3>2 DEF RowAccounted, LeaseTypeOK, StoreTypeOK, GrantOf
    <3> QED BY <3>1, <3>2
  <2>5. GenerationBounds'
    <3>1. (\A h \in granted : h.generation <= rows[h.schedule].generation)'
      BY <1>0, <2>3 DEF GenerationBounds, LeaseTypeOK, StoreTypeOK, Grant
    <3>2. (\A t \in Schedules, n \in Nat :
              <<t, n>> \in finished => n <= rows[t].generation)'
      BY <1>0, <2>1, <2>3 DEF GenerationBounds
    <3>3. (\A v \in Workers, t \in Schedules :
              claims[v][t] # NoClaim =>
                 /\ claims[v][t].generation > 0
                 /\ claims[v][t].generation <= rows[t].generation)'
      BY <1>0, <2>3 DEF GenerationBounds
    <3>4. (\A t \in Schedules : acted[t] <= rows[t].generation)'
      BY <1>0, <2>3 DEF GenerationBounds
    <3> QED BY <3>1, <3>2, <3>3, <3>4 DEF GenerationBounds
  <2>6. GenerationUnique'
    BY <1>0 DEF GenerationUnique
  <2>7. TakeoverReported'
    <3> SUFFICES ASSUME NEW v \in Workers, NEW t \in Schedules,
                        claims'[v][t] # NoClaim
                 PROVE  LET c == claims'[v][t] IN
                        IF c.lapsed_owner = Tombstone
                        THEN \/ c.generation = 1
                             \/ <<t, c.generation - 1>> \in finished'
                        ELSE /\ <<t, c.generation - 1>> \notin finished'
                             /\ [schedule |-> t, generation |-> c.generation - 1,
                                 owner |-> c.lapsed_owner]
                                   \in granted'
      BY DEF TakeoverReported
    <3>1. claims'[v][t] = claims[v][t]
      BY <1>0
    <3>2. /\ claims[v][t].generation \in Nat /\ rows[t].generation \in Nat
          /\ claims[v][t].generation > 0
          /\ claims[v][t].generation <= rows[t].generation
      BY <1>0, <3>1 DEF GenerationBounds
    <3>3. claims[v][t].generation - 1 # rows[t].generation
      BY <3>2
    <3>4. <<t, claims[v][t].generation - 1>> # <<s, rows[s].generation>>
      BY <3>3
    <3> QED BY <1>0, <2>1, <3>1, <3>4 DEF TakeoverReported
  <2> QED BY <2>4, <2>5, <2>6, <2>7
<1> QED BY <1>1, <1>2

\* Every other step leaves the generations alone and forgets at most claims.
LEMMA OtherLeaseStep ==
    ASSUME GrantInv, LeaseTypeOK',
           \/ LeaseClock
           \/ \E w \in Workers : LeaseCrash(w)
           \/ \E w \in Workers, s \in Schedules :
                 Renew(w, s) \/ Hold(w, s) \/ Act(w, s)
           \/ UNCHANGED leaseVars
    PROVE  GrantInv'
<1> USE DEF GrantInv
<1>1. UNCHANGED <<granted, finished>>
  BY
     DEF LeaseClock, StoreClock, LeaseCrash, StoreCrash, Renew, StoreRenew, Hold,
         StoreHold, Act, leaseVars
<1>2. \A v \in Workers, t \in Schedules :
         claims'[v][t] = claims[v][t] \/ claims'[v][t] = NoClaim
  BY
     DEF LeaseClock, StoreClock, LeaseCrash, StoreCrash, Renew, StoreRenew, Hold,
         StoreHold, Act, leaseVars, LeaseTypeOK, StoreTypeOK
<1> DEFINE SameGrant(t) == /\ rows'[t].owner = rows[t].owner
                           /\ rows'[t].generation = rows[t].generation
<1>3. \A t \in Schedules : SameGrant(t)
  <2>1. ASSUME NEW w \in Workers, NEW s \in Schedules, Renew(w, s)
        PROVE  \A t \in Schedules : SameGrant(t)
    <3>1. /\ RenewedRow(rows[s]).owner = rows[s].owner
          /\ RenewedRow(rows[s]).generation = rows[s].generation
      BY DEF RenewedRow, LeaseTypeOK, StoreTypeOK, Row
    <3> QED BY <2>1, <3>1 DEF Renew, StoreRenew, LeaseTypeOK, StoreTypeOK
  <2>2. CASE UNCHANGED rows
    BY <2>2
  <2> QED BY <2>1, <2>2
     DEF LeaseClock, StoreClock, LeaseCrash, StoreCrash, Hold, StoreHold, Act, leaseVars
<1>4. \A t \in Schedules : acted'[t] <= rows[t].generation
  <2>1. ASSUME NEW w \in Workers, NEW s \in Schedules, Act(w, s)
        PROVE  \A t \in Schedules : acted'[t] <= rows[t].generation
    BY <2>1
       DEF Act, IsCurrent, LeaseTypeOK, StoreTypeOK, Row, ClaimInfo,
           GenerationBounds
  <2>2. CASE UNCHANGED acted
    BY <2>2 DEF GenerationBounds
  <2> QED BY <2>1, <2>2
     DEF LeaseClock, StoreClock, LeaseCrash, StoreCrash, Renew, StoreRenew, Hold,
         StoreHold, leaseVars
<1>5. RowAccounted' /\ GenerationUnique'
  BY <1>1, <1>3 DEF RowAccounted, GenerationUnique, GrantOf
<1>6. GenerationBounds'
  BY <1>1, <1>2, <1>3, <1>4 DEF GenerationBounds, LeaseTypeOK, StoreTypeOK, Grant
<1>7. TakeoverReported'
  BY <1>1, <1>2 DEF TakeoverReported
<1> QED BY <1>5, <1>6, <1>7

LEMMA GrantInvStep == GrantInv /\ [LeaseNext]_leaseVars => GrantInv'
<1> SUFFICES ASSUME GrantInv, [LeaseNext]_leaseVars PROVE GrantInv'
  OBVIOUS
<1>1. LeaseTypeOK'
  BY LeaseTypeStep DEF GrantInv
<1> QED BY <1>1, ClaimStep, ReleaseStep, OtherLeaseStep DEF LeaseNext

LEMMA GrantInvariant == LeaseSpec => []GrantInv
<1> QED BY GrantInvInit, GrantInvStep, PTL DEF LeaseSpec

-----------------------------------------------------------------------------

\* Every reachable state of the store is well typed.
THEOREM LeasesTyped == LeaseSpec => []LeaseTypeOK
<1>1. GrantInv => LeaseTypeOK
  BY DEF GrantInv
<1> QED BY <1>1, GrantInvariant, PTL

\* No two successful claims of a schedule ever carry the same generation.
THEOREM GenerationsAreUnique == LeaseSpec => []GenerationUnique
<1>1. GrantInv => GenerationUnique
  BY DEF GrantInv
<1> QED BY <1>1, GrantInvariant, PTL

\* A claim reports the run it replaces exactly when that run never released.
THEOREM TakeoversAreReported == LeaseSpec => []TakeoverReported
<1>1. GrantInv => TakeoverReported
  BY DEF GrantInv
<1> QED BY <1>1, GrantInvariant, PTL

\* Effects pass the fence in the order of the generations, for any clock.
THEOREM FencesAreOrdered == LeaseSpec => FenceOrder
<1>1. GrantInv /\ [LeaseNext]_leaseVars =>
         [\A s \in Schedules : acted'[s] >= acted[s]]_leaseVars
  <2> SUFFICES ASSUME GrantInv, LeaseNext, NEW t \in Schedules
               PROVE  acted'[t] >= acted[t]
    OBVIOUS
  <2> USE DEF GrantInv
  <2>0. acted[t] \in Nat /\ rows[t].generation \in Nat
        /\ acted[t] <= rows[t].generation
    BY DEF LeaseTypeOK, StoreTypeOK, Row, GenerationBounds
  <2>1. ASSUME NEW w \in Workers, NEW s \in Schedules, Act(w, s)
        PROVE  acted'[t] >= acted[t]
    BY <2>0, <2>1 DEF Act, IsCurrent, LeaseTypeOK, StoreTypeOK
  <2>2. CASE UNCHANGED acted
    BY <2>0, <2>2
  <2> QED
    BY <2>1, <2>2
       DEF LeaseNext, LeaseClock, StoreClock, LeaseCrash, StoreCrash, Claim, StoreClaim,
           Renew, StoreRenew, Release, StoreRelease, Hold, StoreHold
<1> QED BY <1>1, GrantInvariant, PTL DEF LeaseSpec, FenceOrder

\* A superseded or released fence never becomes current again.
THEOREM StaleFencesStayStale == LeaseSpec => StaleForGood
<1> DEFINE Stays ==
      \A w \in Workers, s \in Schedules :
          /\ claims[w][s] # NoClaim
          /\ claims'[w][s] = claims[w][s]
          /\ \/ claims[w][s].generation < rows[s].generation
             \/ <<s, claims[w][s].generation>> \in finished
          => ~IsCurrent(w, s)'
<1>1. GrantInv /\ GrantInv' /\ [LeaseNext]_leaseVars => [Stays]_leaseVars
  <2> SUFFICES ASSUME GrantInv, GrantInv', LeaseNext,
                      NEW w \in Workers, NEW s \in Schedules,
                      claims'[w][s] = claims[w][s],
                      \/ claims[w][s].generation < rows[s].generation
                      \/ <<s, claims[w][s].generation>> \in finished,
                      IsCurrent(w, s)'
               PROVE  FALSE
    OBVIOUS
  <2>1. /\ rows'[s].owner = w
        /\ rows'[s].generation = claims[w][s].generation
    BY DEF IsCurrent
  <2>2. /\ rows[s].generation \in Nat /\ rows'[s].generation \in Nat
        /\ rows'[s].generation >= rows[s].generation
    <3>1. rows[s] \in Row /\ rows'[s] \in Row
      BY DEF GrantInv, LeaseTypeOK, StoreTypeOK
    <3>2. CASE UNCHANGED rows
      BY <3>1, <3>2 DEF Row
    <3>3. ASSUME NEW v \in Workers, NEW t \in Schedules,
                 Claim(v, t) \/ Renew(v, t) \/ Release(v, t)
          PROVE  rows'[s].generation >= rows[s].generation
      <4>1. /\ rows \in [Schedules -> Row] /\ rows[t] \in Row
            /\ rows[s].generation \in Nat
        BY <3>1 DEF GrantInv, LeaseTypeOK, StoreTypeOK, Row
      <4>2. /\ ClaimedRow(v, rows[t]).generation = rows[t].generation + 1
            /\ RenewedRow(rows[t]).generation = rows[t].generation
            /\ ReleasedRow(rows[t]).generation = rows[t].generation
        BY <4>1 DEF ClaimedRow, RenewedRow, ReleasedRow, Row
      <4>3. \/ rows' = [rows EXCEPT ![t] = ClaimedRow(v, rows[t])]
            \/ rows' = [rows EXCEPT ![t] = RenewedRow(rows[t])]
            \/ rows' = [rows EXCEPT ![t] = ReleasedRow(rows[t])]
            \/ rows' = rows
        BY <3>3 DEF Claim, StoreClaim, Renew, StoreRenew, Release, StoreRelease
      <4> QED BY <4>1, <4>2, <4>3
    <3> QED
      BY <3>1, <3>2, <3>3
         DEF LeaseNext, LeaseClock, StoreClock, LeaseCrash, StoreCrash, Hold, StoreHold, Act,
             Row
  <2>3. <<s, claims[w][s].generation>> \in finished
    BY <2>1, <2>2
  <2>4. finished \subseteq finished'
    BY
       DEF LeaseNext, LeaseClock, StoreClock, LeaseCrash, StoreCrash, Claim, StoreClaim,
           Renew, StoreRenew, Release, StoreRelease, Hold, StoreHold, Act
  <2>5. <<s, rows'[s].generation>> \notin finished'
    BY <2>1, TombstoneAssumption DEF GrantInv, RowAccounted
  <2> QED BY <2>1, <2>3, <2>4, <2>5
<1> QED BY <1>1, GrantInvariant, PTL DEF LeaseSpec, StaleForGood

-----------------------------------------------------------------------------
(* The fires: the fences and the takeover check keep two workers out of one *)
(* call and a takeover from firing over an open one.                        *)

Sent == wire \cup ran

\* The generation a worker acts under.
Gen(w) == claims[w][job[w].schedule].generation

Busy(w) == ~At(w, "idle")
Fired(w) == job[w].pc \notin {"idle", "claimed"}

\* Where a worker has a review of its own in the log.
Holding == {"reviewed", "calling", "returned", "auditing", "closing",
            "panicked", "panic_audit", "denying"}

-----------------------------------------------------------------------------

\* A busy worker has a generation that the row has reached, and the row is its
\* own exactly as long as the row has not moved on.
Leased(w) ==
    Busy(w) => /\ 0 < Gen(w) /\ Gen(w) <= rows[job[w].schedule].generation
               /\ Gen(w) = rows[job[w].schedule].generation
                     <=> rows[job[w].schedule].owner = w

OwnGeneration ==
    \A v, w \in Workers :
        v # w /\ Busy(v) /\ Busy(w) /\ job[v].schedule = job[w].schedule
        => Gen(v) # Gen(w)

\* Whether the request of a worker's review has left and was not refused.
Left(j) == \/ j.pc \in {"calling", "panicked", "panic_audit"}
           \/ j.pc \in {"returned", "auditing", "closing"} /\ j.result # "definite_failed"

\* What the logs say of the review r that a worker at j holds: no attempt before
\* it wrote one, and no outcome but that of a cancel.
Open(j, r) ==
    /\ j.review \in Sent <=> Left(j)
    /\ r.decision = "denied" <=> j.pc = "denying"
    /\ j.pc # "closing" => r.attempt = "none"
    /\ j.pc = "closing" => r.attempt = j.result \/ j.review \in faulty
    /\ \/ r.outcome = "none"
       \/ r.outcome = "ambiguous" /\ j.review \in faulty
       \/ j.pc = "panic_audit"

Holds(w) ==
    /\ job[w].pc \in Holding <=> job[w].review # 0
    /\ job[w].pc \in Holding \cup {"fenced"} => job[w].call <= Calls
    /\ job[w].pc \in Holding =>
          /\ job[w].review \in DOMAIN reviews
          /\ reviews[job[w].review].schedule = job[w].schedule
          /\ reviews[job[w].review].generation = Gen(w)
          /\ Open(job[w], reviews[job[w].review])

OwnReview ==
    \A v, w \in Workers :
        v # w /\ job[v].review # 0 => job[v].review # job[w].review

\* A request is a scheduled run's, the log never says of it that it never ran,
\* and a review without a trace of certainty is explained (NoFalseHold).
Traced(i) ==
    /\ i \in Sent => IsScheduled(i) /\ reviews[i].outcome # "never_ran"
    /\ \/ ~IsScheduled(i)
       \/ reviews[i].outcome = "never_ran"
       \/ reviews[i].attempt \notin {"none", "ambiguous"}
       \/ i \in Sent \cup faulty
       \/ \E w \in Workers : job[w].review = i

\* While a worker is inside a call that nobody was asked to replace, its schedule
\* is not released, and whoever claimed it since took it over and has not fired.
Excludes(v) ==
    At(v, "calling") /\ job[v].review \notin Superseded =>
        /\ rows[job[v].schedule].owner # Tombstone
        /\ \A w \in Workers :
              Busy(w) /\ job[w].schedule = job[v].schedule /\ Gen(w) > Gen(v)
              => At(w, "claimed") /\ TookOver(w)

\* A worker that fired after a takeover has nothing open behind it.
Cleared(w) ==
    Fired(w) /\ TookOver(w) =>
        \A i \in Sent :
            \/ reviews[i].schedule # job[w].schedule
            \/ reviews[i].generation >= Gen(w)
            \/ reviews[i].attempt \in Certain
            \/ i \in Superseded

LeaseInv == (\A w \in Workers : Leased(w)) /\ OwnGeneration
HoldInv == (\A w \in Workers : Holds(w)) /\ OwnReview

IInv ==
    /\ TypeOK
    /\ LeaseInv
    /\ HoldInv
    /\ \A i \in DOMAIN reviews : Traced(i)
    /\ \A w \in Workers : Excludes(w) /\ Cleared(w)

-----------------------------------------------------------------------------

\* A step of the worker w within its run: no other worker moves.
Moves(w) ==
    /\ job' \in [Workers -> Job]
    /\ \A v \in Workers : v # w => job'[v] = job[v]
    /\ job'[w].schedule = job[w].schedule

LEMMA JobSet ==
    ASSUME job \in [Workers -> Job], NEW w \in Workers, NEW y \in Job,
           y.schedule = job[w].schedule, job' = [job EXCEPT ![w] = y]
    PROVE  Moves(w) /\ job'[w] = y
BY DEF Moves

\* Goto: only the place changes.
LEMMA GotoFacts ==
    ASSUME job \in [Workers -> Job], NEW w \in Workers, NEW p \in Points, Goto(w, p)
    PROVE  /\ Moves(w)
           /\ job'[w].pc = p
           /\ job'[w].call = job[w].call
           /\ job'[w].review = job[w].review
           /\ job'[w].result = job[w].result
<1>1. PICK x \in Job : x = job[w]
  OBVIOUS
<1>2. PICK y : y = [x EXCEPT !.pc = p]
  OBVIOUS
<1>3. /\ y \in Job /\ y.pc = p
      /\ y.schedule = x.schedule /\ y.call = x.call
      /\ y.review = x.review /\ y.result = x.result
  BY <1>2 DEF Job
<1>4. job' = [job EXCEPT ![w] = y]
  BY <1>1, <1>2 DEF Goto
<1>5. Moves(w) /\ job'[w] = y
  BY <1>1, <1>3, <1>4, JobSet
<1>6. QED
  BY <1>1, <1>3, <1>5

\* The step ends a call: the worker holds no review any more.
LEMMA EndFacts ==
    ASSUME job \in [Workers -> Job], NEW w \in Workers, EndRun(w) \/ FailAttempt(w)
    PROVE  Moves(w) /\ job'[w].pc \in {"next", "done"} /\ job'[w].review = 0
<1>1. PICK x \in Job : x = job[w]
  OBVIOUS
<1>2. PICK y : y = [x EXCEPT !.pc = "done", !.review = 0, !.result = "none"]
  OBVIOUS
<1>3. PICK z : z = [x EXCEPT !.pc = "next", !.call = 1, !.tries = x.tries + 1,
                             !.review = 0, !.result = "none"]
  OBVIOUS
<1> 0 \in 0..MaxReviews
  BY MaxReviewsAssumption
<1>4. y \in Job /\ y.pc = "done" /\ y.review = 0 /\ y.schedule = x.schedule
  BY <1>2 DEF Job, Points
<1>5. ASSUME x.tries < MaxRetries
      PROVE  z \in Job /\ z.pc = "next" /\ z.review = 0 /\ z.schedule = x.schedule
  <2>1. x.tries + 1 \in 0..MaxRetries /\ 1 \in 1..Calls + 1 /\ 0 \in 0..MaxReviews
    BY <1>5, MaxReviewsAssumption, CallsAssumption DEF Job
  <2>2. QED
    BY <1>3, <2>1 DEF Job, Points
<1>6. job' = [job EXCEPT ![w] = y] \/ (x.tries < MaxRetries /\ job' = [job EXCEPT ![w] = z])
  BY <1>1, <1>2, <1>3 DEF EndRun, FailAttempt
<1>7. CASE job' = [job EXCEPT ![w] = y]
  <2>1. Moves(w) /\ job'[w] = y
    BY <1>1, <1>4, <1>7, JobSet
  <2>2. QED
    BY <1>4, <2>1
<1>8. CASE x.tries < MaxRetries /\ job' = [job EXCEPT ![w] = z]
  <2>1. Moves(w) /\ job'[w] = z
    BY <1>1, <1>5, <1>8, JobSet
  <2>2. QED
    BY <1>5, <1>8, <2>1
<1>9. QED
  BY <1>6, <1>7, <1>8

LEMMA NextFacts ==
    ASSUME job \in [Workers -> Job], NEW w \in Workers, job[w].call <= Calls, NextCall(w)
    PROVE  Moves(w) /\ job'[w].pc = "next" /\ job'[w].review = 0
<1>1. PICK x \in Job : x = job[w]
  OBVIOUS
<1>2. PICK y : y = [x EXCEPT !.pc = "next", !.call = x.call + 1, !.review = 0,
                             !.result = "none"]
  OBVIOUS
<1>3. x.call + 1 \in 1..Calls + 1 /\ 0 \in 0..MaxReviews
  BY <1>1, CallsAssumption, MaxReviewsAssumption DEF Job
<1>4. y \in Job /\ y.pc = "next" /\ y.review = 0 /\ y.schedule = x.schedule
  BY <1>2, <1>3 DEF Job, Points
<1>5. job' = [job EXCEPT ![w] = y]
  BY <1>1, <1>2 DEF NextCall
<1>6. Moves(w) /\ job'[w] = y
  BY <1>1, <1>4, <1>5, JobSet
<1>7. QED
  BY <1>4, <1>6

\* A review is written, and the worker holds it.
LEMMA HoldFacts ==
    ASSUME job \in [Workers -> Job], NEW w \in Workers, NEW p \in Points,
           NEW k \in 0..MaxReviews,
           job' = [job EXCEPT ![w].pc = p, ![w].review = k]
    PROVE  Moves(w) /\ job'[w].pc = p /\ job'[w].review = k /\ job'[w].call = job[w].call
<1>1. PICK x \in Job : x = job[w]
  OBVIOUS
<1>2. PICK y : y = [x EXCEPT !.pc = p, !.review = k]
  OBVIOUS
<1>3. y \in Job /\ y.pc = p /\ y.review = k /\ y.schedule = x.schedule /\ y.call = x.call
  BY <1>2 DEF Job
<1>4. job' = [job EXCEPT ![w] = y]
  BY <1>1, <1>2
<1>5. Moves(w) /\ job'[w] = y
  BY <1>1, <1>3, <1>4, JobSet
<1>6. QED
  BY <1>1, <1>3, <1>5

LEMMA ReturnFacts ==
    ASSUME job \in [Workers -> Job], NEW w \in Workers, NEW p \in Points,
           NEW r \in Results,
           job' = [job EXCEPT ![w].pc = p, ![w].result = r]
    PROVE  /\ Moves(w)
           /\ job'[w].pc = p /\ job'[w].result = r
           /\ job'[w].call = job[w].call /\ job'[w].review = job[w].review
<1>1. PICK x \in Job : x = job[w]
  OBVIOUS
<1>2. PICK y : y = [x EXCEPT !.pc = p, !.result = r]
  OBVIOUS
<1>3. /\ y \in Job /\ y.pc = p /\ y.result = r /\ y.schedule = x.schedule
      /\ y.call = x.call /\ y.review = x.review
  BY <1>2 DEF Job
<1>4. job' = [job EXCEPT ![w] = y]
  BY <1>1, <1>2
<1>5. Moves(w) /\ job'[w] = y
  BY <1>1, <1>3, <1>4, JobSet
<1>6. QED
  BY <1>1, <1>3, <1>5

-----------------------------------------------------------------------------
(* What a step does to the two logs.                                        *)

\* r and q are one review before and after: its attempt is written once.
SameReview(r, q) ==
    /\ q.schedule = r.schedule /\ q.generation = r.generation
    /\ q.decision = r.decision /\ q.replaces = r.replaces
    /\ q.attempt = r.attempt \/ r.attempt = "none"

\* The logs change at the review k at most.
Touches(k) ==
    /\ reviews' \in Seq(Review) /\ Len(reviews') <= MaxReviews
    /\ DOMAIN reviews \subseteq DOMAIN reviews'
    /\ DOMAIN reviews' \subseteq DOMAIN reviews \cup {k}
    /\ \A i \in DOMAIN reviews : i # k => reviews'[i] = reviews[i]
    /\ k \in DOMAIN reviews => SameReview(reviews[k], reviews'[k])
    /\ faulty \subseteq faulty' /\ faulty' \subseteq faulty \cup {k}
    /\ faulty' \subseteq DOMAIN reviews'

LogTyped ==
    /\ reviews \in Seq(Review) /\ Len(reviews) <= MaxReviews
    /\ faulty \subseteq DOMAIN reviews

LEMMA Untouched ==
    ASSUME LogTyped, reviews' = reviews, faulty' = faulty, NEW k
    PROVE  Touches(k)
BY DEF Touches, LogTyped, SameReview

\* One field of one review is written.
LEMMA SetReview ==
    ASSUME LogTyped, NEW i \in DOMAIN reviews, NEW q \in Review,
           SameReview(reviews[i], q), reviews' = [reviews EXCEPT ![i] = q],
           faulty' = faulty \/ faulty' = faulty \cup {i}
    PROVE  Touches(i) /\ reviews'[i] = q
<1>1. i \in 1..Len(reviews) /\ DOMAIN reviews = 1..Len(reviews) /\ reviews \in Seq(Review)
  BY DEF LogTyped
<1>2. /\ reviews' \in Seq(Review) /\ Len(reviews') = Len(reviews)
      /\ \A j \in 1..Len(reviews) : reviews'[j] = IF j = i THEN q ELSE reviews[j]
  BY <1>1, ExceptSeq
<1>3. DOMAIN reviews' = 1..Len(reviews)
  BY <1>2
<1>4. QED
  BY <1>1, <1>2, <1>3 DEF Touches, LogTyped

LEMMA OutcomeFacts ==
    ASSUME LogTyped, NEW i \in DOMAIN reviews, NEW o \in Outcomes, RecordOutcome(i, o)
    PROVE  /\ Touches(i)
           /\ reviews'[i].attempt = reviews[i].attempt
           /\ \/ reviews'[i].outcome = o /\ reviews[i].outcome = "none"
              \/ reviews'[i].outcome = reviews[i].outcome /\ reviews[i].outcome # "none"
              \/ reviews'[i].outcome = reviews[i].outcome /\ i \in faulty'
<1>1. PICK r \in Review : r = reviews[i]
  BY DEF LogTyped
<1>2. PICK q : q = [r EXCEPT !.outcome = o]
  OBVIOUS
<1>3. q \in Review /\ SameReview(r, q) /\ q.outcome = o /\ q.attempt = r.attempt
  BY <1>2 DEF Review, SameReview
<1>4. CASE reviews[i].outcome = "none" /\ reviews' = [reviews EXCEPT ![i].outcome = o]
           /\ faulty' = faulty
  <2>1. reviews' = [reviews EXCEPT ![i] = q]
    BY <1>1, <1>2, <1>4
  <2>2. Touches(i) /\ reviews'[i] = q
    BY <1>1, <1>3, <1>4, <2>1, SetReview
  <2>3. QED
    BY <1>1, <1>3, <1>4, <2>2
<1>5. CASE reviews' = reviews /\ (reviews[i].outcome # "none" /\ faulty' = faulty)
  BY <1>5, Untouched
<1>6. CASE reviews' = reviews /\ faulty' = faulty \cup {i}
  BY <1>6 DEF Touches, LogTyped, SameReview
<1>7. QED
  BY <1>4, <1>5, <1>6 DEF RecordOutcome

LEMMA AttemptFacts ==
    ASSUME LogTyped, NEW i \in DOMAIN reviews, NEW a \in Attempts, RecordAttempt(i, a),
           reviews[i].attempt = "none"
    PROVE  /\ Touches(i)
           /\ reviews'[i].outcome = reviews[i].outcome
           /\ \/ reviews'[i].attempt = a
              \/ reviews'[i].attempt = "none" /\ i \in faulty'
<1>1. PICK r \in Review : r = reviews[i]
  BY DEF LogTyped
<1>2. PICK q : q = [r EXCEPT !.attempt = a]
  OBVIOUS
<1>3. q \in Review /\ SameReview(r, q) /\ q.attempt = a /\ q.outcome = r.outcome
  BY <1>1, <1>2 DEF Review, SameReview
<1>4. CASE reviews' = [reviews EXCEPT ![i].attempt = a] /\ faulty' = faulty
  <2>1. reviews' = [reviews EXCEPT ![i] = q]
    BY <1>1, <1>2, <1>4
  <2>2. Touches(i) /\ reviews'[i] = q
    BY <1>1, <1>3, <1>4, <2>1, SetReview
  <2>3. QED
    BY <1>1, <1>3, <1>4, <2>2
<1>5. CASE reviews' = reviews /\ faulty' = faulty \cup {i}
  BY <1>5 DEF Touches, LogTyped, SameReview
<1>6. QED
  BY <1>4, <1>5 DEF RecordAttempt

\* A review is appended.
LEMMA AppendFacts ==
    ASSUME LogTyped, NEW x \in Review, Len(reviews) < MaxReviews,
           reviews' = Append(reviews, x), NEW k, k = Len(reviews) + 1,
           faulty' = faulty \/ faulty' = faulty \cup {k}
    PROVE  /\ Touches(k) /\ k \in 1..MaxReviews /\ k \notin DOMAIN reviews
           /\ k \in DOMAIN reviews' /\ reviews'[k] = x
<1>1. /\ reviews' \in Seq(Review) /\ Len(reviews') = Len(reviews) + 1
      /\ \A i \in 1..Len(reviews) : reviews'[i] = reviews[i]
      /\ reviews'[Len(reviews) + 1] = x
  BY AppendProperties DEF LogTyped
<1>2. /\ Len(reviews) \in Nat /\ DOMAIN reviews = 1..Len(reviews)
      /\ DOMAIN reviews' = 1..Len(reviews) + 1
  BY <1>1 DEF LogTyped
<1>3. k \in 1..MaxReviews /\ k \notin DOMAIN reviews /\ k \in DOMAIN reviews'
  BY <1>2, MaxReviewsAssumption
<1>4. DOMAIN reviews \subseteq DOMAIN reviews' /\ DOMAIN reviews' \subseteq DOMAIN reviews \cup {k}
  BY <1>2
<1>5. Len(reviews') <= MaxReviews
  BY <1>1, <1>2, MaxReviewsAssumption
<1>6. QED
  BY <1>1, <1>2, <1>3, <1>4, <1>5 DEF Touches, LogTyped

-----------------------------------------------------------------------------
(* What the parts of the invariant owe to a step that leaves the leases.    *)

\* No lease and no claim changes, and nobody starts a run.
Within ==
    /\ now' = now /\ rows' = rows /\ claims' = claims
    /\ \A v \in Workers : job'[v].schedule = job[v].schedule
    /\ \A v \in Workers : job'[v].pc # "idle" => job[v].pc # "idle"

LEMMA LeaseKept == ASSUME LeaseInv, Within PROVE LeaseInv'
BY DEF LeaseInv, Within, Leased, OwnGeneration, Busy, At, Gen

\* The requests on their way or carried out change at k at most.
SentBut(k) == \A i : i # k => (i \in Sent' <=> i \in Sent)

\* A worker whose review is another one.
LEMMA HoldKept ==
    ASSUME NEW v \in Workers, Holds(v), job'[v] = job[v], claims'[v] = claims[v],
           NEW k, Touches(k), SentBut(k), job[v].review # 0 => job[v].review # k
    PROVE  Holds(v)'
<1>1. Gen(v)' = Gen(v)
  BY DEF Gen
<1>2. CASE job[v].pc \notin Holding
  BY <1>2 DEF Holds
<1>3. CASE job[v].pc \in Holding
  <2>1. PICK i : i = job[v].review
    OBVIOUS
  <2>2. i \in DOMAIN reviews /\ i # k
    BY <1>3, <2>1 DEF Holds
  <2>3. /\ i \in DOMAIN reviews' /\ reviews'[i] = reviews[i]
        /\ i \in Sent' <=> i \in Sent
        /\ i \in faulty => i \in faulty'
    BY <2>2 DEF Touches, SentBut
  <2>4. Open(job[v], reviews[i])'
    <3>1. Open(job[v], reviews[i])
      BY <1>3, <2>1 DEF Holds
    <3>2. QED
      BY <2>1, <2>3, <3>1 DEF Open, Left
  <2>5. QED
    BY <1>1, <1>3, <2>1, <2>3, <2>4 DEF Holds
<1>4. QED
  BY <1>2, <1>3

\* A review that the step does not touch and whose holder keeps it.
LEMMA TracedKept ==
    ASSUME NEW i \in DOMAIN reviews, Traced(i), NEW k, i # k, Touches(k), SentBut(k),
           \A v \in Workers : job[v].review = i => job'[v].review = i
    PROVE  Traced(i)'
<1>1. reviews'[i] = reviews[i] /\ (i \in Sent' <=> i \in Sent) /\ (i \in faulty => i \in faulty')
  BY DEF Touches, SentBut
<1>2. IsScheduled(i)' <=> IsScheduled(i)
  BY <1>1 DEF IsScheduled
<1>3. QED
  BY <1>1, <1>2 DEF Traced

\* A replacement stays on record.
LEMMA SupersededKept ==
    ASSUME NEW k, Touches(k)
    PROVE  Superseded \subseteq Superseded'
<1> SUFFICES ASSUME NEW i \in DOMAIN reviews
             PROVE  reviews[i].replaces \in Superseded'
  BY DEF Superseded
<1>1. i \in DOMAIN reviews' /\ reviews'[i].replaces = reviews[i].replaces
  BY DEF Touches, SameReview
<1>2. QED
  BY <1>1 DEF Superseded

\* A worker inside a call that stays there; none of the others fires.
LEMMA ExcludesKept ==
    ASSUME Within, NEW k, Touches(k), NEW v \in Workers, Excludes(v), job'[v] = job[v],
           \A w \in Workers : job'[w].pc # job[w].pc => job[w].pc \notin {"idle", "claimed"}
    PROVE  Excludes(v)'
<1> SUFFICES ASSUME At(v, "calling")', job'[v].review \notin Superseded'
             PROVE  /\ rows[job[v].schedule].owner # Tombstone
                    /\ \A w \in Workers :
                          Busy(w)' /\ job[w].schedule = job[v].schedule /\ Gen(w)' > Gen(v)'
                          => At(w, "claimed")' /\ TookOver(w)'
  BY DEF Excludes, Within
<1>1. At(v, "calling") /\ job[v].review \notin Superseded
  BY SupersededKept DEF At
<1>2. rows[job[v].schedule].owner # Tombstone
  BY <1>1 DEF Excludes
<1>3. ASSUME NEW w \in Workers, Busy(w)', job[w].schedule = job[v].schedule,
             Gen(w)' > Gen(v)'
      PROVE  At(w, "claimed")' /\ TookOver(w)'
  <2>1. Busy(w) /\ Gen(w) > Gen(v)
    BY <1>3 DEF Within, Gen, Busy, At
  <2>2. At(w, "claimed") /\ TookOver(w)
    BY <1>1, <1>3, <2>1 DEF Excludes
  <2>3. QED
    BY <2>2 DEF Within, At, TookOver
<1>4. QED
  BY <1>2, <1>3

\* A worker that has fired, when no request of an older run leaves.
LEMMA ClearedKept ==
    ASSUME NEW k, Touches(k), SentBut(k), NEW u \in Workers, Cleared(u),
           job'[u].schedule = job[u].schedule, claims'[u] = claims[u],
           Sent \subseteq DOMAIN reviews,
           Fired(u)' => Fired(u),
           k \in Sent' /\ k \notin Sent /\ reviews'[k].schedule = job[u].schedule
              => reviews'[k].generation >= Gen(u)
    PROVE  Cleared(u)'
<1> SUFFICES ASSUME Fired(u)', TookOver(u)', NEW i \in Sent',
                    reviews'[i].schedule = job'[u].schedule,
                    ~(reviews'[i].generation >= Gen(u)'),
                    i \notin Superseded'
             PROVE  reviews'[i].attempt \in Certain
  BY DEF Cleared
<1>1. Gen(u)' = Gen(u) /\ TookOver(u) /\ Fired(u) /\ job'[u].schedule = job[u].schedule
  BY DEF Gen, TookOver
<1>2. i \in Sent
  BY <1>1 DEF SentBut
<1>3. i \in DOMAIN reviews /\ SameReview(reviews[i], reviews'[i])
  BY <1>2 DEF Touches, SameReview
<1>4. i \notin Superseded
  BY SupersededKept
<1>5. reviews[i].attempt \in Certain
  BY <1>1, <1>2, <1>3, <1>4 DEF Cleared, SameReview
<1>6. QED
  BY <1>3, <1>5 DEF SameReview, Certain

\* What IInv says of the types, unfolded.
LEMMA Types ==
    ASSUME IInv
    PROVE  /\ now \in Nat /\ rows \in [Schedules -> Row]
           /\ claims \in [Workers -> [Schedules -> ClaimInfo]]
           /\ job \in [Workers -> Job] /\ LogTyped
           /\ DOMAIN reviews = 1..Len(reviews) /\ Len(reviews) \in Nat
           /\ \A i \in DOMAIN reviews : reviews[i] \in Review
           /\ wire \subseteq DOMAIN reviews /\ ran \subseteq DOMAIN reviews
           /\ Sent \subseteq DOMAIN reviews
BY DEF IInv, TypeOK, StoreTypeOK, LogTyped, Sent

\* Gen and the row of a worker are numbers.
LEMMA GenTyped ==
    ASSUME IInv, NEW w \in Workers
    PROVE  /\ job[w] \in Job /\ job[w].schedule \in Schedules /\ Gen(w) \in Nat
           /\ \A s \in Schedules : rows[s].generation \in Nat /\ rows[s] \in Row
<1>1. job[w] \in Job /\ job[w].schedule \in Schedules
  BY Types DEF Job
<1>2. claims[w][job[w].schedule] \in ClaimInfo
  BY <1>1, Types
<1>3. QED
  BY <1>1, <1>2, Types DEF Gen, ClaimInfo, Row

\* A step of w within its run that touches the review k, its own or a new one.
LEMMA RunStep ==
    ASSUME IInv, NEW w \in Workers, NEW k, Touches(k), SentBut(k), Moves(w),
           now' = now, rows' = rows, claims' = claims,
           Fired(w), job'[w].pc # "idle",
           \A v \in Workers : v # w /\ job[v].review # 0 => job[v].review # k,
           wire' \subseteq DOMAIN reviews', ran' \subseteq DOMAIN reviews',
           Holds(w)',
           job'[w].review \in {0, job[w].review, k},
           job[w].review \in {0, k, job'[w].review},
           k \in DOMAIN reviews' => Traced(k)',
           At(w, "calling")' => IsCurrent(w, job[w].schedule),
           k \in Sent' /\ k \notin Sent => At(w, "calling")' /\ job'[w].review = k
    PROVE  IInv'
<1>1. Within
  BY DEF Within, Moves, Fired
<1>2. TypeOK'
  BY Types DEF TypeOK, StoreTypeOK, Moves, Touches
<1>3. LeaseInv'
  BY <1>1, LeaseKept DEF IInv
<1>4. HoldInv'
  <2>1. ASSUME NEW v \in Workers PROVE Holds(v)'
    <3>1. CASE v = w
      BY <3>1
    <3>2. CASE v # w
      <4>1. Holds(v) /\ job'[v] = job[v]
        BY <3>2 DEF IInv, HoldInv, Moves
      <4>2. job[v].review # 0 => job[v].review # k
        BY <3>2
      <4>3. QED
        BY <4>1, <4>2, HoldKept
    <3>3. QED
      BY <3>1, <3>2
  <2>2. OwnReview'
    BY DEF IInv, HoldInv, OwnReview, Moves
  <2>3. QED
    BY <2>1, <2>2 DEF HoldInv
<1>5. ASSUME NEW i \in DOMAIN reviews' PROVE Traced(i)'
  <2>1. CASE i = k
    BY <2>1
  <2>2. CASE i # k
    <3>1. i \in DOMAIN reviews /\ Traced(i) /\ i # 0
      BY <2>2, Types DEF Touches, IInv
    <3>2. \A v \in Workers : job[v].review = i => job'[v].review = i
      BY <2>2, <3>1 DEF Moves
    <3>3. QED
      BY <2>2, <3>1, <3>2, TracedKept
  <2>3. QED
    BY <2>1, <2>2
<1>6. ASSUME NEW v \in Workers PROVE Excludes(v)'
  <2>1. CASE v # w
    <3>1. Excludes(v) /\ job'[v] = job[v]
      BY <2>1 DEF IInv, Moves
    <3>2. \A u \in Workers : job'[u].pc # job[u].pc => job[u].pc \notin {"idle", "claimed"}
      BY DEF Moves, Fired
    <3>3. QED
      BY <1>1, <3>1, <3>2, ExcludesKept
  <2>2. CASE v = w /\ At(w, "calling")'
    <3>1. /\ rows[job[w].schedule].owner = w
          /\ rows[job[w].schedule].generation = Gen(w)
      BY <2>2 DEF IsCurrent, Gen
    <3>2. job'[w].schedule = job[w].schedule
      BY DEF Moves
    <3>3. rows'[job'[w].schedule].owner # Tombstone
      BY <3>1, <3>2, TombstoneAssumption
    <3>4. ASSUME NEW u \in Workers, Busy(u)', job'[u].schedule = job'[w].schedule,
                 Gen(u)' > Gen(w)'
          PROVE  FALSE
      <4>1. Busy(u) /\ job[u].schedule = job[w].schedule /\ Gen(u) > Gen(w)
        BY <1>1, <3>4 DEF Within, Gen, Busy, At
      <4>2. Gen(u) <= rows[job[w].schedule].generation
        BY <4>1 DEF IInv, LeaseInv, Leased
      <4>3. Gen(u) \in Nat /\ Gen(w) \in Nat
        BY GenTyped
      <4>4. QED
        BY <3>1, <4>1, <4>2, <4>3
    <3>5. QED
      BY <2>2, <3>3, <3>4 DEF Excludes
  <2>3. CASE v = w /\ ~At(w, "calling")'
    BY <2>3 DEF Excludes
  <2>4. QED
    BY <2>1, <2>2, <2>3
<1>7. ASSUME NEW u \in Workers PROVE Cleared(u)'
  <2>1. Fired(u)' => Fired(u)
    BY DEF Moves, Fired
  <2>2. ASSUME k \in Sent', k \notin Sent, reviews'[k].schedule = job[u].schedule, Fired(u)
        PROVE  reviews'[k].generation >= Gen(u)
    <3>1. job'[w].pc = "calling" /\ job'[w].review = k
      BY <2>2 DEF At
    <3>2. reviews'[k].schedule = job'[w].schedule /\ reviews'[k].generation = Gen(w)'
      BY <3>1 DEF Holds, Holding
    <3>3. Gen(w)' = Gen(w) /\ job'[w].schedule = job[w].schedule
      BY <1>1 DEF Within, Gen
    <3>4. rows[job[w].schedule].generation = Gen(w)
      BY <3>1 DEF IsCurrent, Gen, At
    <3>5. Gen(u) <= rows[job[u].schedule].generation
      BY <2>2 DEF IInv, LeaseInv, Leased, Fired, Busy, At
    <3>6. Gen(u) \in Nat /\ Gen(w) \in Nat
      BY GenTyped
    <3>7. QED
      BY <2>2, <3>2, <3>3, <3>4, <3>5, <3>6
  <2>3. CASE Fired(u)
    <3>1. Cleared(u) /\ Sent \subseteq DOMAIN reviews /\ job'[u].schedule = job[u].schedule
      BY Types DEF IInv, Moves
    <3>2. QED
      BY <2>1, <2>2, <2>3, <3>1, ClearedKept
  <2>4. CASE ~Fired(u)
    BY <2>1, <2>4 DEF Cleared
  <2>5. QED
    BY <2>3, <2>4
<1>8. QED
  BY <1>2, <1>3, <1>4, <1>5, <1>6, <1>7 DEF IInv

-----------------------------------------------------------------------------
(* The steps of a run, by what they do to the review of the worker.         *)

Same == now' = now /\ rows' = rows /\ claims' = claims

\* What IInv says of a worker that holds a review.
LEMMA HoldingFacts ==
    ASSUME IInv, NEW w \in Workers, job[w].pc \in Holding
    PROVE  /\ Fired(w) /\ job[w].call <= Calls
           /\ job[w].review \in DOMAIN reviews /\ job[w].review # 0
           /\ \A v \in Workers : v # w /\ job[v].review # 0 => job[v].review # job[w].review
           /\ reviews[job[w].review] \in Review
           /\ reviews[job[w].review].schedule = job[w].schedule
           /\ reviews[job[w].review].generation = Gen(w)
           /\ IsScheduled(job[w].review)
           /\ Open(job[w], reviews[job[w].review])
<1>1. Holds(w) /\ OwnReview /\ Leased(w)
  BY DEF IInv, HoldInv, LeaseInv
<1>2. Fired(w) /\ Busy(w)
  BY DEF Fired, Busy, Holding, At
<1>3. /\ job[w].review \in DOMAIN reviews /\ job[w].review # 0
      /\ reviews[job[w].review].schedule = job[w].schedule
      /\ reviews[job[w].review].generation = Gen(w)
      /\ Open(job[w], reviews[job[w].review]) /\ job[w].call <= Calls
  BY <1>1 DEF Holds
<1>4. \A v \in Workers : v # w /\ job[v].review # 0 => job[v].review # job[w].review
  BY <1>1 DEF OwnReview
<1>5. IsScheduled(job[w].review)
  BY <1>1, <1>2, <1>3, GenTyped DEF IsScheduled, Leased
<1>6. reviews[job[w].review] \in Review
  BY <1>3, Types
<1>7. QED
  BY <1>2, <1>3, <1>4, <1>5, <1>6

\* The worker holds no review, before and after: between two calls.
LEMMA BetweenStep ==
    ASSUME IInv, NEW w \in Workers, Fired(w), job[w].pc \notin Holding, Moves(w), Same,
           reviews' = reviews, faulty' = faulty, wire' = wire, ran' = ran,
           job'[w].pc \in {"next", "done", "fenced"}, job'[w].review = 0,
           job'[w].pc = "fenced" => job'[w].call <= Calls
    PROVE  IInv'
<1>1. Touches(0) /\ SentBut(0)
  BY Types, Untouched DEF SentBut, Sent
<1>2. job[w].review = 0
  BY DEF IInv, HoldInv, Holds
<1>3. Holds(w)'
  BY DEF Holds, Holding
<1>4. 0 \notin DOMAIN reviews' /\ wire' \subseteq DOMAIN reviews' /\ ran' \subseteq DOMAIN reviews'
  BY Types
<1>5. ~At(w, "calling")' /\ job'[w].pc # "idle" /\ (0 \in Sent' <=> 0 \in Sent)
  BY DEF At, Sent
<1>6. QED
  BY <1>1, <1>2, <1>3, <1>4, <1>5, RunStep DEF Same

\* The worker lets go of its review: the logs are certain of it, or it is
\* explained otherwise.
LEMMA EndStep ==
    ASSUME IInv, NEW w \in Workers, job[w].pc \in Holding, NEW k, k = job[w].review,
           Touches(k), Moves(w), Same, wire' = wire, ran' = ran,
           job'[w].pc \in {"next", "done"}, job'[w].review = 0,
           k \in Sent => reviews'[k].outcome # "never_ran",
           \/ reviews'[k].outcome = "never_ran"
           \/ reviews'[k].attempt \notin {"none", "ambiguous"}
           \/ k \in Sent \cup faulty'
    PROVE  IInv'
<1>1. SentBut(k) /\ Sent' = Sent
  BY DEF SentBut, Sent
<1>2. /\ Fired(w) /\ k \in DOMAIN reviews /\ IsScheduled(k)
      /\ \A v \in Workers : v # w /\ job[v].review # 0 => job[v].review # k
  BY HoldingFacts
<1>3. Holds(w)'
  BY DEF Holds, Holding
<1>4. wire' \subseteq DOMAIN reviews' /\ ran' \subseteq DOMAIN reviews'
  BY Types DEF Touches
<1>5. Traced(k)'
  <2>1. IsScheduled(k)'
    BY <1>2 DEF IsScheduled, Touches, SameReview
  <2>2. QED
    BY <1>1, <2>1 DEF Traced
<1>6. ~At(w, "calling")' /\ job'[w].pc # "idle"
  BY DEF At
<1>7. QED
  BY <1>1, <1>2, <1>3, <1>4, <1>5, <1>6, RunStep DEF Same

\* The worker goes on with its review.
LEMMA KeepStep ==
    ASSUME IInv, NEW w \in Workers, job[w].pc \in Holding, NEW k, k = job[w].review,
           Touches(k), SentBut(k), Moves(w), Same,
           wire' \subseteq DOMAIN reviews', ran' \subseteq DOMAIN reviews',
           job'[w].pc \in Holding, job'[w].review = k, job'[w].call = job[w].call,
           Open(job[w], reviews[k])',
           reviews'[k].outcome # "never_ran",
           At(w, "calling")' => IsCurrent(w, job[w].schedule),
           k \in Sent' /\ k \notin Sent => At(w, "calling")'
    PROVE  IInv'
<1>1. /\ Fired(w) /\ k \in DOMAIN reviews /\ IsScheduled(k) /\ k # 0
      /\ \A v \in Workers : v # w /\ job[v].review # 0 => job[v].review # k
      /\ reviews[k].schedule = job[w].schedule /\ reviews[k].generation = Gen(w)
      /\ job[w].call <= Calls
  BY HoldingFacts
<1>2. Gen(w)' = Gen(w) /\ job'[w].schedule = job[w].schedule
  BY DEF Gen, Same, Moves
<1>3. /\ k \in DOMAIN reviews' /\ reviews'[k].schedule = reviews[k].schedule
      /\ reviews'[k].generation = reviews[k].generation
  BY <1>1 DEF Touches, SameReview
<1>4. Holds(w)'
  BY <1>1, <1>2, <1>3 DEF Holds
<1>5. Traced(k)'
  <2>1. IsScheduled(k)'
    BY <1>1, <1>3 DEF IsScheduled
  <2>2. QED
    BY <2>1 DEF Traced
<1>6. job'[w].pc # "idle"
  BY DEF Holding
<1>7. QED
  BY <1>1, <1>4, <1>5, <1>6, RunStep DEF Same

\* A review is written.
LEMMA WriteStep ==
    ASSUME IInv, NEW w \in Workers, job[w].pc \in {"next", "fenced"}, Moves(w), Same,
           NEW d \in {"approved", "denied"}, Len(reviews) < MaxReviews,
           reviews' = Append(reviews, ReviewOf(w, d)),
           NEW k, k = Len(reviews) + 1, wire' = wire, ran' = ran,
           \/ /\ faulty' = faulty /\ job[w].call <= Calls /\ job'[w].call = job[w].call
              /\ job'[w].pc = (IF d = "denied" THEN "denying" ELSE "reviewed")
              /\ job'[w].review = k
           \/ /\ faulty' = faulty \cup {k}
              /\ job'[w].pc \in {"next", "done"} /\ job'[w].review = 0
    PROVE  IInv'
<1>1. PICK x : x = ReviewOf(w, d)
  OBVIOUS
<1>2. /\ x.schedule = job[w].schedule /\ x.generation = Gen(w) /\ x.decision = d
      /\ x.outcome = "none" /\ x.attempt = "none"
  BY <1>1 DEF ReviewOf, Gen
<1>3. x \in Review
  <2>1. 0 \in 0..MaxReviews
    BY MaxReviewsAssumption
  <2>2. QED
    BY <1>1, <2>1, GenTyped DEF ReviewOf, Gen, Review, Outcomes, Attempts
<1>4. /\ Touches(k) /\ k \in 1..MaxReviews /\ k \notin DOMAIN reviews
      /\ k \in DOMAIN reviews' /\ reviews'[k] = x
  BY <1>1, <1>3, Types, AppendFacts
<1>5. k # 0
  BY <1>4
<1>6. Sent' = Sent /\ SentBut(k) /\ k \notin Sent
  BY <1>4, Types DEF SentBut, Sent
<1>7. job[w].review = 0 /\ Fired(w) /\ Leased(w) /\ Busy(w)
  BY DEF IInv, HoldInv, Holds, Holding, Fired, LeaseInv, Busy, At
<1>8. \A v \in Workers : v # w /\ job[v].review # 0 => job[v].review # k
  BY <1>4 DEF IInv, HoldInv, Holds
<1>9. Gen(w)' = Gen(w) /\ job'[w].schedule = job[w].schedule
  BY DEF Gen, Same, Moves
<1>10. wire' \subseteq DOMAIN reviews' /\ ran' \subseteq DOMAIN reviews'
  BY <1>4, Types DEF Touches
<1>11. /\ ~At(w, "calling")' /\ job'[w].pc # "idle" /\ job'[w].review \in {0, k}
       /\ job'[w].review = k \/ k \in faulty'
  BY DEF At
<1>12. Holds(w)'
  <2>1. CASE job'[w].review = 0 /\ job'[w].pc \in {"next", "done"}
    BY <2>1 DEF Holds, Holding
  <2>2. CASE /\ job[w].call <= Calls /\ job'[w].call = job[w].call
             /\ job'[w].pc = (IF d = "denied" THEN "denying" ELSE "reviewed")
             /\ job'[w].review = k
    <3>1. /\ job'[w].pc \in {"denying", "reviewed"}
          /\ d = "denied" <=> job'[w].pc = "denying"
      BY <2>2
    <3>2. Open(job[w], reviews[k])'
      BY <1>2, <1>4, <1>6, <2>2, <3>1 DEF Open, Left
    <3>3. QED
      BY <1>2, <1>4, <1>5, <1>9, <2>2, <3>1, <3>2 DEF Holds, Holding
  <2>3. QED
    BY <2>1, <2>2
<1>13. Traced(k)'
  <2>1. IsScheduled(k)'
    BY <1>2, <1>4, <1>7, GenTyped DEF IsScheduled, Leased
  <2>2. QED
    BY <1>6, <1>11, <2>1 DEF Traced
<1>14. QED
  BY <1>4, <1>6, <1>7, <1>8, <1>10, <1>11, <1>12, <1>13, RunStep DEF Same

-----------------------------------------------------------------------------
(* The actions of a run.                                                    *)

\* Between calls: no call is left, a refusal, the first fence.
LEMMA Between ==
    ASSUME IInv, NEW w \in Workers,
           Completed(w) \/ Refused(w) \/ StaleAtFirstFence(w) \/ PassFirstFence(w)
    PROVE  IInv'
<1>1. /\ Same /\ reviews' = reviews /\ faulty' = faulty /\ wire' = wire /\ ran' = ran
      /\ At(w, "next")
  BY DEF Same, Completed, Refused, StaleAtFirstFence, PassFirstFence
<1>2. /\ Fired(w) /\ job[w].pc \notin Holding /\ job[w].review = 0
      /\ job \in [Workers -> Job]
  BY <1>1, Types DEF At, Fired, Holding, IInv, HoldInv, Holds
<1>3. CASE EndRun(w) \/ FailAttempt(w)
  <2>1. Moves(w) /\ job'[w].pc \in {"next", "done"} /\ job'[w].review = 0
    BY <1>2, <1>3, EndFacts
  <2>2. QED
    BY <1>1, <1>2, <2>1, BetweenStep
<1>4. CASE PassFirstFence(w)
  <2>1. "fenced" \in Points /\ Goto(w, "fenced") /\ job[w].call <= Calls
    BY <1>4 DEF PassFirstFence, Points
  <2>2. /\ Moves(w) /\ job'[w].pc = "fenced" /\ job'[w].call = job[w].call
        /\ job'[w].review = job[w].review
    BY <1>2, <2>1, GotoFacts
  <2>3. QED
    BY <1>1, <1>2, <2>1, <2>2, BetweenStep
<1>5. QED
  BY <1>3, <1>4 DEF Completed, Refused, StaleAtFirstFence

\* A review is written: approved, denied, or not known to be on disk.
LEMMA Reviewing ==
    ASSUME IInv, NEW w \in Workers, DenyAsk(w) \/ WriteReview(w) \/ ReviewFailed(w)
    PROVE  IInv'
<1>1. PICK k : k = Len(reviews) + 1
  OBVIOUS
<1>2. /\ Same /\ wire' = wire /\ ran' = ran /\ Len(reviews) < MaxReviews
      /\ job[w].pc \in {"next", "fenced"} /\ job \in [Workers -> Job]
  BY Types DEF Same, DenyAsk, WriteReview, ReviewFailed, At
<1>3. k \in 0..MaxReviews
  BY <1>1, <1>2, Types, MaxReviewsAssumption
<1>4. CASE DenyAsk(w)
  <2>1. /\ reviews' = Append(reviews, ReviewOf(w, "denied")) /\ job[w].call <= Calls
        /\ faulty' = faulty /\ "denying" \in Points
        /\ job' = [job EXCEPT ![w].pc = "denying", ![w].review = k]
    BY <1>1, <1>4 DEF DenyAsk, Points
  <2>2. /\ Moves(w) /\ job'[w].pc = "denying" /\ job'[w].review = k
        /\ job'[w].call = job[w].call
    BY <1>2, <1>3, <2>1, HoldFacts
  <2>3. QED
    BY <1>1, <1>2, <2>1, <2>2, WriteStep
<1>5. CASE WriteReview(w)
  <2>1. /\ reviews' = Append(reviews, ReviewOf(w, "approved"))
        /\ faulty' = faulty /\ "reviewed" \in Points
        /\ job' = [job EXCEPT ![w].pc = "reviewed", ![w].review = k]
    BY <1>1, <1>5 DEF WriteReview, Points
  <2>2. /\ Moves(w) /\ job'[w].pc = "reviewed" /\ job'[w].review = k
        /\ job'[w].call = job[w].call
    BY <1>2, <1>3, <2>1, HoldFacts
  <2>3. job[w].call <= Calls
    BY <1>5 DEF WriteReview, At, IInv, HoldInv, Holds
  <2>4. QED
    BY <1>1, <1>2, <2>1, <2>2, <2>3, WriteStep
<1>6. CASE ReviewFailed(w)
  <2>1. /\ reviews' = Append(reviews, ReviewOf(w, "approved"))
        /\ faulty' = faulty \cup {k} /\ FailAttempt(w)
    BY <1>1, <1>6 DEF ReviewFailed
  <2>2. Moves(w) /\ job'[w].pc \in {"next", "done"} /\ job'[w].review = 0
    BY <1>2, <2>1, EndFacts
  <2>3. QED
    BY <1>1, <1>2, <2>1, <2>2, WriteStep
<1>7. QED
  BY <1>4, <1>5, <1>6

\* The call ends before the request left: the log says that it never ran.
LEMMA NeverSent ==
    ASSUME IInv, NEW w \in Workers, HookRejects(w) \/ StaleBeforeSend(w)
    PROVE  IInv'
<1>1. PICK k : k = job[w].review
  OBVIOUS
<1>2. /\ Same /\ wire' = wire /\ ran' = ran /\ At(w, "reviewed")
      /\ RecordOutcome(k, "never_ran") /\ "never_ran" \in Outcomes
      /\ EndRun(w) \/ FailAttempt(w)
      /\ job[w].pc \in Holding /\ job \in [Workers -> Job]
  BY <1>1, Types DEF Same, HookRejects, StaleBeforeSend, At, Holding, Outcomes
<1>3. Open(job[w], reviews[k]) /\ k \in DOMAIN reviews
  BY <1>1, <1>2, HoldingFacts
<1>4. /\ Touches(k)
      /\ \/ reviews'[k].outcome = "never_ran" /\ reviews[k].outcome = "none"
         \/ reviews[k].outcome # "none"
         \/ k \in faulty'
  BY <1>2, <1>3, Types, OutcomeFacts
<1>5. k \notin Sent /\ (reviews[k].outcome # "none" => k \in faulty)
  BY <1>1, <1>2, <1>3 DEF Open, Left, At
<1>6. Moves(w) /\ job'[w].pc \in {"next", "done"} /\ job'[w].review = 0
  BY <1>2, EndFacts
<1>7. reviews'[k].outcome = "never_ran" \/ k \in faulty'
  BY <1>4, <1>5 DEF Touches
<1>8. QED
  BY <1>1, <1>2, <1>4, <1>5, <1>6, <1>7, EndStep

\* The request leaves, past the second fence.
LEMMA Sending ==
    ASSUME IInv, NEW w \in Workers, Send(w) PROVE IInv'
<1>1. PICK k : k = job[w].review
  OBVIOUS
<1>2. /\ Same /\ wire' = wire \cup {k} /\ ran' = ran /\ reviews' = reviews
      /\ faulty' = faulty /\ At(w, "reviewed") /\ IsCurrent(w, job[w].schedule)
      /\ Goto(w, "calling") /\ "calling" \in Points
      /\ job[w].pc \in Holding /\ job \in [Workers -> Job]
  BY <1>1, Types DEF Same, Send, At, Holding, Points
<1>3. Open(job[w], reviews[k]) /\ k \in DOMAIN reviews
  BY <1>1, <1>2, HoldingFacts
<1>4. /\ Moves(w) /\ job'[w].pc = "calling" /\ job'[w].call = job[w].call
      /\ job'[w].review = k
  BY <1>1, <1>2, GotoFacts
<1>5. Touches(k) /\ SentBut(k) /\ k \in Sent'
  BY <1>2, Types, Untouched DEF SentBut, Sent
<1>6. Open(job[w], reviews[k])'
  BY <1>1, <1>2, <1>3, <1>4, <1>5 DEF Open, Left, At
<1>7. reviews'[k].outcome # "never_ran" /\ job'[w].pc \in Holding /\ At(w, "calling")'
  BY <1>2, <1>3, <1>4 DEF Open, At, Holding
<1>8. wire' \subseteq DOMAIN reviews' /\ ran' \subseteq DOMAIN reviews'
  BY <1>2, <1>3, Types
<1>9. QED
  BY <1>1, <1>2, <1>4, <1>5, <1>6, <1>7, <1>8, KeepStep

\* The connector answers, fails or panics.
LEMMA Returning ==
    ASSUME IInv, NEW w \in Workers, NEW r \in Results, Return(w, r) PROVE IInv'
<1>1. PICK k : k = job[w].review
  OBVIOUS
<1>2. PICK p : p = IF r = "panic" THEN "panicked" ELSE "returned"
  OBVIOUS
<1>3. /\ Same /\ ran' = ran /\ reviews' = reviews /\ faulty' = faulty
      /\ wire' = (IF r = "definite_failed" THEN wire \ {k} ELSE wire)
      /\ r = "definite_failed" => k \notin ran
      /\ At(w, "calling") /\ p \in Points
      /\ job[w].pc \in Holding /\ job \in [Workers -> Job]
  BY <1>1, <1>2, Types DEF Same, Return, At, Holding, Points
<1>4. job' = [job EXCEPT ![w].pc = p, ![w].result = r]
  BY <1>2 DEF Return
<1>5. Open(job[w], reviews[k]) /\ k \in DOMAIN reviews
  BY <1>1, <1>3, HoldingFacts
<1>6. /\ Moves(w) /\ job'[w].pc = p /\ job'[w].result = r
      /\ job'[w].call = job[w].call /\ job'[w].review = k
  BY <1>1, <1>3, <1>4, ReturnFacts
<1>7. k \in Sent
  BY <1>1, <1>3, <1>5 DEF Open, Left, At
<1>8. Touches(k) /\ SentBut(k) /\ (k \in Sent' <=> r # "definite_failed")
  BY <1>3, <1>7, Types, Untouched DEF SentBut, Sent
<1>9. Open(job[w], reviews[k])'
  BY <1>1, <1>2, <1>3, <1>5, <1>6, <1>8 DEF Open, Left, At
<1>10. reviews'[k].outcome # "never_ran" /\ job'[w].pc \in Holding /\ ~At(w, "calling")'
  BY <1>2, <1>3, <1>5, <1>6 DEF Open, At, Holding
<1>11. wire' \subseteq DOMAIN reviews' /\ ran' \subseteq DOMAIN reviews'
  BY <1>3, Types
<1>12. QED
  BY <1>1, <1>3, <1>6, <1>7, <1>8, <1>9, <1>10, <1>11, KeepStep

\* The attempt line of a refused call.
LEMMA Denying ==
    ASSUME IInv, NEW w \in Workers, AuditDenied(w) PROVE IInv'
<1>1. PICK k : k = job[w].review
  OBVIOUS
<1>2. /\ Same /\ wire' = wire /\ ran' = ran /\ At(w, "denying")
      /\ RecordAttempt(k, "denied") /\ "denied" \in Attempts /\ FailAttempt(w)
      /\ job[w].pc \in Holding /\ job \in [Workers -> Job]
  BY <1>1, Types DEF Same, AuditDenied, At, Holding, Attempts
<1>3. Open(job[w], reviews[k]) /\ k \in DOMAIN reviews
  BY <1>1, <1>2, HoldingFacts
<1>4. k \notin Sent /\ reviews[k].attempt = "none"
  BY <1>1, <1>2, <1>3 DEF Open, Left, At
<1>5. Touches(k) /\ (reviews'[k].attempt = "denied" \/ k \in faulty')
  BY <1>2, <1>3, <1>4, Types, AttemptFacts
<1>6. Moves(w) /\ job'[w].pc \in {"next", "done"} /\ job'[w].review = 0
  BY <1>2, EndFacts
<1>7. QED
  BY <1>1, <1>2, <1>4, <1>5, <1>6, EndStep

\* Past the third fence.
LEMMA Auditing ==
    ASSUME IInv, NEW w \in Workers, PassThirdFence(w) PROVE IInv'
<1>1. PICK k : k = job[w].review
  OBVIOUS
<1>2. /\ Same /\ wire' = wire /\ ran' = ran /\ reviews' = reviews /\ faulty' = faulty
      /\ At(w, "returned") /\ Goto(w, "auditing") /\ "auditing" \in Points
      /\ job[w].pc \in Holding /\ job \in [Workers -> Job]
  BY <1>1, Types DEF Same, PassThirdFence, At, Holding, Points
<1>3. Open(job[w], reviews[k]) /\ k \in DOMAIN reviews
  BY <1>1, <1>2, HoldingFacts
<1>4. /\ Moves(w) /\ job'[w].pc = "auditing" /\ job'[w].call = job[w].call
      /\ job'[w].review = k /\ job'[w].result = job[w].result
  BY <1>1, <1>2, GotoFacts
<1>5. Touches(k) /\ SentBut(k) /\ Sent' = Sent
  BY <1>2, Types, Untouched DEF SentBut, Sent
<1>6. Open(job[w], reviews[k])'
  BY <1>1, <1>2, <1>3, <1>4, <1>5 DEF Open, Left, At
<1>7. reviews'[k].outcome # "never_ran" /\ job'[w].pc \in Holding /\ ~At(w, "calling")'
  BY <1>2, <1>3, <1>4 DEF Open, At, Holding
<1>8. wire' \subseteq DOMAIN reviews' /\ ran' \subseteq DOMAIN reviews'
  BY <1>2, Types
<1>9. QED
  BY <1>1, <1>2, <1>4, <1>5, <1>6, <1>7, <1>8, KeepStep

\* Stale after the call: the outcome is never_ran only where nothing was sent.
LEMMA StaleAfter ==
    ASSUME IInv, NEW w \in Workers, StaleAfterCall(w) PROVE IInv'
<1>1. PICK k : k = job[w].review
  OBVIOUS
<1>2. PICK o : o = IF job[w].result = "definite_failed" THEN "never_ran" ELSE "ambiguous"
  OBVIOUS
<1>3. /\ Same /\ wire' = wire /\ ran' = ran /\ At(w, "returned")
      /\ RecordOutcome(k, o) /\ o \in Outcomes /\ EndRun(w)
      /\ job[w].pc \in Holding /\ job \in [Workers -> Job]
  BY <1>1, <1>2, Types DEF Same, StaleAfterCall, At, Holding, Outcomes
<1>4. Open(job[w], reviews[k]) /\ k \in DOMAIN reviews
  BY <1>1, <1>3, HoldingFacts
<1>5. /\ Touches(k)
      /\ \/ reviews'[k].outcome = o /\ reviews[k].outcome = "none"
         \/ reviews'[k].outcome = reviews[k].outcome /\ reviews[k].outcome # "none"
         \/ reviews'[k].outcome = reviews[k].outcome /\ k \in faulty'
  BY <1>3, <1>4, Types, OutcomeFacts
<1>6. /\ k \in Sent <=> job[w].result # "definite_failed"
      /\ \/ reviews[k].outcome = "none"
         \/ reviews[k].outcome = "ambiguous" /\ k \in faulty
  BY <1>1, <1>3, <1>4 DEF Open, Left, At
<1>7. Moves(w) /\ job'[w].pc \in {"next", "done"} /\ job'[w].review = 0
  BY <1>3, EndFacts
<1>8. faulty \subseteq faulty'
  BY <1>5 DEF Touches
<1>9. k \in Sent => reviews'[k].outcome # "never_ran"
  BY <1>2, <1>5, <1>6
<1>10. reviews'[k].outcome = "never_ran" \/ k \in Sent \cup faulty'
  BY <1>2, <1>5, <1>6, <1>8
<1>11. QED
  BY <1>1, <1>3, <1>5, <1>7, <1>9, <1>10, EndStep

\* The attempt line, of which the outcome line is the second.
LEMMA WritingAttempt ==
    ASSUME IInv, NEW w \in Workers, WriteAttempt(w) PROVE IInv'
<1>1. PICK k : k = job[w].review
  OBVIOUS
<1>2. PICK a : a = job[w].result
  OBVIOUS
<1>3. /\ Same /\ wire' = wire /\ ran' = ran /\ At(w, "auditing")
      /\ RecordAttempt(k, a) /\ Goto(w, "closing") /\ "closing" \in Points
      /\ job[w].pc \in Holding /\ job \in [Workers -> Job]
  BY <1>1, <1>2, Types DEF Same, WriteAttempt, At, Holding, Points
<1>4. a \in Attempts
  BY <1>2, GenTyped, ResultsAssumption DEF Job, Attempts
<1>5. Open(job[w], reviews[k]) /\ k \in DOMAIN reviews
  BY <1>1, <1>3, HoldingFacts
<1>6. reviews[k].attempt = "none"
  BY <1>1, <1>3, <1>5 DEF Open, At
<1>7. /\ Touches(k) /\ reviews'[k].outcome = reviews[k].outcome
      /\ reviews'[k].attempt = a \/ k \in faulty'
  BY <1>3, <1>4, <1>5, <1>6, Types, AttemptFacts
<1>8. /\ Moves(w) /\ job'[w].pc = "closing" /\ job'[w].call = job[w].call
      /\ job'[w].review = k /\ job'[w].result = a
  BY <1>1, <1>2, <1>3, GotoFacts
<1>9. SentBut(k) /\ Sent' = Sent /\ faulty \subseteq faulty'
  BY <1>3, <1>7 DEF SentBut, Sent, Touches
<1>10. SameReview(reviews[k], reviews'[k])
  BY <1>5, <1>7 DEF Touches
<1>11. Open(job[w], reviews[k])'
  BY <1>1, <1>2, <1>3, <1>5, <1>7, <1>8, <1>9, <1>10 DEF Open, Left, At, SameReview
<1>12. reviews'[k].outcome # "never_ran" /\ job'[w].pc \in Holding /\ ~At(w, "calling")'
  BY <1>3, <1>5, <1>7, <1>8 DEF Open, At, Holding
<1>13. wire' \subseteq DOMAIN reviews' /\ ran' \subseteq DOMAIN reviews'
  BY <1>3, <1>7, Types DEF Touches
<1>14. QED
  BY <1>1, <1>3, <1>7, <1>8, <1>9, <1>11, <1>12, <1>13, KeepStep

\* The outcome line: a call that failed for certain has its attempt on record.
LEMMA WritingOutcome ==
    ASSUME IInv, NEW w \in Workers, WriteOutcome(w) PROVE IInv'
<1>1. PICK k : k = job[w].review
  OBVIOUS
<1>2. PICK o : o = OutcomeOf(job[w].result)
  OBVIOUS
<1>3. /\ Same /\ wire' = wire /\ ran' = ran /\ At(w, "closing")
      /\ RecordOutcome(k, o)
      /\ NextCall(w) \/ EndRun(w) \/ FailAttempt(w)
      /\ job[w].pc \in Holding /\ job \in [Workers -> Job]
  BY <1>1, <1>2, Types DEF Same, WriteOutcome, At, Holding
<1>4. o \in Outcomes /\ o # "never_ran"
  BY <1>2 DEF OutcomeOf, Outcomes
<1>5. Open(job[w], reviews[k]) /\ k \in DOMAIN reviews /\ job[w].call <= Calls
  BY <1>1, <1>3, HoldingFacts
<1>6. /\ Touches(k) /\ reviews'[k].attempt = reviews[k].attempt
      /\ reviews'[k].outcome = o \/ reviews'[k].outcome = reviews[k].outcome
  BY <1>3, <1>4, <1>5, Types, OutcomeFacts
<1>7. /\ k \in Sent <=> job[w].result # "definite_failed"
      /\ reviews[k].outcome # "never_ran"
      /\ reviews[k].attempt = job[w].result \/ k \in faulty
  BY <1>1, <1>3, <1>5 DEF Open, Left, At
<1>8. Moves(w) /\ job'[w].pc \in {"next", "done"} /\ job'[w].review = 0
  BY <1>3, <1>5, EndFacts, NextFacts
<1>9. \/ reviews'[k].attempt \notin {"none", "ambiguous"}
      \/ k \in Sent \cup faulty'
  BY <1>6, <1>7 DEF Touches
<1>10. QED
  BY <1>1, <1>3, <1>4, <1>6, <1>7, <1>8, <1>9, EndStep

\* The outcome of a panic.
LEMMA PanickedOutcome ==
    ASSUME IInv, NEW w \in Workers, PanicOutcome(w) PROVE IInv'
<1>1. PICK k : k = job[w].review
  OBVIOUS
<1>2. /\ Same /\ wire' = wire /\ ran' = ran /\ At(w, "panicked")
      /\ RecordOutcome(k, "ambiguous") /\ "ambiguous" \in Outcomes
      /\ Goto(w, "panic_audit") /\ "panic_audit" \in Points
      /\ job[w].pc \in Holding /\ job \in [Workers -> Job]
  BY <1>1, Types DEF Same, PanicOutcome, At, Holding, Points, Outcomes
<1>3. Open(job[w], reviews[k]) /\ k \in DOMAIN reviews
  BY <1>1, <1>2, HoldingFacts
<1>4. /\ Touches(k) /\ reviews'[k].attempt = reviews[k].attempt
      /\ reviews'[k].outcome = "ambiguous" \/ reviews'[k].outcome = reviews[k].outcome
  BY <1>2, <1>3, Types, OutcomeFacts
<1>5. /\ Moves(w) /\ job'[w].pc = "panic_audit" /\ job'[w].call = job[w].call
      /\ job'[w].review = k
  BY <1>1, <1>2, GotoFacts
<1>6. SentBut(k) /\ Sent' = Sent
  BY <1>2 DEF SentBut, Sent
<1>7. SameReview(reviews[k], reviews'[k])
  BY <1>3, <1>4 DEF Touches
<1>8. Open(job[w], reviews[k])'
  BY <1>1, <1>2, <1>3, <1>4, <1>5, <1>6, <1>7 DEF Open, Left, At, SameReview
<1>9. reviews'[k].outcome # "never_ran" /\ job'[w].pc \in Holding /\ ~At(w, "calling")'
  BY <1>2, <1>3, <1>4, <1>5 DEF Open, At, Holding
<1>10. wire' \subseteq DOMAIN reviews' /\ ran' \subseteq DOMAIN reviews'
  BY <1>2, <1>4, Types DEF Touches
<1>11. QED
  BY <1>1, <1>2, <1>4, <1>5, <1>6, <1>8, <1>9, <1>10, KeepStep

\* Its attempt line, after which the run ends.
LEMMA PanickedAttempt ==
    ASSUME IInv, NEW w \in Workers, PanicAttempt(w) PROVE IInv'
<1>1. PICK k : k = job[w].review
  OBVIOUS
<1>2. /\ Same /\ wire' = wire /\ ran' = ran /\ At(w, "panic_audit")
      /\ RecordAttempt(k, "panic") /\ "panic" \in Attempts /\ EndRun(w)
      /\ job[w].pc \in Holding /\ job \in [Workers -> Job]
  BY <1>1, Types DEF Same, PanicAttempt, At, Holding, Attempts
<1>3. Open(job[w], reviews[k]) /\ k \in DOMAIN reviews
  BY <1>1, <1>2, HoldingFacts
<1>4. k \in Sent /\ reviews[k].attempt = "none"
  BY <1>1, <1>2, <1>3 DEF Open, Left, At
<1>5. Touches(k) /\ reviews'[k].outcome = reviews[k].outcome
  BY <1>2, <1>3, <1>4, Types, AttemptFacts
<1>6. reviews[k].outcome # "never_ran"
  BY <1>3, <1>4 DEF IInv, Traced
<1>7. Moves(w) /\ job'[w].pc \in {"next", "done"} /\ job'[w].review = 0
  BY <1>2, EndFacts
<1>8. QED
  BY <1>1, <1>2, <1>4, <1>5, <1>6, <1>7, EndStep

-----------------------------------------------------------------------------
(* The far side, a cancel and a replacement: no worker moves.               *)

LEMMA WorldStep ==
    ASSUME IInv, NEW k, Touches(k), SentBut(k), Sent' = Sent, Same, job' = job,
           wire' \subseteq DOMAIN reviews', ran' \subseteq DOMAIN reviews',
           \A v \in Workers : job[v].review # 0 /\ job[v].review = k =>
              Open(job[v], reviews[k])',
           k \in DOMAIN reviews' => Traced(k)'
    PROVE  IInv'
<1>1. Within
  BY DEF Within, Same
<1>2. TypeOK'
  BY Types DEF TypeOK, StoreTypeOK, Touches, Same
<1>3. LeaseInv'
  BY <1>1, LeaseKept DEF IInv
<1>4. HoldInv'
  <2>1. ASSUME NEW v \in Workers PROVE Holds(v)'
    <3>1. Holds(v) /\ Gen(v)' = Gen(v)
      BY DEF IInv, HoldInv, Gen, Same
    <3>2. CASE job[v].review # 0 /\ job[v].review = k
      <4>1. /\ k \in DOMAIN reviews' /\ k \in DOMAIN reviews
            /\ reviews'[k].schedule = reviews[k].schedule
            /\ reviews'[k].generation = reviews[k].generation
        BY <3>1, <3>2 DEF Touches, SameReview, Holds
      <4>2. Open(job[v], reviews[k])'
        BY <3>2
      <4>3. QED
        BY <3>1, <3>2, <4>1, <4>2 DEF Holds
    <3>3. CASE job[v].review # 0 => job[v].review # k
      BY <3>1, <3>3, HoldKept DEF Same
    <3>4. QED
      BY <3>2, <3>3
  <2>2. OwnReview'
    BY DEF IInv, HoldInv, OwnReview
  <2>3. QED
    BY <2>1, <2>2 DEF HoldInv
<1>5. ASSUME NEW i \in DOMAIN reviews' PROVE Traced(i)'
  <2>1. CASE i = k
    BY <2>1
  <2>2. CASE i # k
    <3>1. i \in DOMAIN reviews /\ Traced(i)
      BY <2>2 DEF Touches, IInv
    <3>2. QED
      BY <2>2, <3>1, TracedKept
  <2>3. QED
    BY <2>1, <2>2
<1>6. ASSUME NEW v \in Workers PROVE Excludes(v)' /\ Cleared(v)'
  <2>1. Excludes(v) /\ Cleared(v) /\ (Fired(v)' <=> Fired(v)) /\ Sent \subseteq DOMAIN reviews
    BY Types DEF IInv, Fired
  <2>2. Excludes(v)'
    BY <1>1, <2>1, ExcludesKept
  <2>3. claims'[v] = claims[v]
    BY DEF Same
  <2>4. Cleared(v)'
    BY <2>1, <2>3, ClearedKept
  <2>5. QED
    BY <2>2, <2>4
<1>7. QED
  BY <1>2, <1>3, <1>4, <1>5, <1>6 DEF IInv

LEMMA CarryingOut ==
    ASSUME IInv, NEW i \in wire, CarryOut(i) PROVE IInv'
<1>1. /\ Same /\ job' = job /\ reviews' = reviews /\ faulty' = faulty
      /\ wire' = wire \ {i} /\ ran' = ran \cup {i}
  BY DEF CarryOut, Same
<1>2. Sent' = Sent /\ SentBut(0) /\ Touches(0)
  BY <1>1, Types, Untouched DEF Sent, SentBut
<1>3. /\ wire' \subseteq DOMAIN reviews' /\ ran' \subseteq DOMAIN reviews'
      /\ 0 \notin DOMAIN reviews'
  BY <1>1, Types
<1>4. QED
  BY <1>1, <1>2, <1>3, WorldStep

\* A cancel gives an approved review the ambiguous outcome.
LEMMA Cancelling ==
    ASSUME IInv, NEW k \in DOMAIN reviews, TurnCancel(k) PROVE IInv'
<1>1. /\ Same /\ job' = job /\ wire' = wire /\ ran' = ran
      /\ reviews[k].decision = "approved" /\ reviews[k].outcome = "none"
      /\ reviews' = [reviews EXCEPT ![k].outcome = "ambiguous"]
      /\ faulty' = faulty \cup {k}
  BY DEF TurnCancel, Same
<1>2. PICK r \in Review : r = reviews[k]
  BY Types
<1>3. PICK q : q = [r EXCEPT !.outcome = "ambiguous"]
  OBVIOUS
<1>4. /\ q \in Review /\ SameReview(r, q) /\ q.outcome = "ambiguous"
      /\ q.attempt = r.attempt /\ q.decision = r.decision
  BY <1>3 DEF Review, SameReview, Outcomes
<1>5. reviews' = [reviews EXCEPT ![k] = q]
  BY <1>1, <1>2, <1>3
<1>6. Touches(k) /\ reviews'[k] = q
  BY <1>1, <1>2, <1>4, <1>5, Types, SetReview
<1>7. Sent' = Sent /\ SentBut(k)
  BY <1>1 DEF Sent, SentBut
<1>8. wire' \subseteq DOMAIN reviews' /\ ran' \subseteq DOMAIN reviews'
  BY <1>1, <1>6, Types DEF Touches
<1>9. ASSUME NEW v \in Workers, job[v].review # 0, job[v].review = k
      PROVE  Open(job[v], reviews[k])'
  <2>1. Open(job[v], reviews[k])
    BY <1>9 DEF IInv, HoldInv, Holds
  <2>2. k \in faulty'
    BY <1>1
  <2>3. QED
    BY <1>1, <1>2, <1>4, <1>6, <1>7, <1>9, <2>1, <2>2 DEF Open, Left
<1>10. Traced(k)'
  <2>1. Traced(k) /\ (IsScheduled(k)' <=> IsScheduled(k))
    BY <1>2, <1>4, <1>6 DEF IInv, IsScheduled, SameReview
  <2>2. k \in faulty'
    BY <1>1
  <2>3. QED
    BY <1>4, <1>6, <1>7, <2>1, <2>2 DEF Traced
<1>11. QED
  BY <1>1, <1>6, <1>7, <1>8, <1>9, <1>10, WorldStep

\* A person is asked to replace an item; the review of the answer is of no run.
LEMMA Replacing ==
    ASSUME IInv, NEW i \in DOMAIN reviews, NEW d \in {"approved", "denied"}, Replace(i, d)
    PROVE  IInv'
<1>1. PICK k : k = Len(reviews) + 1
  OBVIOUS
<1>2. PICK x : x = [schedule |-> reviews[i].schedule, generation |-> 0,
                    decision |-> d, replaces |-> i,
                    outcome |-> "none", attempt |-> "none"]
  OBVIOUS
<1>3. /\ Same /\ job' = job /\ wire' = wire /\ ran' = ran /\ faulty' = faulty
      /\ Len(reviews) < MaxReviews /\ reviews' = Append(reviews, x)
  BY <1>2 DEF Replace, Same
<1>4. x \in Review /\ x.generation = 0
  <2>1. reviews[i].schedule \in Schedules
    BY Types DEF Review
  <2>2. i \in 0..MaxReviews
    BY <1>3, Types, MaxReviewsAssumption
  <2>3. QED
    BY <1>2, <2>1, <2>2 DEF Review, Outcomes, Attempts
<1>5. /\ Touches(k) /\ k \notin DOMAIN reviews
      /\ k \in DOMAIN reviews' /\ reviews'[k] = x
  BY <1>1, <1>3, <1>4, Types, AppendFacts
<1>6. Sent' = Sent /\ SentBut(k) /\ k \notin Sent
  BY <1>3, <1>5, Types DEF Sent, SentBut
<1>7. wire' \subseteq DOMAIN reviews' /\ ran' \subseteq DOMAIN reviews'
  BY <1>3, <1>5, Types DEF Touches
<1>8. \A v \in Workers : ~(job[v].review # 0 /\ job[v].review = k)
  BY <1>5 DEF IInv, HoldInv, Holds
<1>9. Traced(k)'
  BY <1>4, <1>5, <1>6 DEF Traced, IsScheduled
<1>10. QED
  BY <1>3, <1>5, <1>6, <1>7, <1>8, <1>9, WorldStep

-----------------------------------------------------------------------------
(* The steps of the tick.                                                   *)

\* The logs and the requests stay.
Quiet == reviews' = reviews /\ wire' = wire /\ ran' = ran

LEMMA QuietFacts ==
    ASSUME IInv, Quiet, NEW k, faulty' = faulty
    PROVE  Touches(k) /\ SentBut(k) /\ Sent' = Sent /\ Superseded' = Superseded
BY Types, Untouched DEF Quiet, SentBut, Sent, Superseded

LEMMA Ticking == ASSUME IInv, Clock PROVE IInv'
<1>1. /\ Quiet /\ faulty' = faulty /\ job' = job /\ rows' = rows /\ claims' = claims
      /\ now' \in Nat
  BY BoundsAssumption DEF Clock, StoreClock, fireVars, Quiet
<1>2. TypeOK'
  BY <1>1, Types DEF TypeOK, StoreTypeOK, Quiet, LogTyped
<1>3. LeaseInv'
  BY <1>1 DEF IInv, LeaseInv, Leased, OwnGeneration, Busy, At, Gen
<1>4. Sent' = Sent /\ Superseded' = Superseded /\ \A v \in Workers : Gen(v)' = Gen(v)
  BY <1>1 DEF Quiet, Sent, Superseded, Gen
<1>5. ASSUME NEW v \in Workers PROVE Holds(v)' /\ Excludes(v)' /\ Cleared(v)'
  <2>1. Holds(v) /\ Excludes(v) /\ Cleared(v)
    BY DEF IInv, HoldInv
  <2>2. Touches(0) /\ SentBut(0)
    BY <1>1, QuietFacts
  <2>3. Holds(v)'
    <3>1. 0 \notin DOMAIN reviews
      BY Types
    <3>2. QED
      BY <1>1, <2>1, <2>2, HoldKept
  <2>4. Excludes(v)'
    BY <1>1, <1>4, <2>1 DEF Excludes, At, Busy, Gen, TookOver
  <2>5. Cleared(v)'
    BY <1>1, <1>4, <2>1 DEF Cleared, Fired, TookOver, Gen, Quiet
  <2>6. QED
    BY <2>3, <2>4, <2>5
<1>6. OwnReview'
  BY <1>1 DEF IInv, HoldInv, OwnReview
<1>7. ASSUME NEW i \in DOMAIN reviews' PROVE Traced(i)'
  BY <1>1, <1>4 DEF IInv, Traced, IsScheduled, Quiet
<1>8. QED
  BY <1>2, <1>3, <1>5, <1>6, <1>7 DEF IInv, HoldInv

\* A worker that keeps its claim while another one starts or leaves.
LEMMA StillHolds ==
    ASSUME IInv, Quiet, NEW k, Touches(k), reviews' = reviews, NEW v \in Workers,
           job'[v] = job[v], claims'[v] = claims[v]
    PROVE  Holds(v)' /\ Cleared(v)'
<1>1. Sent' = Sent /\ SentBut(0) /\ Superseded' = Superseded /\ faulty \subseteq faulty'
  BY DEF Quiet, Sent, SentBut, Superseded, Touches
<1>2. Holds(v) /\ Cleared(v) /\ Gen(v)' = Gen(v)
  BY DEF IInv, HoldInv, Gen
<1>3. Cleared(v)'
  BY <1>1, <1>2 DEF Cleared, Fired, TookOver
<1>4. CASE job[v].pc \in Holding
  <2>1. Open(job[v], reviews[job[v].review])'
    BY <1>1, <1>2, <1>4 DEF Holds, Open, Left
  <2>2. QED
    BY <1>2, <1>3, <1>4, <2>1 DEF Holds
<1>5. CASE job[v].pc \notin Holding
  BY <1>2, <1>3, <1>5 DEF Holds
<1>6. QED
  BY <1>4, <1>5

\* A worker claims a lapsed lease.
LEMMA Claiming ==
    ASSUME IInv, NEW w \in Workers, NEW s \in Schedules, TickClaim(w, s) PROVE IInv'
<1>1. PICK g : g = rows[s].generation + 1
  OBVIOUS
<1>2. PICK row : row = ClaimedRow(w, rows[s])
  OBVIOUS
<1>3. PICK c : c = ClaimResult(rows[s])
  OBVIOUS
<1>4. PICK y : y = [pc |-> "claimed", schedule |-> s, call |-> 1, tries |-> 0,
                    review |-> 0, result |-> "none"]
  OBVIOUS
<1>5. /\ rows' = [rows EXCEPT ![s] = row] /\ claims' = [claims EXCEPT ![w][s] = c]
      /\ job' = [job EXCEPT ![w] = y] /\ now' = now
  BY <1>2, <1>3, <1>4 DEF TickClaim, StoreClaim
<1>6. /\ Quiet /\ faulty' = faulty /\ At(w, "idle")
  BY DEF TickClaim, Quiet
<1>7. rows[s] \in Row /\ rows[s].generation \in Nat /\ g \in Nat
  BY <1>1, GenTyped
<1>8. /\ row \in Row /\ row.owner = w /\ row.generation = g
      /\ c \in ClaimInfo /\ c.generation = g /\ c.lapsed_owner = rows[s].owner
  <2>1. now + Ttl \in Nat
    BY Types, TtlAssumption
  <2>2. rows[s].owner \in Owners /\ w \in Owners
    BY <1>7 DEF Row, Owners
  <2>3. QED
    BY <1>1, <1>2, <1>3, <1>7, <2>1, <2>2 DEF ClaimedRow, ClaimResult, Row, ClaimInfo
<1>9. /\ y \in Job /\ y.pc = "claimed" /\ y.schedule = s /\ y.review = 0
  <2>1. 1 \in 1..Calls + 1 /\ 0 \in 0..MaxRetries /\ 0 \in 0..MaxReviews
    BY CallsAssumption, MaxReviewsAssumption
  <2>2. QED
    BY <1>4, <2>1 DEF Job, Points
<1>10. /\ rows' \in [Schedules -> Row] /\ rows'[s] = row
       /\ \A t \in Schedules : t # s => rows'[t] = rows[t]
  BY <1>5, <1>8, Types
<1>11. /\ claims' \in [Workers -> [Schedules -> ClaimInfo]] /\ claims'[w][s] = c
       /\ \A v \in Workers : v # w => claims'[v] = claims[v]
  BY <1>5, <1>8, Types
<1>12. /\ job' \in [Workers -> Job] /\ job'[w] = y
       /\ \A v \in Workers : v # w => job'[v] = job[v]
  BY <1>5, <1>9, Types
<1>13. TypeOK'
  BY <1>5, <1>6, <1>10, <1>11, <1>12, Types DEF TypeOK, StoreTypeOK, Quiet, LogTyped
<1>14. /\ Gen(w)' = g /\ Busy(w)' /\ job'[w].schedule = s
       /\ TookOver(w)' <=> rows[s].owner # Tombstone
  BY <1>8, <1>9, <1>11, <1>12 DEF Gen, Busy, At, TookOver
<1>15. ASSUME NEW v \in Workers, v # w
       PROVE  /\ Gen(v)' = Gen(v) /\ Gen(v) \in Nat
              /\ job[v].schedule \in Schedules
              /\ Busy(v)' <=> Busy(v)
              /\ Busy(v) /\ job[v].schedule = s => Gen(v) < g
  <2>1. /\ Gen(v)' = Gen(v) /\ (Busy(v)' <=> Busy(v))
    BY <1>11, <1>12, <1>15 DEF Gen, Busy, At
  <2>2. Gen(v) \in Nat /\ job[v].schedule \in Schedules
    BY GenTyped
  <2>3. Busy(v) /\ job[v].schedule = s => Gen(v) <= rows[s].generation
    BY DEF IInv, LeaseInv, Leased
  <2>4. QED
    BY <1>1, <1>7, <2>1, <2>2, <2>3
<1>16. LeaseInv'
  <2>1. Leased(w)'
    BY <1>1, <1>7, <1>8, <1>10, <1>14 DEF Leased
  <2>2. ASSUME NEW v \in Workers, v # w PROVE Leased(v)'
    <3>1. Leased(v) /\ job'[v].schedule = job[v].schedule
      BY <1>12, <2>2 DEF IInv, LeaseInv
    <3>2. CASE job[v].schedule # s
      BY <1>10, <1>15, <2>2, <3>1, <3>2 DEF Leased
    <3>3. CASE job[v].schedule = s
      <4>1. Busy(v) => 0 < Gen(v) /\ Gen(v) < g
        BY <1>15, <2>2, <3>1, <3>3 DEF Leased
      <4>2. rows'[job'[v].schedule].generation = g /\ rows'[job'[v].schedule].owner # v
        BY <1>8, <1>10, <2>2, <3>1, <3>3
      <4>3. Gen(v)' = Gen(v) /\ Gen(v) \in Nat /\ (Busy(v)' <=> Busy(v))
        BY <1>15, <2>2
      <4>4. QED
        BY <1>7, <4>1, <4>2, <4>3 DEF Leased
    <3>4. QED
      BY <3>2, <3>3
  <2>3. OwnGeneration'
    <3> SUFFICES ASSUME NEW u \in Workers, NEW v \in Workers, u # v, Busy(u)', Busy(v)',
                        job'[u].schedule = job'[v].schedule
                 PROVE  Gen(u)' # Gen(v)'
      BY DEF OwnGeneration
    <3>1. CASE u = w
      BY <1>7, <1>12, <1>14, <1>15, <3>1
    <3>2. CASE v = w
      BY <1>7, <1>12, <1>14, <1>15, <3>2
    <3>3. CASE u # w /\ v # w
      <4>1. Gen(u) # Gen(v)
        BY <1>12, <1>15, <3>3 DEF IInv, LeaseInv, OwnGeneration
      <4>2. QED
        BY <1>15, <3>3, <4>1
    <3>4. QED
      BY <3>1, <3>2, <3>3
  <2>4. QED
    BY <2>1, <2>2, <2>3 DEF LeaseInv
<1>17. Touches(0) /\ Sent' = Sent /\ Superseded' = Superseded
  BY <1>6, QuietFacts
<1>18. ASSUME NEW v \in Workers PROVE Holds(v)' /\ Cleared(v)'
  <2>1. CASE v = w
    BY <1>9, <1>12, <2>1 DEF Holds, Holding, Cleared, Fired
  <2>2. CASE v # w
    BY <1>6, <1>11, <1>12, <1>17, <2>2, StillHolds DEF Quiet
  <2>3. QED
    BY <2>1, <2>2
<1>19. job[w].review = 0
  BY <1>6 DEF IInv, HoldInv, Holds, Holding, At
<1>20. OwnReview'
  BY <1>9, <1>12, <1>19 DEF IInv, HoldInv, OwnReview
<1>21. ASSUME NEW i \in DOMAIN reviews' PROVE Traced(i)'
  <2>1. i \in DOMAIN reviews /\ i # 0 /\ Traced(i)
    BY <1>6, Types DEF IInv, Quiet
  <2>2. \A v \in Workers : job[v].review = i => job'[v].review = i
    BY <1>12, <1>19, <2>1
  <2>3. QED
    BY <1>6, <1>17, <2>1, <2>2 DEF Traced, IsScheduled, Quiet
<1>22. ASSUME NEW v \in Workers PROVE Excludes(v)'
  <2> SUFFICES ASSUME At(v, "calling")', job'[v].review \notin Superseded'
               PROVE  /\ rows'[job'[v].schedule].owner # Tombstone
                      /\ \A u \in Workers :
                            Busy(u)' /\ job'[u].schedule = job'[v].schedule /\ Gen(u)' > Gen(v)'
                            => At(u, "claimed")' /\ TookOver(u)'
    BY DEF Excludes
  <2>1. v # w
    BY <1>9, <1>12 DEF At
  <2>2. At(v, "calling") /\ job[v].review \notin Superseded /\ job'[v] = job[v]
    BY <1>12, <1>17, <2>1 DEF At
  <2>3. rows[job[v].schedule].owner # Tombstone /\ job[v].schedule \in Schedules
    BY <2>2, GenTyped DEF IInv, Excludes
  <2>4. rows'[job'[v].schedule].owner # Tombstone
    BY <1>8, <1>10, <2>2, <2>3, TombstoneAssumption
  <2>5. ASSUME NEW u \in Workers, Busy(u)', job'[u].schedule = job'[v].schedule,
               Gen(u)' > Gen(v)'
        PROVE  At(u, "claimed")' /\ TookOver(u)'
    <3>1. CASE u = w
      BY <1>9, <1>12, <1>14, <2>2, <2>3, <2>5, <3>1 DEF At
    <3>2. CASE u # w
      <4>1. Busy(u) /\ job[u].schedule = job[v].schedule /\ Gen(u) > Gen(v)
        BY <1>12, <1>15, <2>1, <2>5, <3>2
      <4>2. At(u, "claimed") /\ TookOver(u)
        BY <2>2, <4>1 DEF IInv, Excludes
      <4>3. QED
        BY <1>11, <1>12, <3>2, <4>2 DEF At, TookOver
    <3>3. QED
      BY <3>1, <3>2
  <2>6. QED
    BY <2>4, <2>5
<1>23. QED
  BY <1>13, <1>16, <1>18, <1>20, <1>21, <1>22 DEF IInv, HoldInv

\* A worker leaves its run.  If the lease is its own it may release it, but not
\* from inside a call.
LEMMA LeavingStep ==
    ASSUME IInv, NEW w \in Workers, Busy(w), Quiet, now' = now,
           NEW k, k = job[w].review, Touches(k),
           k # 0 => k \in faulty',
           job' \in [Workers -> Job], \A v \in Workers : v # w => job'[v] = job[v],
           job'[w].pc = "idle", job'[w].review = 0,
           claims' \in [Workers -> [Schedules -> ClaimInfo]],
           \A v \in Workers : v # w => claims'[v] = claims[v],
           \/ rows' = rows
           \/ /\ At(w, "done") /\ rows[job[w].schedule].owner = w
              /\ rows' = [rows EXCEPT ![job[w].schedule] = ReleasedRow(rows[job[w].schedule])]
    PROVE  IInv'
<1>1. PICK s \in Schedules : s = job[w].schedule
  BY GenTyped
<1>2. PICK row : row = ReleasedRow(rows[s])
  OBVIOUS
<1>3. rows[s] \in Row /\ row \in Row /\ row.owner = Tombstone
      /\ row.generation = rows[s].generation
  BY <1>2, GenTyped DEF ReleasedRow, Row, Owners
<1>4. /\ rows' \in [Schedules -> Row]
      /\ \A t \in Schedules : rows'[t].generation = rows[t].generation
      /\ \A t \in Schedules : \/ rows'[t] = rows[t]
                              \/ /\ t = s /\ At(w, "done") /\ rows[s].owner = w
                                 /\ rows'[s].owner = Tombstone
  <2>1. CASE rows' = rows
    BY <2>1, Types
  <2>2. CASE /\ At(w, "done") /\ rows[s].owner = w
             /\ rows' = [rows EXCEPT ![s] = row]
    BY <1>3, <2>2, Types
  <2>3. QED
    BY <1>1, <1>2, <2>1, <2>2
<1>5. TypeOK'
  BY <1>4, Types DEF TypeOK, StoreTypeOK, Quiet, Touches
<1>6. ~Busy(w)'
  BY DEF Busy, At
<1>7. ASSUME NEW v \in Workers, v # w
      PROVE  /\ Gen(v)' = Gen(v) /\ Gen(v) \in Nat /\ job[v].schedule \in Schedules
             /\ Busy(v)' <=> Busy(v)
  BY <1>7, GenTyped DEF Gen, Busy, At
<1>8. LeaseInv'
  <2>1. Leased(w)'
    BY <1>6 DEF Leased
  <2>2. ASSUME NEW v \in Workers, v # w PROVE Leased(v)'
    <3>1. Leased(v) /\ Leased(w) /\ job'[v].schedule = job[v].schedule
      BY <2>2 DEF IInv, LeaseInv
    <3>2. CASE rows'[job[v].schedule] = rows[job[v].schedule]
      BY <1>7, <2>2, <3>1, <3>2 DEF Leased
    <3>3. CASE job[v].schedule = s /\ rows[s].owner = w /\ rows'[s].owner = Tombstone
      <4>1. rows[s].owner # v /\ rows'[s].owner # v
        BY <2>2, <3>3, TombstoneAssumption
      <4>2. QED
        BY <1>4, <1>7, <2>2, <3>1, <3>3, <4>1 DEF Leased
    <3>4. QED
      BY <1>4, <1>7, <2>2, <3>2, <3>3
  <2>3. OwnGeneration'
    <3> SUFFICES ASSUME NEW u \in Workers, NEW v \in Workers, u # v, Busy(u)', Busy(v)',
                        job'[u].schedule = job'[v].schedule
                 PROVE  Gen(u)' # Gen(v)'
      BY DEF OwnGeneration
    <3>1. u # w /\ v # w
      BY <1>6
    <3>2. Gen(u) # Gen(v)
      BY <1>7, <3>1 DEF IInv, LeaseInv, OwnGeneration
    <3>3. QED
      BY <1>7, <3>1, <3>2
  <2>4. QED
    BY <2>1, <2>2, <2>3 DEF LeaseInv
<1>9. Sent' = Sent /\ Superseded' = Superseded /\ faulty \subseteq faulty'
  BY DEF Quiet, Sent, Superseded, Touches
<1>10. ASSUME NEW v \in Workers PROVE Holds(v)' /\ Cleared(v)'
  <2>1. CASE v = w
    BY <2>1 DEF Holds, Holding, Cleared, Fired
  <2>2. CASE v # w
    BY <2>2, StillHolds DEF Quiet
  <2>3. QED
    BY <2>1, <2>2
<1>11. OwnReview'
  BY DEF IInv, HoldInv, OwnReview
<1>12. ASSUME NEW i \in DOMAIN reviews' PROVE Traced(i)'
  <2>1. i \in DOMAIN reviews /\ i # 0 /\ Traced(i) /\ reviews'[i] = reviews[i]
    BY Types DEF IInv, Quiet
  <2>2. \A v \in Workers : job[v].review = i => job'[v].review = i \/ i \in faulty'
    BY <2>1
  <2>3. QED
    BY <1>9, <2>1, <2>2 DEF Traced, IsScheduled
<1>13. ASSUME NEW v \in Workers PROVE Excludes(v)'
  <2> SUFFICES ASSUME At(v, "calling")', job'[v].review \notin Superseded'
               PROVE  /\ rows'[job'[v].schedule].owner # Tombstone
                      /\ \A u \in Workers :
                            Busy(u)' /\ job'[u].schedule = job'[v].schedule /\ Gen(u)' > Gen(v)'
                            => At(u, "claimed")' /\ TookOver(u)'
    BY DEF Excludes
  <2>1. v # w
    BY DEF At
  <2>2. At(v, "calling") /\ job[v].review \notin Superseded /\ job'[v] = job[v] /\ Excludes(v)
    BY <1>9, <2>1 DEF At, IInv
  <2>3. rows'[job'[v].schedule].owner # Tombstone
    <3>1. ASSUME job[v].schedule = s, At(w, "done"), rows[s].owner = w PROVE FALSE
      <4>1. Gen(w) = rows[s].generation /\ Gen(v) <= rows[s].generation
        BY <1>1, <2>2, <3>1 DEF IInv, LeaseInv, Leased, Busy, At
      <4>2. Gen(w) # Gen(v)
        BY <1>1, <2>1, <2>2, <3>1 DEF IInv, LeaseInv, OwnGeneration, Busy, At
      <4>3. Gen(w) > Gen(v)
        <5>1. Gen(w) \in Nat /\ Gen(v) \in Nat
          BY GenTyped
        <5>2. \A a, b \in Nat : b <= a /\ a # b => a > b
          OBVIOUS
        <5>3. Gen(v) <= Gen(w)
          BY <4>1
        <5>4. QED
          BY <4>2, <5>1, <5>2, <5>3
      <4>4. At(w, "claimed")
        BY <1>1, <2>2, <3>1, <4>3 DEF Excludes
      <4>5. QED
        BY <3>1, <4>4 DEF At
    <3>2. rows'[job[v].schedule] = rows[job[v].schedule]
      BY <1>4, <1>7, <2>1, <3>1
    <3>3. QED
      BY <2>2, <3>2 DEF Excludes
  <2>4. ASSUME NEW u \in Workers, Busy(u)', job'[u].schedule = job'[v].schedule,
               Gen(u)' > Gen(v)'
        PROVE  At(u, "claimed")' /\ TookOver(u)'
    <3>1. u # w
      BY <1>6, <2>4
    <3>2. Busy(u) /\ job[u].schedule = job[v].schedule /\ Gen(u) > Gen(v)
      BY <1>7, <2>1, <2>4, <3>1
    <3>3. At(u, "claimed") /\ TookOver(u)
      BY <2>2, <3>2 DEF Excludes
    <3>4. QED
      BY <3>1, <3>3 DEF At, TookOver
  <2>5. QED
    BY <2>3, <2>4
<1>14. QED
  BY <1>5, <1>8, <1>10, <1>11, <1>12, <1>13 DEF IInv, HoldInv

\* No claim is a claim, and the claims of one worker change.
LEMMA ClaimsSet ==
    ASSUME IInv, NEW w \in Workers, NEW f \in [Schedules -> ClaimInfo],
           claims' = [claims EXCEPT ![w] = f]
    PROVE  /\ claims' \in [Workers -> [Schedules -> ClaimInfo]]
           /\ \A v \in Workers : v # w => claims'[v] = claims[v]
BY Types

LEMMA NoClaimTyped == NoClaim \in ClaimInfo
BY DEF NoClaim, ClaimInfo, Owners

\* The schedule is held for a person.
LEMMA HoldingBack == ASSUME IInv, NEW w \in Workers, NeedsReview(w) PROVE IInv'
<1>1. /\ Quiet /\ faulty' = faulty /\ now' = now /\ rows' = rows
      /\ At(w, "claimed") /\ Goto(w, "idle") /\ "idle" \in Points
  BY DEF NeedsReview, StoreHold, Quiet, Points
<1>2. PICK f : f = [claims[w] EXCEPT ![job[w].schedule] = NoClaim]
  OBVIOUS
<1>3. f \in [Schedules -> ClaimInfo] /\ claims' = [claims EXCEPT ![w] = f]
  BY <1>2, Types, GenTyped, NoClaimTyped DEF NeedsReview, StoreHold
<1>4. /\ claims' \in [Workers -> [Schedules -> ClaimInfo]]
      /\ \A v \in Workers : v # w => claims'[v] = claims[v]
  BY <1>3, ClaimsSet
<1>5. Moves(w) /\ job'[w].pc = "idle" /\ job'[w].review = job[w].review
  BY <1>1, Types, GotoFacts
<1>6. job[w].review = 0 /\ Busy(w)
  BY <1>1 DEF IInv, HoldInv, Holds, Holding, At, Busy
<1>7. Touches(0)
  BY <1>1, QuietFacts
<1>8. QED
  BY <1>1, <1>4, <1>5, <1>6, <1>7, LeavingStep DEF Moves

\* The run is over and the lease is released.
LEMMA Finishing == ASSUME IInv, NEW w \in Workers, Finish(w) PROVE IInv'
<1>1. /\ Quiet /\ faulty' = faulty /\ now' = now
      /\ At(w, "done") /\ Goto(w, "idle") /\ "idle" \in Points
  BY DEF Finish, StoreRelease, Quiet, Points
<1>2. PICK f : f = [claims[w] EXCEPT ![job[w].schedule] = NoClaim]
  OBVIOUS
<1>3. f \in [Schedules -> ClaimInfo] /\ claims' = [claims EXCEPT ![w] = f]
  BY <1>2, Types, GenTyped, NoClaimTyped DEF Finish, StoreRelease
<1>4. /\ claims' \in [Workers -> [Schedules -> ClaimInfo]]
      /\ \A v \in Workers : v # w => claims'[v] = claims[v]
  BY <1>3, ClaimsSet
<1>5. \/ rows' = rows
      \/ /\ At(w, "done") /\ rows[job[w].schedule].owner = w
         /\ rows' = [rows EXCEPT ![job[w].schedule] = ReleasedRow(rows[job[w].schedule])]
  BY DEF Finish, StoreRelease
<1>6. Moves(w) /\ job'[w].pc = "idle" /\ job'[w].review = job[w].review
  BY <1>1, Types, GotoFacts
<1>7. job[w].review = 0 /\ Busy(w)
  BY <1>1 DEF IInv, HoldInv, Holds, Holding, At, Busy
<1>8. Touches(0)
  BY <1>1, QuietFacts
<1>9. QED
  BY <1>1, <1>4, <1>5, <1>6, <1>7, <1>8, LeavingStep DEF Moves

\* The worker dies.
LEMMA Crashing == ASSUME IInv, NEW w \in Workers, Crash(w) PROVE IInv'
<1>1. PICK x \in Job : x = job[w]
  BY Types
<1>2. PICK y : y = [x EXCEPT !.pc = "idle", !.review = 0, !.result = "none"]
  OBVIOUS
<1>3. PICK k : k = x.review
  OBVIOUS
<1>4. PICK f : f = [s \in Schedules |-> NoClaim]
  OBVIOUS
<1>5. /\ Quiet /\ now' = now /\ rows' = rows /\ Busy(w)
      /\ faulty' = faulty \cup ({k} \ {0})
  BY <1>1, <1>3 DEF Crash, StoreCrash, Quiet, Busy
<1>6. job' = [job EXCEPT ![w] = y]
  BY <1>1, <1>2 DEF Crash
<1>7. y \in Job /\ y.pc = "idle" /\ y.review = 0 /\ y.schedule = x.schedule
  <2>1. 0 \in 0..MaxReviews
    BY MaxReviewsAssumption
  <2>2. QED
    BY <1>2, <2>1 DEF Job, Points
<1>8. Moves(w) /\ job'[w] = y
  BY <1>1, <1>6, <1>7, Types, JobSet
<1>9. f \in [Schedules -> ClaimInfo] /\ claims' = [claims EXCEPT ![w] = f]
  BY <1>4, NoClaimTyped DEF Crash, StoreCrash
<1>10. /\ claims' \in [Workers -> [Schedules -> ClaimInfo]]
       /\ \A v \in Workers : v # w => claims'[v] = claims[v]
  BY <1>9, ClaimsSet
<1>11. k # 0 => k \in DOMAIN reviews
  BY <1>1, <1>3 DEF IInv, HoldInv, Holds
<1>12. Touches(k)
  BY <1>5, <1>11, Types DEF Touches, LogTyped, SameReview, Quiet
<1>13. k = job[w].review /\ (k # 0 => k \in faulty')
  BY <1>1, <1>3, <1>5
<1>14. QED
  BY <1>5, <1>7, <1>8, <1>10, <1>12, <1>13, LeavingStep DEF Moves

\* The takeover check has found nothing uncertain: the run starts.
LEMMA Firing == ASSUME IInv, NEW w \in Workers, Fire(w) PROVE IInv'
<1>1. /\ Same /\ Quiet /\ faulty' = faulty /\ At(w, "claimed") /\ Goto(w, "next")
      /\ "next" \in Points
  BY DEF Fire, Same, Quiet, Points
<1>2. TookOver(w) => Uncertain(job[w].schedule) = {}
  BY DEF Fire
<1>3. /\ Moves(w) /\ job'[w].pc = "next" /\ job'[w].review = job[w].review
  BY <1>1, Types, GotoFacts
<1>4. job[w].review = 0
  BY <1>1 DEF IInv, HoldInv, Holds, Holding, At
<1>5. Within
  BY <1>1, <1>3 DEF Within, Moves, Same, At
<1>6. Touches(0) /\ SentBut(0) /\ Sent' = Sent /\ Superseded' = Superseded
  BY <1>1, QuietFacts
<1>7. TypeOK'
  BY <1>1, <1>3, Types DEF TypeOK, StoreTypeOK, Quiet, LogTyped, Same, Moves
<1>8. LeaseInv'
  BY <1>5, LeaseKept DEF IInv
<1>9. ASSUME NEW i \in Sent, TookOver(w), reviews[i].schedule = job[w].schedule,
             i \notin Superseded
      PROVE  reviews[i].attempt \in Certain
  <2>1. i \in DOMAIN reviews /\ IsScheduled(i) /\ reviews[i].outcome # "never_ran"
    BY Types DEF IInv, Traced
  <2>2. reviews[i].attempt \notin {"none", "ambiguous"}
    BY <1>2, <1>9, <2>1 DEF Uncertain
  <2>3. reviews[i].attempt \in Attempts
    BY <2>1, Types DEF Review
  <2>4. QED
    BY <2>2, <2>3 DEF Certain, Attempts
<1>10. ASSUME NEW v \in Workers PROVE Holds(v)' /\ Cleared(v)'
  <2>1. CASE v = w
    <3>1. Holds(w)'
      BY <1>3, <1>4 DEF Holds, Holding
    <3>2. (TookOver(w)' <=> TookOver(w)) /\ job'[w].schedule = job[w].schedule
      BY <1>1, <1>3 DEF TookOver, Same, Moves
    <3>3. Cleared(w)'
      BY <1>1, <1>6, <1>9, <3>2 DEF Cleared, Quiet
    <3>4. QED
      BY <2>1, <3>1, <3>3
  <2>2. CASE v # w
    BY <1>1, <1>3, <1>6, <2>2, StillHolds DEF Moves, Same, Quiet
  <2>3. QED
    BY <2>1, <2>2
<1>11. OwnReview'
  BY <1>3, <1>4 DEF IInv, HoldInv, OwnReview, Moves
<1>12. ASSUME NEW i \in DOMAIN reviews' PROVE Traced(i)'
  <2>1. i \in DOMAIN reviews /\ Traced(i) /\ i # 0
    BY <1>1, Types DEF IInv, Quiet
  <2>2. \A v \in Workers : job[v].review = i => job'[v].review = i
    BY <1>3 DEF Moves
  <2>3. QED
    BY <1>6, <2>1, <2>2, TracedKept
<1>13. ASSUME NEW v \in Workers PROVE Excludes(v)'
  <2> SUFFICES ASSUME At(v, "calling")', job'[v].review \notin Superseded'
               PROVE  /\ rows'[job'[v].schedule].owner # Tombstone
                      /\ \A u \in Workers :
                            Busy(u)' /\ job'[u].schedule = job'[v].schedule /\ Gen(u)' > Gen(v)'
                            => At(u, "claimed")' /\ TookOver(u)'
    BY DEF Excludes
  <2>1. v # w
    BY <1>3 DEF At
  <2>2. At(v, "calling") /\ job[v].review \notin Superseded /\ job'[v] = job[v] /\ Excludes(v)
    BY <1>3, <1>6, <2>1 DEF At, Moves, IInv
  <2>3. rows'[job'[v].schedule].owner # Tombstone
    BY <1>1, <2>2 DEF Excludes, Same
  <2>4. ASSUME NEW u \in Workers, Busy(u)', job'[u].schedule = job'[v].schedule,
               Gen(u)' > Gen(v)'
        PROVE  At(u, "claimed")' /\ TookOver(u)'
    <3>1. Busy(u) /\ job[u].schedule = job[v].schedule /\ Gen(u) > Gen(v)
      BY <1>5, <2>4 DEF Within, Gen, Busy, At
    <3>2. At(u, "claimed") /\ TookOver(u)
      BY <2>2, <3>1 DEF Excludes
    <3>3. CASE u = w
      <4>1. PICK i : i = job[v].review
        OBVIOUS
      <4>2. job[v].pc \in Holding
        BY <2>2 DEF At, Holding
      <4>3. /\ i \in DOMAIN reviews /\ reviews[i].schedule = job[w].schedule
            /\ Open(job[v], reviews[i])
        BY <3>1, <3>3, <4>1, <4>2, HoldingFacts
      <4>4. i \in Sent /\ reviews[i].attempt = "none"
        BY <2>2, <4>1, <4>3 DEF Open, Left, At
      <4>5. reviews[i].attempt \in Certain
        BY <1>9, <2>2, <3>2, <3>3, <4>1, <4>3, <4>4
      <4>6. QED
        BY <4>4, <4>5 DEF Certain
    <3>4. CASE u # w
      BY <1>1, <1>3, <3>2, <3>4 DEF At, TookOver, Moves, Same
    <3>5. QED
      BY <3>3, <3>4
  <2>5. QED
    BY <2>3, <2>4
<1>14. QED
  BY <1>7, <1>8, <1>10, <1>11, <1>12, <1>13 DEF IInv, HoldInv

-----------------------------------------------------------------------------

LEMMA InitIInv == Init => IInv
<1> SUFFICES ASSUME Init PROVE IInv
  OBVIOUS
<1>1. /\ reviews = <<>> /\ DOMAIN reviews = {} /\ Len(reviews) = 0 /\ reviews \in Seq(Review)
      /\ wire = {} /\ ran = {} /\ faulty = {} /\ Sent = {}
  BY DEF Init, Sent
<1>2. /\ job \in [Workers -> Job]
      /\ \A w \in Workers : job[w].pc = "idle" /\ job[w].review = 0
  <2>1. 1 \in 1..Calls + 1 /\ 0 \in 0..MaxRetries /\ 0 \in 0..MaxReviews
    BY CallsAssumption, MaxReviewsAssumption
  <2>2. ASSUME NEW s \in Schedules, NEW y,
               y = [pc |-> "idle", schedule |-> s, call |-> 1, tries |-> 0,
                    review |-> 0, result |-> "none"]
        PROVE  y \in Job /\ y.pc = "idle" /\ y.review = 0
    BY <2>1, <2>2 DEF Job, Points
  <2>3. QED
    BY <2>2 DEF Init
<1>3. StoreTypeOK
  <2>1. NoRow \in Row
    BY DEF NoRow, Row, Owners
  <2>2. QED
    BY <2>1, NoClaimTyped DEF Init, StoreTypeOK, NoClaims
<1>4. TypeOK
  BY <1>1, <1>2, <1>3, MaxReviewsAssumption DEF TypeOK
<1>5. LeaseInv
  BY <1>2 DEF LeaseInv, Leased, OwnGeneration, Busy, At
<1>6. HoldInv
  BY <1>2 DEF HoldInv, Holds, OwnReview, Holding
<1>7. \A w \in Workers : Excludes(w) /\ Cleared(w)
  BY <1>2 DEF Excludes, Cleared, Fired, At
<1>8. QED
  BY <1>1, <1>4, <1>5, <1>6, <1>7 DEF IInv

\* Nothing changes.
LEMMA Stutter == ASSUME IInv, UNCHANGED vars PROVE IInv'
<1>1. /\ Quiet /\ Same /\ job' = job /\ faulty' = faulty
  BY DEF vars, Quiet, Same
<1>2. Touches(0) /\ SentBut(0) /\ Sent' = Sent
  BY <1>1, QuietFacts
<1>3. /\ 0 \notin DOMAIN reviews' /\ wire' \subseteq DOMAIN reviews'
      /\ ran' \subseteq DOMAIN reviews'
  BY <1>1, Types DEF Quiet
<1>4. QED
  BY <1>1, <1>2, <1>3, WorldStep

LEMMA StepIInv == IInv /\ [Next]_vars => IInv'
<1> SUFFICES ASSUME IInv, [Next]_vars PROVE IInv'
  OBVIOUS
<1>1. CASE UNCHANGED vars
  BY <1>1, Stutter
<1>2. CASE Clock
  BY <1>2, Ticking
<1>3. ASSUME NEW w \in Workers, WorkerStep(w) \/ Crash(w) PROVE IInv'
  <2>1. CASE \E s \in Schedules : TickClaim(w, s)
    BY <2>1, Claiming
  <2>2. CASE NeedsReview(w) \/ Fire(w) \/ Finish(w)
    BY <2>2, HoldingBack, Firing, Finishing
  <2>3. CASE Completed(w) \/ Refused(w) \/ StaleAtFirstFence(w) \/ PassFirstFence(w)
    BY <2>3, Between
  <2>4. CASE DenyAsk(w) \/ WriteReview(w) \/ ReviewFailed(w)
    BY <2>4, Reviewing
  <2>5. CASE HookRejects(w) \/ StaleBeforeSend(w)
    BY <2>5, NeverSent
  <2>6. CASE AuditDenied(w) \/ Send(w) \/ PassThirdFence(w)
    BY <2>6, Denying, Sending, Auditing
  <2>7. CASE \E r \in Results : Return(w, r)
    BY <2>7, Returning
  <2>8. CASE StaleAfterCall(w) \/ WriteAttempt(w) \/ WriteOutcome(w)
    BY <2>8, StaleAfter, WritingAttempt, WritingOutcome
  <2>9. CASE PanicOutcome(w) \/ PanicAttempt(w)
    BY <2>9, PanickedOutcome, PanickedAttempt
  <2>10. CASE Crash(w)
    BY <2>10, Crashing
  <2>11. QED
    BY <1>3, <2>1, <2>2, <2>3, <2>4, <2>5, <2>6, <2>7, <2>8, <2>9, <2>10 DEF WorkerStep
<1>4. ASSUME NEW i \in wire, CarryOut(i) PROVE IInv'
  BY <1>4, CarryingOut
<1>5. ASSUME NEW i \in DOMAIN reviews, TurnCancel(i) PROVE IInv'
  BY <1>5, Cancelling
<1>6. ASSUME NEW i \in DOMAIN reviews, NEW d \in {"approved", "denied"}, Replace(i, d)
      PROVE  IInv'
  BY <1>6, Replacing
<1>7. QED
  BY <1>1, <1>2, <1>3, <1>4, <1>5, <1>6 DEF Next

-----------------------------------------------------------------------------

\* The inductive invariant: the leases, the reviews that workers hold, what the
\* logs say of every request, and what an open call keeps others from.
THEOREM Inductive == Spec => []IInv
<1>1. Init => IInv
  BY InitIInv
<1>2. IInv /\ [Next]_vars => IInv'
  BY StepIInv
<1>3. QED
  BY <1>1, <1>2, PTL DEF Spec

\* Every variable keeps its type, and every request belongs to a review that was
\* written first (record_review before the request leaves, in execute_call).
THEOREM FiresTyped == Spec => []TypeOK
<1>1. IInv => TypeOK
  BY DEF IInv
<1>2. QED
  BY <1>1, Inductive, PTL

\* Two workers are never inside one call, however they stall and whatever the
\* clock does (check_lapsed_run and the second fence of execute_call).
THEOREM NeverOverlap == Spec => []NoOverlap
<1>1. ASSUME IInv PROVE NoOverlap
  <2> SUFFICES ASSUME NEW v \in Workers, NEW w \in Workers, v # w,
                      At(v, "calling"), At(w, "calling"),
                      job[v].schedule = job[w].schedule,
                      job[v].review \notin Superseded, job[w].review \notin Superseded
               PROVE  FALSE
    BY DEF NoOverlap
  <2>1. Busy(v) /\ Busy(w) /\ ~At(v, "claimed") /\ ~At(w, "claimed")
    BY DEF Busy, At
  <2>2. Gen(v) # Gen(w) /\ Gen(v) \in Nat /\ Gen(w) \in Nat
    BY <1>1, <2>1, GenTyped DEF IInv, LeaseInv, OwnGeneration
  <2>3. Excludes(v) /\ Excludes(w)
    BY <1>1 DEF IInv
  <2>4. ~(Gen(w) > Gen(v)) /\ ~(Gen(v) > Gen(w))
    BY <2>1, <2>3 DEF Excludes
  <2>5. QED
    BY <2>2, <2>4
<1>2. QED
  BY <1>1, Inductive, PTL

\* A schedule is held only for a call that may have gone somewhere: its request
\* left, it is being worked on, or a fault hit it (check_lapsed_run against the
\* outcomes execute_call records on its early returns).
THEOREM NeverFalselyHeld == Spec => []NoFalseHold
<1>1. ASSUME IInv PROVE NoFalseHold
  <2> SUFFICES ASSUME NEW s \in Schedules, NEW i \in Uncertain(s)
               PROVE  \/ i \in wire \cup ran
                      \/ i \in faulty
                      \/ \E w \in Workers : job[w].review = i
    BY DEF NoFalseHold
  <2>1. /\ i \in DOMAIN reviews /\ IsScheduled(i) /\ reviews[i].outcome # "never_ran"
        /\ reviews[i].attempt \in {"none", "ambiguous"}
    BY DEF Uncertain
  <2>2. Traced(i)
    BY <1>1, <2>1 DEF IInv
  <2>3. QED
    BY <2>1, <2>2 DEF Traced, Sent
<1>2. QED
  BY <1>1, Inductive, PTL

\* A run that took over sends nothing while a request of an earlier run is open
\* (check_lapsed_run before the fire, the second fence of execute_call after it).
THEOREM NeverBlindlyRefired == Spec => NoBlindRefire
<1> DEFINE A ==
      \A w \in Workers :
          At(w, "reviewed") /\ At(w, "calling")' /\ TookOver(w) =>
             \A i \in wire \cup ran :
                \/ reviews[i].schedule # job[w].schedule
                \/ reviews[i].generation
                      >= claims[w][job[w].schedule].generation
                \/ reviews[i].attempt \in Certain
                \/ i \in Superseded
<1>1. ASSUME IInv PROVE A
  <2> SUFFICES ASSUME NEW w \in Workers, At(w, "reviewed"), TookOver(w),
                      NEW i \in wire \cup ran
               PROVE  \/ reviews[i].schedule # job[w].schedule
                      \/ reviews[i].generation
                            >= claims[w][job[w].schedule].generation
                      \/ reviews[i].attempt \in Certain
                      \/ i \in Superseded
    OBVIOUS
  <2>1. Fired(w) /\ Cleared(w) /\ i \in Sent
    BY <1>1 DEF Fired, At, IInv, Sent
  <2>2. QED
    BY <2>1 DEF Cleared, Gen
<1>2. IInv => [A]_vars
  BY <1>1
<1>3. QED
  BY <1>2, Inductive, PTL DEF NoBlindRefire
=============================================================================
