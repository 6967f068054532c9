----------------------- MODULE DurableScheduleProofs -----------------------
(***************************************************************************)
(* The journal of scheduled runs tells the truth and guards their effects,  *)
(* for any number of processes, runs, steps and disturbances.               *)
(***************************************************************************)
EXTENDS DurableSchedule, FiniteSetTheorems, SequenceTheorems, WellFoundedInduction, TLAPS

\* A worker between begin_step and complete_step.
InFlight(w) == job[w].pc \in {"begun", "answered", "called"}

Complete(r, s) == Latest(r, s) \in {"executed_ok", "executed_failed"}
InDoubt(r, s) == Latest(r, s) \in {"started", "ambiguous"}

-----------------------------------------------------------------------------
(* In any environment.                                                      *)

\* What a worker holds: it starts at the first step, has an intent in flight
\* only, and the row of that intent has been written.
Fits(w) ==
    /\ job[w].pc \in {"idle", "opening"} => job[w].run = 0
    /\ job[w].pc \in {"idle", "opening", "created"} => job[w].start = 1 /\ job[w].step = 1
    /\ At(w, "created") => job[w].run # 0
    /\ InFlight(w) => job[w].step \in Steps
    /\ job[w].pc \in {"answered", "called"} => job[w].result \in CallResults
    /\ job[w].intent # 0 =>
          /\ InFlight(w) /\ job[w].run # 0
          /\ job[w].intent <= Len(journal[job[w].run][job[w].step])
    /\ job[w].run # 0 => state[job[w].run] # "ABSENT"

\* A run that was not created has nothing, and no step is ever found to have
\* never run: the scheduler journals no such row.
Unborn ==
    \A r \in Runs, s \in Steps :
        /\ state[r] = "ABSENT" => journal[r][s] = <<>> /\ effects[r][s] = 0
        /\ Latest(r, s) # "never_ran"

OkRows(r, s) == {i \in DOMAIN journal[r][s] : journal[r][s][i] = "executed_ok"}

\* w is about to record the success of the intent that is the last row of s.
Owed(w, r, s) ==
    /\ job[w].pc \in {"answered", "called"} /\ job[w].result = "ok"
    /\ job[w].run = r /\ job[w].step = s
    /\ job[w].intent = Len(journal[r][s]) /\ job[w].intent # 0

\* The journal owes no success beyond those that happened, also counting the one
\* that may yet be recorded.
Paid(r, s) ==
    /\ Cardinality(OkRows(r, s)) <= effects[r][s]
    /\ (\E w \in Workers : Owed(w, r, s)) => Cardinality(OkRows(r, s)) + 1 <= effects[r][s]

BaseInv ==
    /\ RunTypeOK
    /\ \A w \in Workers : Fits(w)
    /\ Unborn
    /\ \A r \in Runs, s \in Steps : Paid(r, s)

-----------------------------------------------------------------------------
(* Without retries within a trigger.                                        *)

\* A run that is not exposed: every step that took effect has a row, rows are
\* written in the order of the steps, and each took effect once.
Ordered(r) ==
    \A s \in Steps :
        /\ effects[r][s] <= 1
        /\ effects[r][s] > 0 => journal[r][s] # <<>>
        /\ journal[r][s] # <<>> => \A q \in Steps : q < s => journal[r][q] # <<>>

\* Nothing ahead of the holder of the lease has taken effect; a worker that lost
\* the lease may still write a row, but the fence refuses its calls.
Ahead(w) ==
    job[w].run # 0 /\ job[w].run \notin exposed =>
        /\ job[w].leased
        /\ job[w].pc \in {"next", "begun", "answered", "called"} =>
              \A s \in Steps : s < job[w].step => journal[job[w].run][s] # <<>>
        /\ InFlight(w) => journal[job[w].run][job[w].step] # <<>>
        /\ holder = w /\ job[w].pc \in {"created", "next", "begun"} =>
              \A s \in Steps : s >= job[w].step => effects[job[w].run][s] = 0
        /\ holder = w /\ job[w].pc \in {"answered", "called"} =>
              \A s \in Steps : s > job[w].step => effects[job[w].run][s] = 0

OnceInv ==
    /\ \A r \in Runs \ exposed : Ordered(r)
    /\ \A w \in Workers : Ahead(w)

-----------------------------------------------------------------------------
(* Where journal writes succeed, leases last and nobody works without one.  *)

Calm == Events \cap {"lapse", "once", "journal"} = {}
Unwatched == Events \cap {"show", "resume"} = {}

\* The rows of a run: in order, and a step in doubt is the first incomplete one.
Tidy(r) ==
    \A s \in Steps :
        /\ journal[r][s] # <<>> => \A q \in Steps : q < s => journal[r][q] # <<>>
        /\ InDoubt(r, s) => \A q \in Steps : q < s => Complete(r, q)

\* A busy worker is the only one.  Between steps everything behind it is complete
\* and nothing ahead is in doubt; in flight, its intent is the last row.
Steady(w) ==
    LET r == job[w].run  j == job[w] IN
    /\ ~At(w, "idle") => holder = w /\ j.leased
    /\ j.pc \in {"next", "begun", "answered", "called"} =>
          /\ r # 0 /\ j.start <= j.step
          /\ \A s \in Steps : s < j.step => Complete(r, s)
          /\ \A s \in Steps : s >= j.start => (InDoubt(r, s) => InFlight(w) /\ s = j.step)
    /\ At(w, "created") => \A s \in Steps : journal[r][s] = <<>>
    /\ InFlight(w) =>
          /\ j.intent = Len(journal[r][j.step]) /\ j.intent # 0
          /\ Latest(r, j.step) = "started"
    /\ At(w, "ending") =>
          /\ r # 0
          /\ j.result = "completed" => \A s \in Steps : Complete(r, s)
          /\ j.result = "uncertain" => \E s \in Steps : InDoubt(r, s)
    /\ r # 0 => state[r] # "DONE"
    /\ Unwatched /\ r # 0 /\ ~At(w, "ending") => state[r] # "NEEDS_REVIEW"

\* What the state of a run says of its steps.
Told(r) ==
    /\ state[r] = "DONE" => \A s \in Steps : Complete(r, s)
    /\ Unwatched /\ state[r] = "NEEDS_REVIEW" => \E s \in Steps : InDoubt(r, s)

CalmInv ==
    /\ \A r \in Runs : Tidy(r) /\ Told(r)
    /\ NeverReplayed
    /\ \A w \in Workers : Steady(w)

IInv == BaseInv /\ (MaxRetries = 0 => OnceInv) /\ (Calm => CalmInv)

-----------------------------------------------------------------------------
(* The operators.                                                           *)

\* A nonempty set of naturals has a least element, and Min is it.
LEMMA LeastNatural ==
    ASSUME NEW S, S \subseteq Nat, S # {}
    PROVE  Min(S) \in S /\ \A y \in S : Min(S) =< y
<1>1. OpToRel(<, Nat) = {ss \in Nat \X Nat : ss[1] < ss[2]}
  BY Zenon DEF OpToRel
<1>2. \E x \in S : \A y \in S : ~(<<y, x>> \in OpToRel(<, Nat))
  BY NatLessThanWellFounded, WFMin
<1>3. PICK x \in S : \A y \in S : ~(<<y, x>> \in {ss \in Nat \X Nat : ss[1] < ss[2]})
  BY <1>2, <1>1, Zenon
<1>4. \A y \in S : x =< y
  <2> SUFFICES ASSUME NEW y \in S, y < x PROVE FALSE
    OBVIOUS
  <2>1. <<y, x>> \in Nat \X Nat /\ <<y, x>>[1] < <<y, x>>[2]
    OBVIOUS
  <2>2. <<y, x>> \in {ss \in Nat \X Nat : ss[1] < ss[2]}
    BY <2>1, Zenon
  <2> QED
    BY <1>3, <2>2, Zenon
<1>5. QED
  BY <1>4 DEF Min

\* The orphan a trigger picks up is a run that was created and is not terminal:
\* Max of a nonempty set of runs is one of them.
LEMMA OrphanFacts ==
    ASSUME Orphan # 0
    PROVE  Orphan \in Runs /\ state[Orphan] \notin Terminal \cup {"ABSENT"}
<1>1. PICK S : S = {r \in Runs : state[r] \notin Terminal \cup {"ABSENT"}}
  OBVIOUS
<1>2. S # {} /\ Orphan = Max(S)
  BY <1>1 DEF Orphan
<1>3. S \subseteq 1..MaxRuns /\ MaxRuns \in Nat
  BY <1>1, StoreSizes DEF Runs
<1>4. PICK B : B = {n \in Nat : \A x \in S : x =< n}
  OBVIOUS
<1>5. MaxRuns \in B /\ B \subseteq Nat
  BY <1>3, <1>4
<1>6. Min(B) \in B /\ \A y \in B : Min(B) =< y
  BY <1>5, LeastNatural
<1>7. PICK m \in B : \A y \in B : m =< y
  BY <1>6
<1>8. m \in S
  <2> SUFFICES ASSUME m \notin S PROVE FALSE
    OBVIOUS
  <2>1. \A x \in S : x \in Nat /\ x >= 1 /\ x =< m /\ x # m
    BY <1>3, <1>4, <1>7
  <2>2. m \in Nat
    BY <1>5, <1>7
  <2>3. m - 1 \in Nat /\ \A x \in S : x =< m - 1
    BY <1>2, <2>1, <2>2
  <2>4. m - 1 \in B
    BY <1>4, <2>3
  <2> QED
    BY <1>7, <2>2, <2>4
<1>9. \A x \in S : m >= x
  BY <1>3, <1>4, <1>7
<1>10. Max(S) \in S
  BY <1>8, <1>9 DEF Max
<1>11. QED
  BY <1>1, <1>2, <1>10

\* The rows of a step, and what its latest row can be.
LEMMA RowsFacts ==
    ASSUME StoreTypeOK, NEW r \in Runs, NEW s \in Steps
    PROVE  /\ journal[r][s] \in Seq(Rows)
           /\ Latest(r, s) = "none" <=> journal[r][s] = <<>>
           /\ Latest(r, s) \in Rows \cup {"none"}
           /\ Len(journal[r][s]) \in Nat
<1>1. journal[r][s] \in Seq(Rows)
  BY DEF StoreTypeOK
<1>2. journal[r][s] # <<>> => journal[r][s][Len(journal[r][s])] \in Rows
  BY <1>1
<1>3. QED
  BY <1>1, <1>2 DEF Latest, Rows, Decided

Wrote(r, s, o) == journal' = [journal EXCEPT ![r][s] = Append(@, o)]

\* A row appended to a step is its latest; nothing else changes.
LEMMA WroteFacts ==
    ASSUME StoreTypeOK, NEW r \in Runs, NEW s \in Steps, NEW o \in Rows, Wrote(r, s, o)
    PROVE  /\ journal' \in [Runs -> [Steps -> Seq(Rows)]]
           /\ journal'[r][s] = Append(journal[r][s], o)
           /\ Latest(r, s)' = o
           /\ Len(journal'[r][s]) = Len(journal[r][s]) + 1
           /\ journal'[r][s] # <<>>
           /\ \A p \in Runs, q \in Steps : p # r \/ q # s =>
                 journal'[p][q] = journal[p][q] /\ Latest(p, q)' = Latest(p, q)
           /\ \A p \in Runs, q \in Steps :
                 /\ Len(journal[p][q]) <= Len(journal'[p][q])
                 /\ journal[p][q] # <<>> => journal'[p][q] # <<>>
<1>1. PICK rows \in Seq(Rows) : rows = journal[r][s]
  BY DEF StoreTypeOK
<1>2. journal'[r][s] = Append(rows, o)
  BY <1>1 DEF StoreTypeOK, Wrote
<1>3. \A p \in Runs, q \in Steps : p # r \/ q # s => journal'[p][q] = journal[p][q]
  BY DEF StoreTypeOK, Wrote
<1>4. journal' \in [Runs -> [Steps -> Seq(Rows)]]
  BY DEF StoreTypeOK, Wrote
<1>5. /\ Len(Append(rows, o)) = Len(rows) + 1
      /\ Append(rows, o)[Len(rows) + 1] = o
      /\ Append(rows, o) # <<>>
      /\ Len(rows) \in Nat
  BY <1>1
<1>6. Latest(r, s)' = o
  BY <1>2, <1>5 DEF Latest
<1>7. \A p \in Runs, q \in Steps : Len(journal[p][q]) \in Nat
  BY RowsFacts
<1>8. \A p \in Runs, q \in Steps : p # r \/ q # s => Latest(p, q)' = Latest(p, q)
  BY <1>3 DEF Latest
<1>9. ASSUME NEW p \in Runs, NEW q \in Steps
      PROVE  /\ Len(journal[p][q]) <= Len(journal'[p][q])
             /\ journal[p][q] # <<>> => journal'[p][q] # <<>>
  <2>1. CASE p # r \/ q # s
    BY <1>3, <1>7, <2>1
  <2>2. CASE p = r /\ q = s
    BY <1>1, <1>2, <1>5, <2>2
  <2>3. QED
    BY <2>1, <2>2
<1>10. QED
  BY <1>1, <1>2, <1>3, <1>4, <1>5, <1>6, <1>8, <1>9

\* The success rows of a step are finitely many, and an appended row is one more
\* exactly if it is a success.
LEMMA OkCount ==
    ASSUME StoreTypeOK, NEW r \in Runs, NEW s \in Steps
    PROVE  Cardinality(OkRows(r, s)) \in Nat /\ IsFiniteSet(OkRows(r, s))
<1>1. journal[r][s] \in Seq(Rows)
  BY DEF StoreTypeOK
<1>2. Len(journal[r][s]) \in Nat /\ DOMAIN journal[r][s] = 1..Len(journal[r][s])
  BY <1>1
<1>3. IsFiniteSet(1..Len(journal[r][s]))
  BY <1>2, FS_Interval
<1>4. OkRows(r, s) \subseteq 1..Len(journal[r][s])
  BY <1>2 DEF OkRows
<1>5. QED
  BY <1>3, <1>4, FS_Subset, FS_CardinalityType

LEMMA OkWritten ==
    ASSUME StoreTypeOK, NEW r \in Runs, NEW s \in Steps, NEW o \in Rows, Wrote(r, s, o)
    PROVE  Cardinality(OkRows(r, s)') = Cardinality(OkRows(r, s))
              + IF o = "executed_ok" THEN 1 ELSE 0
<1>1. PICK rows \in Seq(Rows) : rows = journal[r][s]
  BY DEF StoreTypeOK
<1>2. journal'[r][s] = Append(rows, o)
  BY <1>1, WroteFacts
<1>3. PICK n \in Nat : n = Len(rows)
  OBVIOUS
<1>4. /\ DOMAIN rows = 1..n /\ DOMAIN Append(rows, o) = 1..n + 1
      /\ Append(rows, o)[n + 1] = o
      /\ \A i \in 1..n : Append(rows, o)[i] = rows[i]
  BY <1>1, <1>3
<1>5. PICK S : S = {i \in DOMAIN rows : rows[i] = "executed_ok"}
  OBVIOUS
<1>6. PICK T : T = {i \in DOMAIN Append(rows, o) : Append(rows, o)[i] = "executed_ok"}
  OBVIOUS
<1>7. OkRows(r, s) = S /\ OkRows(r, s)' = T
  BY <1>1, <1>2, <1>5, <1>6 DEF OkRows
<1>8. IsFiniteSet(S) /\ Cardinality(S) \in Nat
  BY <1>7, OkCount
<1>9. n + 1 \notin S
  BY <1>4, <1>5
<1>10. CASE o = "executed_ok"
  <2>1. T = S \cup {n + 1}
    BY <1>4, <1>5, <1>6, <1>10
  <2>2. Cardinality(T) = Cardinality(S) + 1
    BY <1>8, <1>9, <2>1, FS_AddElement
  <2>3. QED
    BY <1>7, <1>10, <2>2
<1>11. CASE o # "executed_ok"
  <2>1. T = S
    BY <1>4, <1>5, <1>6, <1>11
  <2>2. QED
    BY <1>7, <1>8, <1>11, <2>1
<1>12. QED
  BY <1>10, <1>11

\* Where resume_run stops in a run of tool calls: all before it is complete, and
\* it is in doubt or has no row.
LEMMA Stops ==
    ASSUME StoreTypeOK, Unborn, NEW r \in Runs
    PROVE  LET p == ResumePoint(r, {})
           IN  /\ p \in 1..Calls + 1
               /\ \A s \in Steps : s < p => Complete(r, s)
               /\ Doubtful(r, {}) => p \in Steps /\ InDoubt(r, p)
               /\ ~Doubtful(r, {}) /\ p \in Steps => journal[r][p] = <<>>
<1> DEFINE Open == {s \in Steps : Standing(r, s, {}) # "complete"} \cup {Calls + 1}
           p == ResumePoint(r, {})
<1>1. Open \subseteq Nat /\ Open # {} /\ Open \subseteq 1..Calls + 1
  BY StoreSizes DEF Steps
<1>2. Min(Open) \in Open /\ \A y \in Open : Min(Open) =< y
  BY <1>1, LeastNatural
<1>3. p = Min(Open)
  BY DEF ResumePoint
<1>4. p \in Open /\ \A y \in Open : p =< y
  BY <1>2, <1>3
<1>5. Doubtful(r, {}) <=> p \in Steps /\ Standing(r, p, {}) = "review"
  BY DEF Doubtful
<1> HIDE DEF p
<1>6. p \in 1..Calls + 1
  BY <1>4, <1>1
<1>7. p \in Steps => Standing(r, p, {}) # "complete"
  BY <1>4, StoreSizes DEF Steps
<1>8. \A s \in Steps : s < p => Standing(r, s, {}) = "complete"
  BY <1>4, <1>6, StoreSizes DEF Steps
<1>9. \A s \in Steps : Latest(r, s) \in Rows \cup {"none"} /\ Latest(r, s) # "never_ran"
  BY RowsFacts DEF Unborn
<1>10. \A s \in Steps : Verdict(s, {}) = "review"
  BY ToolSteps DEF Verdict
<1>11. \A s \in Steps :
          Standing(r, s, {}) = IF Complete(r, s) THEN "complete"
                               ELSE IF InDoubt(r, s) THEN "review" ELSE "rerun"
  BY <1>9, <1>10 DEF Standing, Complete, InDoubt
<1>12. \A s \in Steps : s < p => Complete(r, s)
  BY <1>8, <1>11
<1>13. Doubtful(r, {}) => p \in Steps /\ InDoubt(r, p)
  BY <1>5, <1>11
<1>14. ~Doubtful(r, {}) /\ p \in Steps => Latest(r, p) = "none"
  BY <1>5, <1>7, <1>9, <1>11 DEF Complete, InDoubt, Rows, Decided
<1>15. ~Doubtful(r, {}) /\ p \in Steps => journal[r][p] = <<>>
  BY <1>14, RowsFacts
<1>16. QED
  BY <1>6, <1>12, <1>13, <1>15 DEF p

\* resume_run writes no row: there is no file to find landed.
LEMMA ResumeFacts ==
    ASSUME StoreTypeOK, Unborn, NEW r \in Runs, Resume(r, {})
    PROVE  /\ journal' = journal
           /\ Doubtful(r, {}) => MarkNeedsReview(r)
           /\ ~Doubtful(r, {}) => state' = state
<1>1. PICK p : p = ResumePoint(r, {})
  OBVIOUS
<1>2. \A s \in Steps : s < p => Latest(r, s) # "started"
  BY <1>1, Stops DEF Complete
<1>3. PICK f : f = [s \in Steps |->
                       IF s < p /\ Latest(r, s) = "started"
                       THEN Append(journal[r][s], "executed_ok") ELSE journal[r][s]]
  OBVIOUS
<1>4. journal' = [journal EXCEPT ![r] = f]
  BY <1>1, <1>3 DEF Resume
<1>5. journal[r] \in [Steps -> Seq(Rows)]
  BY DEF StoreTypeOK
<1>6. f = [s \in Steps |-> journal[r][s]]
  BY <1>2, <1>3
<1>7. f = journal[r]
  BY <1>5, <1>6
<1>8. journal' = journal
  BY <1>4, <1>7 DEF StoreTypeOK
<1>9. QED
  BY <1>8 DEF Resume

\* A conditional transition changes at most the one run, and creates none.
LEMMA TransitionFacts ==
    ASSUME StoreTypeOK, NEW r \in Runs, NEW from, NEW to \in RunStates,
           from \subseteq RunStates, Transition(r, from, to)
    PROVE  /\ state' \in [Runs -> RunStates \cup {"ABSENT"}]
           /\ state'[r] = (IF state[r] \in from THEN to ELSE state[r])
           /\ \A q \in Runs : q # r => state'[q] = state[q]
           /\ \A q \in Runs : state'[q] = "ABSENT" => state[q] = "ABSENT"
BY DEF StoreTypeOK, Transition, RunStates

\* The budget never stops a step whose intent is its latest row.
LEMMA WithinBudget ==
    ASSUME NEW r \in Runs, NEW s \in Steps, Latest(r, s) = "started"
    PROVE  ~(Cardinality(StepsUsed(r)) + 1 > MaxSteps)
<1>1. StepsUsed(r) \subseteq Steps \ {s}
  BY DEF StepsUsed, Decided
<1>2. IsFiniteSet(Steps) /\ Cardinality(Steps) = Calls
  BY FS_Interval, StoreSizes DEF Steps
<1>3. IsFiniteSet(Steps \ {s}) /\ Cardinality(Steps \ {s}) = Calls - 1
  BY <1>2, FS_RemoveElement
<1>4. Cardinality(StepsUsed(r)) <= Calls - 1 /\ Cardinality(StepsUsed(r)) \in Nat
  BY <1>1, <1>3, FS_Subset, FS_CardinalityType
<1>5. QED
  BY <1>4, StoreSizes

\* What complete_step can do to the journal: append the outcome where the intent
\* is the last row, or nothing.
LEMMA CompleteFacts ==
    ASSUME StoreTypeOK, NEW r \in Runs, NEW s \in Steps, NEW i \in Nat, NEW o \in Rows,
           CompleteStep(r, s, i, o)
    PROVE  /\ state' \in [Runs -> RunStates \cup {"ABSENT"}]
           /\ \A q \in Runs : state'[q] = "ABSENT" => state[q] = "ABSENT"
           /\ journal' = journal \/ (Len(journal[r][s]) = i /\ Wrote(r, s, o))
           /\ Latest(r, s) = "started" /\ Len(journal[r][s]) = i =>
                 Wrote(r, s, o) /\ state' = state
<1>1. CASE Cardinality(StepsUsed(r)) + 1 > MaxSteps
  <2>1. Transition(r, RunStates, "FAILED") /\ journal' = journal
    BY <1>1 DEF CompleteStep
  <2>2. "FAILED" \in RunStates
    BY DEF RunStates
  <2>3. /\ state' \in [Runs -> RunStates \cup {"ABSENT"}]
        /\ \A q \in Runs : state'[q] = "ABSENT" => state[q] = "ABSENT"
    BY <2>1, <2>2, TransitionFacts
  <2>4. QED
    BY <1>1, <2>1, <2>3, WithinBudget
<1>2. CASE ~(Cardinality(StepsUsed(r)) + 1 > MaxSteps)
  <2>1. /\ journal' = [journal EXCEPT ![r][s] = IF Len(@) = i THEN Append(@, o) ELSE @]
        /\ state' = state
    BY <1>2 DEF CompleteStep
  <2>2. CASE Len(journal[r][s]) = i
    <3>1. Wrote(r, s, o)
      BY <2>1, <2>2 DEF Wrote, StoreTypeOK
    <3>2. QED
      BY <2>1, <2>2, <3>1 DEF StoreTypeOK
  <2>3. CASE Len(journal[r][s]) # i
    <3>1. journal' = journal
      BY <2>1, <2>3 DEF StoreTypeOK
    <3>2. QED
      BY <2>1, <2>3, <3>1 DEF StoreTypeOK
  <2>4. QED
    BY <2>2, <2>3
<1>3. QED
  BY <1>1, <1>2

-----------------------------------------------------------------------------
(* The actions, by what they do to the worker and to the rest.              *)

\* A step of the worker w: no other worker moves.
Moves(w) ==
    /\ job' \in [Workers -> Job]
    /\ \A v \in Workers : v # w => job'[v] = job[v]

\* What every step respects besides the workers, the journal and the effects.
Framed ==
    /\ state' \in [Runs -> RunStates \cup {"ABSENT"}]
    /\ \A r \in Runs : state'[r] = "ABSENT" => state[r] = "ABSENT"
    /\ holder' \in Workers \cup {Nobody}
    /\ events' \in 0..MaxEvents
    /\ exposed \subseteq exposed' /\ exposed' \subseteq Runs

\* No worker but w gains the lease.
NoneGains(w) == \A v \in Workers : v # w /\ holder' = v => holder = v

LEMMA JobSet ==
    ASSUME job \in [Workers -> Job], NEW w \in Workers, NEW y \in Job,
           job' = [job EXCEPT ![w] = y]
    PROVE  Moves(w) /\ job'[w] = y
BY DEF Moves

LEMMA EventFacts ==
    ASSUME events \in 0..MaxEvents, NEW k, Event(k)
    PROVE  events' \in 0..MaxEvents /\ k \in Events
BY PolicyAssumption DEF Event

LEMMA IdleFacts ==
    /\ Idle \in Job /\ Idle.pc = "idle" /\ Idle.run = 0 /\ Idle.intent = 0
    /\ Idle.start = 1 /\ Idle.step = 1
<1>1. 1 \in 1..Calls + 1 /\ 0 \in 0..MaxRetries
  BY StoreSizes, PolicyAssumption
<1>2. QED
  BY <1>1 DEF Idle, Job, Results

\* Releasing the lease gives it to nobody.
LEMMA ReleasedFacts ==
    ASSUME RunTypeOK, NEW w \in Workers, holder' = Released(w)
    PROVE  holder' \in Workers \cup {Nobody} /\ NoneGains(w) /\ holder' # w
BY WorkersAssumption DEF RunTypeOK, Released, NoneGains

\* A daemon fires, over a lapsed lease or not.
Fires(w) == Fire(w) \/ FireUnread(w)

LEMMA FireFacts ==
    ASSUME RunTypeOK, NEW w \in Workers, Fires(w)
    PROVE  /\ Moves(w) /\ Framed /\ NoneGains(w)
           /\ holder = Nobody /\ holder' = w /\ job[w].pc = "idle"
           /\ job'[w].pc = "opening" /\ job'[w].leased
           /\ job'[w].run = job[w].run /\ job'[w].start = job[w].start
           /\ job'[w].step = job[w].step /\ job'[w].intent = job[w].intent
           /\ UNCHANGED <<state, journal, effects, exposed>>
<1>0. Claim(w) /\ events' \in 0..MaxEvents
  <2>1. CASE Fire(w)
    BY <2>1 DEF Fire, RunTypeOK
  <2>2. CASE FireUnread(w)
    BY <2>2, EventFacts DEF FireUnread, RunTypeOK
  <2>3. QED
    BY <2>1, <2>2 DEF Fires
<1>1. PICK x \in Job : x = job[w]
  BY DEF RunTypeOK
<1>2. PICK y : y = [x EXCEPT !.pc = "opening", !.leased = TRUE]
  OBVIOUS
<1>3. /\ y \in Job /\ y.pc = "opening" /\ y.leased
      /\ y.run = x.run /\ y.start = x.start /\ y.step = x.step /\ y.intent = x.intent
  BY <1>2 DEF Job
<1>4. job' = [job EXCEPT ![w] = y]
  BY <1>0, <1>1, <1>2 DEF Claim, RunTypeOK
<1>5. Moves(w) /\ job'[w] = y
  BY <1>3, <1>4, JobSet DEF RunTypeOK
<1>6. Framed /\ NoneGains(w)
  BY <1>0 DEF Claim, RunTypeOK, StoreTypeOK, Framed, NoneGains
<1>7. QED
  BY <1>0, <1>1, <1>3, <1>5, <1>6 DEF Claim, At

\* Neither the takeover check that holds the schedule nor the human who settles
\* it touches a run.
LEMMA HoldFacts ==
    ASSUME RunTypeOK, Replace \/ \E w \in Workers : Hold(w)
    PROVE  Framed /\ UNCHANGED <<state, journal, job, holder, effects, exposed>>
<1>1. CASE Replace
  <2>1. events' \in 0..MaxEvents
    BY <1>1, EventFacts DEF Replace, RunTypeOK
  <2>2. QED
    BY <1>1, <2>1 DEF Replace, Framed, RunTypeOK, StoreTypeOK
<1>2. CASE \E w \in Workers : Hold(w)
  BY <1>2 DEF Hold, Framed, RunTypeOK, StoreTypeOK
<1>3. QED
  BY <1>1, <1>2

LEMMA RunOnceFacts ==
    ASSUME RunTypeOK, NEW w \in Workers, RunOnce(w)
    PROVE  /\ Moves(w) /\ Framed /\ "once" \in Events
           /\ job[w].pc = "idle" /\ job'[w].pc = "opening"
           /\ job'[w].run = job[w].run /\ job'[w].start = job[w].start
           /\ job'[w].step = job[w].step /\ job'[w].intent = job[w].intent
           /\ UNCHANGED <<state, journal, holder, effects, exposed>>
<1>1. PICK x \in Job : x = job[w]
  BY DEF RunTypeOK
<1>2. PICK y : y = [x EXCEPT !.pc = "opening"]
  OBVIOUS
<1>3. /\ y \in Job /\ y.pc = "opening"
      /\ y.run = x.run /\ y.start = x.start /\ y.step = x.step /\ y.intent = x.intent
  BY <1>2 DEF Job
<1>4. job' = [job EXCEPT ![w] = y]
  BY <1>1, <1>2 DEF RunOnce, RunTypeOK
<1>5. Moves(w) /\ job'[w] = y
  BY <1>3, <1>4, JobSet DEF RunTypeOK
<1>6. events' \in 0..MaxEvents /\ "once" \in Events
  BY EventFacts DEF RunOnce, RunTypeOK
<1>7. Framed
  BY <1>6 DEF RunOnce, RunTypeOK, StoreTypeOK, Framed
<1>8. QED
  BY <1>1, <1>3, <1>5, <1>6, <1>7 DEF RunOnce, At

LEMMA ResumeOrphanFacts ==
    ASSUME RunTypeOK, Unborn, NEW w \in Workers, ResumeOrphan(w)
    PROVE  LET r == Orphan  p == ResumePoint(Orphan, {}) IN
           /\ Moves(w) /\ Framed
           /\ job[w].pc = "opening" /\ r \in Runs
           /\ state[r] \notin Terminal \cup {"ABSENT"}
           /\ job'[w].run = r /\ job'[w].leased = job[w].leased
           /\ job'[w].intent = job[w].intent
           /\ job[w].leased \/ r \in exposed'
           /\ Doubtful(r, {}) => /\ job'[w].pc = "ending" /\ job'[w].result = "uncertain"
                                 /\ MarkNeedsReview(r)
           /\ ~Doubtful(r, {}) => /\ job'[w].pc = "next" /\ state' = state
                                  /\ job'[w].start = p /\ job'[w].step = p
           /\ UNCHANGED <<journal, holder, effects>>
<1>1. PICK x \in Job : x = job[w]
  BY DEF RunTypeOK
<1>2. PICK r : r = Orphan
  OBVIOUS
<1>3. PICK p : p = ResumePoint(Orphan, {})
  OBVIOUS
<1>4. PICK y : y = [x EXCEPT !.pc = "ending", !.run = r, !.result = "uncertain"]
  OBVIOUS
<1>5. PICK z : z = [x EXCEPT !.pc = "next", !.run = r, !.start = p, !.step = p]
  OBVIOUS
<1>6. r \in Runs /\ state[r] \notin Terminal \cup {"ABSENT"}
  BY <1>2, OrphanFacts DEF ResumeOrphan
<1>7. p \in 1..Calls + 1
  BY <1>2, <1>3, <1>6, Stops DEF RunTypeOK
<1>8. /\ y \in Job /\ y.pc = "ending" /\ y.result = "uncertain"
      /\ y.run = r /\ y.leased = x.leased /\ y.intent = x.intent
  BY <1>4, <1>6 DEF Job, Results, CallResults
<1>9. /\ z \in Job /\ z.pc = "next" /\ z.start = p /\ z.step = p
      /\ z.run = r /\ z.leased = x.leased /\ z.intent = x.intent
  BY <1>5, <1>6, <1>7 DEF Job
<1>10. job' = [job EXCEPT ![w] = IF Doubtful(Orphan, {}) THEN y ELSE z]
  BY <1>1, <1>2, <1>3, <1>4, <1>5 DEF ResumeOrphan, RunTypeOK
<1>11. Moves(w) /\ job'[w] = IF Doubtful(Orphan, {}) THEN y ELSE z
  BY <1>8, <1>9, <1>10, JobSet DEF RunTypeOK
<1>12. /\ journal' = journal
       /\ Doubtful(r, {}) => MarkNeedsReview(r)
       /\ ~Doubtful(r, {}) => state' = state
  BY <1>2, <1>6, ResumeFacts DEF ResumeOrphan, RunTypeOK
<1>13. "NEEDS_REVIEW" \in RunStates /\ RunStates \ (Terminal \cup {"NEEDS_REVIEW"}) \subseteq RunStates
  BY DEF RunStates
<1>14. /\ state' \in [Runs -> RunStates \cup {"ABSENT"}]
       /\ \A q \in Runs : state'[q] = "ABSENT" => state[q] = "ABSENT"
  BY <1>6, <1>12, <1>13, TransitionFacts DEF RunTypeOK, StoreTypeOK, MarkNeedsReview
<1>15. exposed' = IF job[w].leased THEN exposed ELSE exposed \cup {r}
  BY <1>2 DEF ResumeOrphan, Taken
<1>16. Framed /\ UNCHANGED <<holder, effects>>
  BY <1>6, <1>14, <1>15 DEF ResumeOrphan, RunTypeOK, Framed
<1>17. QED
  BY <1>1, <1>2, <1>3, <1>6, <1>8, <1>9, <1>11, <1>12, <1>15, <1>16 DEF ResumeOrphan, At

LEMMA CreateRunFacts ==
    ASSUME RunTypeOK, NEW w \in Workers, CreateRun(w)
    PROVE  /\ Moves(w) /\ Framed
           /\ job[w].pc = "opening" /\ job'[w].pc = "created"
           /\ job'[w].run \in Runs /\ state[job'[w].run] = "ABSENT"
           /\ state' = [state EXCEPT ![job'[w].run] = "QUEUED"]
           /\ job'[w].leased = job[w].leased /\ job'[w].intent = job[w].intent
           /\ job'[w].start = job[w].start /\ job'[w].step = job[w].step
           /\ job[w].leased \/ job'[w].run \in exposed'
           /\ UNCHANGED <<journal, holder, effects>>
<1>1. PICK x \in Job : x = job[w]
  BY DEF RunTypeOK
<1>2. PICK r \in Runs :
          /\ state[r] = "ABSENT"
          /\ state' = [state EXCEPT ![r] = "QUEUED"]
          /\ job' = [job EXCEPT ![w].pc = "created", ![w].run = r]
          /\ exposed' = Taken(w, r)
  BY DEF CreateRun
<1>3. PICK y : y = [x EXCEPT !.pc = "created", !.run = r]
  OBVIOUS
<1>4. /\ y \in Job /\ y.pc = "created" /\ y.run = r /\ y.leased = x.leased
      /\ y.start = x.start /\ y.step = x.step /\ y.intent = x.intent
  BY <1>3 DEF Job
<1>5. job' = [job EXCEPT ![w] = y]
  BY <1>1, <1>2, <1>3 DEF RunTypeOK
<1>6. Moves(w) /\ job'[w] = y
  BY <1>4, <1>5, JobSet DEF RunTypeOK
<1>7. exposed' = IF job[w].leased THEN exposed ELSE exposed \cup {r}
  BY <1>2 DEF Taken
<1>8. Framed
  <2>1. /\ state' \in [Runs -> RunStates \cup {"ABSENT"}]
        /\ \A q \in Runs : state'[q] = "ABSENT" => state[q] = "ABSENT"
    BY <1>2 DEF RunTypeOK, StoreTypeOK, RunStates
  <2>2. QED
    BY <2>1, <1>7 DEF CreateRun, RunTypeOK, Framed
<1>9. QED
  BY <1>1, <1>2, <1>4, <1>6, <1>7, <1>8 DEF CreateRun, At

LEMMA StartRunFacts ==
    ASSUME RunTypeOK, NEW w \in Workers, Fits(w), StartRun(w)
    PROVE  /\ Moves(w) /\ Framed
           /\ job[w].pc = "created" /\ job'[w].pc = "next"
           /\ job'[w].run = job[w].run /\ job'[w].leased = job[w].leased
           /\ job'[w].start = job[w].start /\ job'[w].step = job[w].step
           /\ job'[w].intent = job[w].intent
           /\ job[w].run \in Runs
           /\ state'[job[w].run] \in {"EXECUTING_TOOLS", state[job[w].run]}
           /\ \A q \in Runs : q # job[w].run => state'[q] = state[q]
           /\ UNCHANGED <<journal, holder, effects, exposed>>
<1>1. PICK x \in Job : x = job[w]
  BY DEF RunTypeOK
<1>2. PICK y : y = [x EXCEPT !.pc = "next"]
  OBVIOUS
<1>3. /\ y \in Job /\ y.pc = "next" /\ y.run = x.run /\ y.leased = x.leased
      /\ y.start = x.start /\ y.step = x.step /\ y.intent = x.intent
  BY <1>2 DEF Job
<1>4. job' = [job EXCEPT ![w] = y]
  BY <1>1, <1>2 DEF StartRun, RunTypeOK
<1>5. Moves(w) /\ job'[w] = y
  BY <1>3, <1>4, JobSet DEF RunTypeOK
<1>6. x.run \in Runs
  BY <1>1 DEF StartRun, At, Fits, Job
<1>7. "EXECUTING_TOOLS" \in RunStates /\ {"QUEUED"} \subseteq RunStates
  BY DEF RunStates
<1>8. Transition(x.run, {"QUEUED"}, "EXECUTING_TOOLS")
  BY <1>1 DEF StartRun
<1>9. /\ state' \in [Runs -> RunStates \cup {"ABSENT"}]
      /\ state'[x.run] \in {"EXECUTING_TOOLS", state[x.run]}
      /\ \A q \in Runs : q # x.run => state'[q] = state[q]
      /\ \A q \in Runs : state'[q] = "ABSENT" => state[q] = "ABSENT"
  BY <1>6, <1>7, <1>8, TransitionFacts DEF RunTypeOK
<1>10. Framed
  BY <1>9 DEF StartRun, RunTypeOK, Framed
<1>11. QED
  BY <1>1, <1>3, <1>5, <1>6, <1>9, <1>10 DEF StartRun, At

\* A worker goes on with its run.
Keeps(w) ==
    /\ job'[w].run = job[w].run /\ job'[w].start = job[w].start
    /\ job'[w].leased = job[w].leased

LEMMA OpenFailsFacts ==
    ASSUME RunTypeOK, NEW w \in Workers, OpenFails(w)
    PROVE  /\ Moves(w) /\ Framed /\ Keeps(w) /\ "journal" \in Events
           /\ job[w].pc = "opening" /\ job'[w].pc = "next"
           /\ job'[w].step = job[w].step /\ job'[w].intent = job[w].intent
           /\ UNCHANGED <<state, journal, holder, effects, exposed>>
<1>1. PICK x \in Job : x = job[w]
  BY DEF RunTypeOK
<1>2. PICK y : y = [x EXCEPT !.pc = "next"]
  OBVIOUS
<1>3. /\ y \in Job /\ y.pc = "next" /\ y.run = x.run /\ y.leased = x.leased
      /\ y.start = x.start /\ y.step = x.step /\ y.intent = x.intent
  BY <1>2 DEF Job
<1>4. job' = [job EXCEPT ![w] = y]
  BY <1>1, <1>2 DEF OpenFails, RunTypeOK
<1>5. Moves(w) /\ job'[w] = y
  BY <1>3, <1>4, JobSet DEF RunTypeOK
<1>6. events' \in 0..MaxEvents /\ "journal" \in Events
  BY EventFacts DEF OpenFails, RunTypeOK
<1>7. Framed
  BY <1>6 DEF OpenFails, RunTypeOK, StoreTypeOK, Framed
<1>8. QED
  BY <1>1, <1>3, <1>5, <1>6, <1>7 DEF OpenFails, At, Keeps

LEMMA CompletedFacts ==
    ASSUME RunTypeOK, NEW w \in Workers, Completed(w)
    PROVE  /\ Moves(w) /\ Framed /\ Keeps(w)
           /\ job[w].pc = "next" /\ job[w].step \notin Steps
           /\ job'[w].pc = "ending" /\ job'[w].result = "completed"
           /\ job'[w].intent = job[w].intent
           /\ UNCHANGED <<state, journal, holder, effects, exposed>>
<1>1. PICK x \in Job : x = job[w]
  BY DEF RunTypeOK
<1>2. PICK y : y = [x EXCEPT !.pc = "ending", !.result = "completed"]
  OBVIOUS
<1>3. /\ y \in Job /\ y.pc = "ending" /\ y.run = x.run /\ y.leased = x.leased
      /\ y.start = x.start /\ y.intent = x.intent /\ y.result = "completed"
  BY <1>2 DEF Job, Results
<1>4. job' = [job EXCEPT ![w] = y]
  BY <1>1, <1>2 DEF Completed, RunTypeOK
<1>5. Moves(w) /\ job'[w] = y
  BY <1>3, <1>4, JobSet DEF RunTypeOK
<1>6. Framed
  BY DEF Completed, RunTypeOK, StoreTypeOK, Framed
<1>7. QED
  BY <1>1, <1>3, <1>5, <1>6 DEF Completed, At, Keeps

\* The end of an attempt: back to its start, or over.
LEMMA EndFacts ==
    ASSUME NEW x \in Job
    PROVE  /\ EndAttempt(x) \in Job
           /\ EndAttempt(x).run = x.run /\ EndAttempt(x).start = x.start
           /\ EndAttempt(x).leased = x.leased /\ EndAttempt(x).intent = 0
           /\ \/ /\ x.result \in {"failed", "timed_out"} /\ MaxRetries # 0
                 /\ EndAttempt(x).pc = "next" /\ EndAttempt(x).step = x.start
              \/ EndAttempt(x).pc = "ending" /\ EndAttempt(x).result = x.result
<1>1. PICK y : y = [x EXCEPT !.pc = "next", !.step = x.start, !.tries = x.tries + 1,
                             !.intent = 0, !.result = "none"]
  OBVIOUS
<1>2. PICK z : z = [x EXCEPT !.pc = "ending", !.intent = 0]
  OBVIOUS
<1>3. EndAttempt(x) = IF Retryable(x) THEN y ELSE z
  BY <1>1, <1>2 DEF EndAttempt
<1>4. /\ z \in Job /\ z.run = x.run /\ z.start = x.start /\ z.leased = x.leased
      /\ z.intent = 0 /\ z.pc = "ending" /\ z.result = x.result
  BY <1>2 DEF Job
<1>5. ASSUME Retryable(x)
      PROVE  /\ y \in Job /\ y.run = x.run /\ y.start = x.start /\ y.leased = x.leased
             /\ y.intent = 0 /\ y.pc = "next" /\ y.step = x.start
             /\ x.result \in {"failed", "timed_out"} /\ MaxRetries # 0
  <2>1. x.tries + 1 \in 0..MaxRetries /\ MaxRetries # 0
    BY <1>5, PolicyAssumption DEF Retryable, Job
  <2>2. "none" \in Results
    BY DEF Results
  <2>3. QED
    BY <1>1, <1>5, <2>1, <2>2 DEF Job, Retryable
<1>6. QED
  BY <1>3, <1>4, <1>5

LEMMA TimeOutFacts ==
    ASSUME RunTypeOK, NEW w \in Workers, TimeOut(w)
    PROVE  /\ Moves(w) /\ Framed /\ Keeps(w)
           /\ job[w].pc = "next" /\ job[w].step \in Steps /\ job'[w].intent = 0
           /\ \/ MaxRetries # 0 /\ job'[w].pc = "next" /\ job'[w].step = job[w].start
              \/ job'[w].pc = "ending" /\ job'[w].result = "timed_out"
           /\ UNCHANGED <<state, journal, holder, effects, exposed>>
<1>1. PICK x \in Job : x = job[w]
  BY DEF RunTypeOK
<1>2. PICK u : u = [x EXCEPT !.result = "timed_out"]
  OBVIOUS
<1>3. /\ u \in Job /\ u.result = "timed_out" /\ u.run = x.run /\ u.start = x.start
      /\ u.leased = x.leased
  BY <1>2 DEF Job, Results
<1>4. PICK y : y = EndAttempt(u)
  OBVIOUS
<1>5. /\ y \in Job /\ y.run = x.run /\ y.start = x.start /\ y.leased = x.leased /\ y.intent = 0
      /\ \/ MaxRetries # 0 /\ y.pc = "next" /\ y.step = x.start
         \/ y.pc = "ending" /\ y.result = "timed_out"
  BY <1>3, <1>4, EndFacts
<1>6. job' = [job EXCEPT ![w] = y]
  BY <1>1, <1>2, <1>4 DEF TimeOut, RunTypeOK
<1>7. Moves(w) /\ job'[w] = y
  BY <1>5, <1>6, JobSet DEF RunTypeOK
<1>8. Framed
  BY DEF TimeOut, RunTypeOK, StoreTypeOK, Framed
<1>9. QED
  BY <1>1, <1>5, <1>7, <1>8 DEF TimeOut, At, Keeps

LEMMA BeginFacts ==
    ASSUME RunTypeOK, NEW w \in Workers, Begin(w)
    PROVE  /\ Moves(w) /\ Framed /\ Keeps(w)
           /\ job[w].pc = "next" /\ job[w].step \in Steps /\ job[w].run \in Runs
           /\ job'[w].pc = "begun" /\ job'[w].step = job[w].step
           /\ job'[w].intent = Len(journal[job[w].run][job[w].step]) + 1
           /\ Wrote(job[w].run, job[w].step, "started")
           /\ UNCHANGED <<state, holder, effects, exposed>>
<1>1. PICK x \in Job : x = job[w]
  BY DEF RunTypeOK
<1>2. PICK n : n = Len(journal[job[w].run][job[w].step]) + 1
  OBVIOUS
<1>3. x.run \in Runs /\ x.step \in Steps
  BY <1>1 DEF Begin, Job
<1>4. n \in Nat
  BY <1>1, <1>2, <1>3, RowsFacts DEF RunTypeOK
<1>5. PICK y : y = [x EXCEPT !.pc = "begun", !.intent = n]
  OBVIOUS
<1>6. /\ y \in Job /\ y.pc = "begun" /\ y.run = x.run /\ y.leased = x.leased
      /\ y.start = x.start /\ y.step = x.step /\ y.intent = n /\ y.result = x.result
  BY <1>4, <1>5 DEF Job
<1>7. job' = [job EXCEPT ![w] = y]
  BY <1>1, <1>2, <1>5 DEF Begin, RunTypeOK
<1>8. Moves(w) /\ job'[w] = y
  BY <1>6, <1>7, JobSet DEF RunTypeOK
<1>9. Framed
  BY DEF Begin, RunTypeOK, StoreTypeOK, Framed
<1>10. QED
  BY <1>1, <1>2, <1>3, <1>6, <1>8, <1>9 DEF Begin, BeginStep, Wrote, At, Keeps

LEMMA BeginUnjournaledFacts ==
    ASSUME RunTypeOK, NEW w \in Workers, BeginUnjournaled(w)
    PROVE  /\ Moves(w) /\ Framed /\ Keeps(w)
           /\ job[w].pc = "next" /\ job[w].step \in Steps
           /\ job'[w].pc = "begun" /\ job'[w].step = job[w].step /\ job'[w].intent = 0
           /\ \/ job[w].run = 0 /\ UNCHANGED <<journal, exposed>>
              \/ /\ job[w].run \in Runs /\ "journal" \in Events
                 /\ exposed' = exposed \cup {job[w].run}
                 /\ UNCHANGED journal \/ Wrote(job[w].run, job[w].step, "started")
           /\ UNCHANGED <<state, holder, effects>>
<1>1. PICK x \in Job : x = job[w]
  BY DEF RunTypeOK
<1>2. PICK y : y = [x EXCEPT !.pc = "begun", !.intent = 0]
  OBVIOUS
<1>3. /\ y \in Job /\ y.pc = "begun" /\ y.run = x.run /\ y.leased = x.leased
      /\ y.start = x.start /\ y.step = x.step /\ y.intent = 0
  BY <1>2 DEF Job
<1>4. job' = [job EXCEPT ![w] = y]
  BY <1>1, <1>2 DEF BeginUnjournaled, RunTypeOK
<1>5. Moves(w) /\ job'[w] = y
  BY <1>3, <1>4, JobSet DEF RunTypeOK
<1>6. \/ job[w].run = 0 /\ UNCHANGED <<journal, events, exposed>>
      \/ /\ job[w].run # 0 /\ Event("journal")
         /\ exposed' = exposed \cup {job[w].run}
         /\ UNCHANGED journal \/ Wrote(job[w].run, job[w].step, "started")
  BY DEF BeginUnjournaled, BeginStep, Wrote
<1>7. job[w].run # 0 => job[w].run \in Runs
  BY DEF RunTypeOK, Job
<1>8. Event("journal") => events' \in 0..MaxEvents /\ "journal" \in Events
  BY EventFacts DEF RunTypeOK
<1>9. /\ events' \in 0..MaxEvents
      /\ \/ job[w].run = 0 /\ UNCHANGED <<journal, exposed>>
         \/ /\ job[w].run \in Runs /\ "journal" \in Events
            /\ exposed' = exposed \cup {job[w].run}
            /\ UNCHANGED journal \/ Wrote(job[w].run, job[w].step, "started")
  BY <1>6, <1>7, <1>8 DEF RunTypeOK
<1>10. Framed
  BY <1>9 DEF BeginUnjournaled, RunTypeOK, StoreTypeOK, Framed
<1>11. QED
  BY <1>1, <1>3, <1>5, <1>9, <1>10 DEF BeginUnjournaled, At, Keeps

\* A call takes effect at most once, and not at all when the fence refuses it.
LEMMA CallFacts ==
    ASSUME RunTypeOK, NEW w \in Workers, Fits(w), NEW result \in CallResults, Call(w, result)
    PROVE  /\ Moves(w) /\ Framed /\ Keeps(w)
           /\ job[w].pc = "begun" /\ job[w].step \in Steps
           /\ job'[w].pc = "answered" /\ job'[w].step = job[w].step
           /\ job'[w].intent = job[w].intent /\ job'[w].result = result
           /\ result = "stale" <=> job[w].leased /\ holder # w
           /\ job[w].run = 0 => effects' = effects
           /\ job[w].run # 0 => \E n \in {0, 1} :
                 /\ result = "ok" => n = 1
                 /\ result = "stale" => n = 0
                 /\ effects' = [effects EXCEPT ![job[w].run][job[w].step] = @ + n]
           /\ UNCHANGED <<state, journal, holder, exposed>>
<1>1. PICK x \in Job : x = job[w]
  BY DEF RunTypeOK
<1>2. PICK y : y = [x EXCEPT !.pc = "answered", !.result = result]
  OBVIOUS
<1>3. /\ y \in Job /\ y.pc = "answered" /\ y.run = x.run /\ y.leased = x.leased
      /\ y.start = x.start /\ y.step = x.step /\ y.intent = x.intent /\ y.result = result
  BY <1>2 DEF Job, Results
<1>4. job' = [job EXCEPT ![w] = y]
  BY <1>1, <1>2 DEF Call, RunTypeOK
<1>5. Moves(w) /\ job'[w] = y
  BY <1>3, <1>4, JobSet DEF RunTypeOK
<1>6. PICK n \in (CASE result = "ok" -> {1} [] result = "uncertain" -> {0, 1}
                    [] OTHER -> {0}) :
         effects' = IF job[w].run = 0 THEN effects ELSE
             [effects EXCEPT ![job[w].run][job[w].step] = @ + n]
  BY DEF Call
<1>7. n \in {0, 1} /\ (result = "ok" => n = 1) /\ (result = "stale" => n = 0)
  BY <1>6 DEF CallResults
<1>8. Framed
  BY DEF Call, RunTypeOK, StoreTypeOK, Framed
<1>9. job[w].pc = "begun" /\ job[w].step \in Steps
  BY DEF Call, At, Fits, InFlight
<1>10. result = "stale" <=> job[w].leased /\ holder # w
  BY DEF Call
<1>11. QED
  BY <1>1, <1>3, <1>5, <1>6, <1>7, <1>8, <1>9, <1>10 DEF Call, Keeps

LEMMA FenceAnswerFacts ==
    ASSUME RunTypeOK, NEW w \in Workers, FenceAnswer(w)
    PROVE  /\ Moves(w) /\ Framed /\ Keeps(w)
           /\ job[w].pc = "answered" /\ job'[w].pc = "called"
           /\ job'[w].step = job[w].step /\ job'[w].intent = job[w].intent
           /\ \/ job'[w].result = job[w].result
              \/ job'[w].result = "stale" /\ holder # w
           /\ UNCHANGED <<state, journal, holder, effects, exposed>>
<1>1. PICK x \in Job : x = job[w]
  BY DEF RunTypeOK
<1>2. PICK y : y = [x EXCEPT !.pc = "called"]
  OBVIOUS
<1>3. PICK z : z = [x EXCEPT !.pc = "called", !.result = "stale"]
  OBVIOUS
<1>4. /\ y \in Job /\ y.pc = "called" /\ y.run = x.run /\ y.leased = x.leased
      /\ y.start = x.start /\ y.step = x.step /\ y.intent = x.intent /\ y.result = x.result
  BY <1>2 DEF Job
<1>5. /\ z \in Job /\ z.pc = "called" /\ z.run = x.run /\ z.leased = x.leased
      /\ z.start = x.start /\ z.step = x.step /\ z.intent = x.intent /\ z.result = "stale"
  BY <1>3 DEF Job, Results, CallResults
<1>6. \/ job' = [job EXCEPT ![w] = y]
      \/ job' = [job EXCEPT ![w] = z] /\ holder # w
  BY <1>1, <1>2, <1>3 DEF FenceAnswer, RunTypeOK
<1>7. Moves(w) /\ (job'[w] = y \/ (job'[w] = z /\ holder # w))
  BY <1>4, <1>5, <1>6, JobSet DEF RunTypeOK
<1>8. Framed
  BY DEF FenceAnswer, RunTypeOK, StoreTypeOK, Framed
<1>9. QED
  BY <1>1, <1>4, <1>5, <1>7, <1>8 DEF FenceAnswer, At, Keeps

\* How the worker leaves a recorded call.
LEMMA RecordMoves ==
    ASSUME RunTypeOK, NEW w \in Workers, Fits(w), Record(w)
    PROVE  /\ Moves(w) /\ Keeps(w) /\ job'[w].intent = 0
           /\ job[w].pc = "called" /\ job[w].step \in Steps
           /\ job[w].result \in CallResults
           /\ \/ /\ job[w].result = "ok"
                 /\ job'[w].pc = "next" /\ job'[w].step = job[w].step + 1
              \/ /\ job[w].result = "ok"
                 /\ job'[w].pc = "ending" /\ job'[w].result \in {"killed", "capped"}
              \/ /\ job[w].result = "failed" /\ MaxRetries # 0
                 /\ job'[w].pc = "next" /\ job'[w].step = job[w].start
              \/ /\ job[w].result # "ok"
                 /\ job'[w].pc = "ending" /\ job'[w].result = job[w].result
<1>1. PICK x \in Job : x = job[w]
  BY DEF RunTypeOK
<1>2. x.pc = "called" /\ x.step \in Steps /\ x.result \in CallResults
  BY <1>1 DEF Record, At, Fits, InFlight
<1>3. \/ /\ x.result = "ok"
         /\ job' = [job EXCEPT ![w].pc = "next", ![w].step = @ + 1,
                               ![w].intent = 0, ![w].result = "none"]
      \/ /\ x.result = "ok"
         /\ \E cap \in {"killed", "capped"} :
               job' = [job EXCEPT ![w] = EndAttempt([@ EXCEPT !.result = cap])]
      \/ x.result # "ok" /\ job' = [job EXCEPT ![w] = EndAttempt(@)]
  BY <1>1 DEF Record
<1>4. CASE /\ x.result = "ok"
           /\ job' = [job EXCEPT ![w].pc = "next", ![w].step = @ + 1,
                                 ![w].intent = 0, ![w].result = "none"]
  <2>1. PICK y : y = [x EXCEPT !.pc = "next", !.step = x.step + 1, !.intent = 0,
                               !.result = "none"]
    OBVIOUS
  <2>2. x.step + 1 \in 1..Calls + 1 /\ "none" \in Results
    BY <1>2, StoreSizes DEF Steps, Results
  <2>3. /\ y \in Job /\ y.pc = "next" /\ y.run = x.run /\ y.leased = x.leased
        /\ y.start = x.start /\ y.step = x.step + 1 /\ y.intent = 0
    BY <2>1, <2>2 DEF Job
  <2>4. job' = [job EXCEPT ![w] = y]
    BY <1>1, <1>4, <2>1 DEF RunTypeOK
  <2>5. Moves(w) /\ job'[w] = y
    BY <2>3, <2>4, JobSet DEF RunTypeOK
  <2>6. QED
    BY <1>1, <1>2, <1>4, <2>3, <2>5 DEF Keeps
<1>5. CASE /\ x.result = "ok"
           /\ \E cap \in {"killed", "capped"} :
                 job' = [job EXCEPT ![w] = EndAttempt([@ EXCEPT !.result = cap])]
  <2>1. PICK cap \in {"killed", "capped"} :
           job' = [job EXCEPT ![w] = EndAttempt([@ EXCEPT !.result = cap])]
    BY <1>5
  <2>2. PICK u : u = [x EXCEPT !.result = cap]
    OBVIOUS
  <2>3. /\ u \in Job /\ u.result = cap /\ u.run = x.run /\ u.start = x.start
        /\ u.leased = x.leased
    BY <2>2 DEF Job, Results
  <2>4. PICK y : y = EndAttempt(u)
    OBVIOUS
  <2>5. /\ y \in Job /\ y.run = x.run /\ y.start = x.start /\ y.leased = x.leased
        /\ y.intent = 0 /\ y.pc = "ending" /\ y.result \in {"killed", "capped"}
    BY <2>1, <2>3, <2>4, EndFacts
  <2>6. job' = [job EXCEPT ![w] = y]
    BY <1>1, <2>1, <2>2, <2>4 DEF RunTypeOK
  <2>7. Moves(w) /\ job'[w] = y
    BY <2>5, <2>6, JobSet DEF RunTypeOK
  <2>8. QED
    BY <1>1, <1>2, <1>5, <2>5, <2>7 DEF Keeps
<1>6. CASE x.result # "ok" /\ job' = [job EXCEPT ![w] = EndAttempt(@)]
  <2>1. PICK y : y = EndAttempt(x)
    OBVIOUS
  <2>2. /\ y \in Job /\ y.run = x.run /\ y.start = x.start /\ y.leased = x.leased
        /\ y.intent = 0
        /\ \/ /\ x.result \in {"failed", "timed_out"} /\ MaxRetries # 0
              /\ y.pc = "next" /\ y.step = x.start
           \/ y.pc = "ending" /\ y.result = x.result
    BY <2>1, EndFacts
  <2>3. x.result # "timed_out"
    BY <1>2 DEF CallResults
  <2>4. job' = [job EXCEPT ![w] = y]
    BY <1>1, <1>6, <2>1 DEF RunTypeOK
  <2>5. Moves(w) /\ job'[w] = y
    BY <2>2, <2>4, JobSet DEF RunTypeOK
  <2>6. QED
    BY <1>1, <1>2, <1>6, <2>2, <2>3, <2>5 DEF Keeps
<1>7. QED
  BY <1>3, <1>4, <1>5, <1>6

\* What is recorded: the outcome, behind the intent if that is still the last row.
LEMMA RecordFacts ==
    ASSUME RunTypeOK, NEW w \in Workers, Fits(w), Record(w)
    PROVE  LET r == job[w].run  s == job[w].step  o == OutcomeOf(job[w].result) IN
           /\ Framed /\ UNCHANGED <<holder, effects>>
           /\ job[w].intent # 0 => r \in Runs
           /\ \/ journal' = journal
              \/ /\ job[w].intent # 0 /\ Len(journal[r][s]) = job[w].intent
                 /\ Wrote(r, s, o)
           /\ \/ exposed' = exposed
              \/ "journal" \in Events /\ exposed' = exposed \cup {r} /\ journal' = journal
           /\ /\ "journal" \notin Events /\ job[w].intent # 0
              /\ Latest(r, s) = "started" /\ Len(journal[r][s]) = job[w].intent
              => Wrote(r, s, o) /\ state' = state
<1>1. PICK r : r = job[w].run
  OBVIOUS
<1>2. PICK s \in Steps : s = job[w].step
  BY RecordMoves
<1>3. PICK i \in Nat : i = job[w].intent
  BY DEF RunTypeOK, Job
<1>4. PICK o \in Rows : o = OutcomeOf(job[w].result)
  BY DEF OutcomeOf, Rows, Decided
<1>5. i # 0 => r \in Runs
  BY <1>1, <1>3 DEF RunTypeOK, Job, Fits
<1>6. UNCHANGED <<holder, effects>>
  BY DEF Record
<1>7. \/ i # 0 /\ CompleteStep(r, s, i, o) /\ UNCHANGED <<events, exposed>>
      \/ i = 0 /\ UNCHANGED <<state, journal, events, exposed>>
      \/ i # 0 /\ Event("journal") /\ UNCHANGED storeVars /\ exposed' = exposed \cup {r}
  BY <1>1, <1>2, <1>3, <1>4 DEF Record
<1>8. CASE i # 0 /\ CompleteStep(r, s, i, o) /\ UNCHANGED <<events, exposed>>
  <2>1. /\ state' \in [Runs -> RunStates \cup {"ABSENT"}]
        /\ \A q \in Runs : state'[q] = "ABSENT" => state[q] = "ABSENT"
        /\ journal' = journal \/ (Len(journal[r][s]) = i /\ Wrote(r, s, o))
        /\ Latest(r, s) = "started" /\ Len(journal[r][s]) = i =>
              Wrote(r, s, o) /\ state' = state
    BY <1>5, <1>8, CompleteFacts DEF RunTypeOK
  <2>2. Framed
    BY <1>6, <1>8, <2>1 DEF Framed, RunTypeOK
  <2>3. QED
    BY <1>1, <1>2, <1>3, <1>4, <1>5, <1>6, <1>8, <2>1, <2>2
<1>9. CASE i = 0 /\ UNCHANGED <<state, journal, events, exposed>>
  <2>1. Framed
    BY <1>6, <1>9 DEF Framed, RunTypeOK, StoreTypeOK
  <2>2. QED
    BY <1>1, <1>2, <1>3, <1>4, <1>5, <1>6, <1>9, <2>1
<1>10. CASE i # 0 /\ Event("journal") /\ UNCHANGED storeVars /\ exposed' = exposed \cup {r}
  <2>1. events' \in 0..MaxEvents /\ "journal" \in Events
    BY <1>10, EventFacts DEF RunTypeOK
  <2>2. UNCHANGED <<state, journal>>
    BY <1>10 DEF storeVars
  <2>3. Framed
    BY <1>5, <1>6, <1>10, <2>1, <2>2 DEF Framed, RunTypeOK, StoreTypeOK
  <2>4. QED
    BY <1>1, <1>2, <1>3, <1>4, <1>5, <1>6, <1>10, <2>1, <2>2, <2>3
<1>11. QED
  BY <1>7, <1>8, <1>9, <1>10

LEMMA FinishFacts ==
    ASSUME RunTypeOK, NEW w \in Workers, Finish(w)
    PROVE  LET r == job[w].run IN
           /\ Moves(w) /\ Framed /\ NoneGains(w)
           /\ job[w].pc = "ending" /\ job'[w] = Idle
           /\ \A q \in Runs : q # r => state'[q] = state[q]
           /\ r \in Runs => \/ state'[r] \in {state[r], "FAILED"}
                            \/ state'[r] = "DONE" /\ job[w].result = "completed"
                            \/ state'[r] = "NEEDS_REVIEW" /\ job[w].result = "uncertain"
           /\ UNCHANGED <<journal, effects, exposed>>
<1>1. PICK r \in Runs \cup {0} : r = job[w].run
  BY DEF RunTypeOK, Job
<1>2. job' = [job EXCEPT ![w] = Idle] /\ holder' = Released(w)
  BY DEF Finish
<1>3. Moves(w) /\ job'[w] = Idle
  BY <1>2, IdleFacts, JobSet DEF RunTypeOK
<1>4. holder' \in Workers \cup {Nobody} /\ NoneGains(w)
  BY <1>2, ReleasedFacts
<1>5. \/ r = 0 /\ state' = state
      \/ r # 0 /\ job[w].result = "completed" /\ Transition(r, Active, "DONE")
      \/ r # 0 /\ job[w].result = "uncertain" /\ MarkNeedsReview(r)
      \/ r # 0 /\ Transition(r, Active, "FAILED")
  BY <1>1 DEF Finish
<1>6. /\ Active \subseteq RunStates /\ {"DONE", "FAILED", "NEEDS_REVIEW"} \subseteq RunStates
      /\ RunStates \ (Terminal \cup {"NEEDS_REVIEW"}) \subseteq RunStates
      /\ 0 \notin Runs
  BY DEF Active, RunStates, Runs
<1>7. /\ state' \in [Runs -> RunStates \cup {"ABSENT"}]
      /\ \A q \in Runs : state'[q] = "ABSENT" => state[q] = "ABSENT"
      /\ \A q \in Runs : q # r => state'[q] = state[q]
      /\ r \in Runs => \/ state'[r] \in {state[r], "FAILED"}
                       \/ state'[r] = "DONE" /\ job[w].result = "completed"
                       \/ state'[r] = "NEEDS_REVIEW" /\ job[w].result = "uncertain"
  <2>1. CASE r = 0 /\ state' = state
    BY <2>1, <1>6 DEF RunTypeOK, StoreTypeOK
  <2>2. CASE r # 0 /\ job[w].result = "completed" /\ Transition(r, Active, "DONE")
    BY <2>2, <1>1, <1>6, TransitionFacts DEF RunTypeOK
  <2>3. CASE r # 0 /\ job[w].result = "uncertain" /\ MarkNeedsReview(r)
    BY <2>3, <1>1, <1>6, TransitionFacts DEF RunTypeOK, MarkNeedsReview
  <2>4. CASE r # 0 /\ Transition(r, Active, "FAILED")
    BY <2>4, <1>1, <1>6, TransitionFacts DEF RunTypeOK
  <2>5. QED
    BY <1>5, <2>1, <2>2, <2>3, <2>4
<1>8. UNCHANGED <<journal, effects, events, exposed>> /\ job[w].pc = "ending"
  BY DEF Finish, At
<1>9. Framed
  BY <1>4, <1>7, <1>8 DEF Framed, RunTypeOK
<1>10. QED
  BY <1>1, <1>3, <1>4, <1>7, <1>8, <1>9

LEMMA CrashFacts ==
    ASSUME RunTypeOK, NEW w \in Workers, Crash(w)
    PROVE  /\ Moves(w) /\ Framed /\ NoneGains(w)
           /\ job[w].pc # "idle" /\ job'[w] = Idle
           /\ UNCHANGED <<state, journal, effects, exposed>>
<1>1. job' = [job EXCEPT ![w] = Idle] /\ holder' = Released(w)
  BY DEF Crash
<1>2. Moves(w) /\ job'[w] = Idle
  BY <1>1, IdleFacts, JobSet DEF RunTypeOK
<1>3. holder' \in Workers \cup {Nobody} /\ NoneGains(w)
  BY <1>1, ReleasedFacts
<1>4. events' \in 0..MaxEvents
  BY EventFacts DEF Crash, RunTypeOK
<1>5. Framed
  BY <1>3, <1>4 DEF Crash, Framed, RunTypeOK, StoreTypeOK
<1>6. QED
  BY <1>2, <1>3, <1>5 DEF Crash, At

LEMMA LapseFacts ==
    ASSUME RunTypeOK, NEW w \in Workers, Lapse(w)
    PROVE  /\ Framed /\ holder' = Nobody /\ "lapse" \in Events
           /\ UNCHANGED <<state, journal, job, effects, exposed>>
<1>1. events' \in 0..MaxEvents /\ "lapse" \in Events
  BY EventFacts DEF Lapse, RunTypeOK
<1>2. QED
  BY <1>1 DEF Lapse, Framed, RunTypeOK, StoreTypeOK

\* The commands change the state of one run and nothing else; they never make a
\* run done, and only the two that analyse it may park it.
LEMMA OperatorFacts ==
    ASSUME RunTypeOK, Unborn, NEW r \in Runs, Operator(r)
    PROVE  /\ Framed
           /\ \A q \in Runs : state'[q] = "DONE" => state[q] = "DONE"
           /\ Unwatched => \A q \in Runs :
                 state'[q] = "NEEDS_REVIEW" => state[q] = "NEEDS_REVIEW"
           /\ UNCHANGED <<journal, job, holder, effects, exposed>>
<1>1. ASSUME NEW name, Command(name)
      PROVE  events' \in 0..MaxEvents /\ name \in Events
                /\ UNCHANGED <<job, holder, effects, exposed>>
  BY <1>1, EventFacts DEF Command, RunTypeOK
<1>2. /\ {"PAUSED", "FAILED", "QUEUED", "AWAITING_MODEL", "NEEDS_REVIEW"} \subseteq RunStates
      /\ RunStates \ (Terminal \cup {"NEEDS_REVIEW"}) \subseteq RunStates
  BY DEF RunStates
<1>3. state[r] # "ABSENT" => {state[r]} \subseteq RunStates
  BY DEF RunTypeOK, StoreTypeOK
<1> DEFINE Goal ==
             /\ state' \in [Runs -> RunStates \cup {"ABSENT"}]
             /\ \A q \in Runs : state'[q] = "ABSENT" => state[q] = "ABSENT"
             /\ \A q \in Runs : state'[q] = "DONE" => state[q] = "DONE"
             /\ Unwatched => \A q \in Runs :
                   state'[q] = "NEEDS_REVIEW" => state[q] = "NEEDS_REVIEW"
             /\ journal' = journal
<1>4. CASE Pause(r)
  <2>1. Transition(r, {state[r]}, "PAUSED") /\ state[r] # "ABSENT" /\ journal' = journal
    BY <1>4 DEF Pause
  <2>2. Goal
    BY <1>2, <1>3, <2>1, TransitionFacts DEF RunTypeOK
  <2>3. QED
    BY <1>1, <1>4, <2>2 DEF Pause, Framed, RunTypeOK
<1>5. CASE Cancel(r)
  <2>1. Transition(r, {state[r]}, "FAILED") /\ state[r] # "ABSENT" /\ journal' = journal
    BY <1>5 DEF Cancel
  <2>2. Goal
    BY <1>2, <1>3, <2>1, TransitionFacts DEF RunTypeOK
  <2>3. QED
    BY <1>1, <1>5, <2>2 DEF Cancel, Framed, RunTypeOK
<1>6. CASE Retry(r)
  <2>1. Transition(r, {state[r]}, "QUEUED") /\ state[r] # "ABSENT" /\ journal' = journal
    BY <1>6 DEF Retry
  <2>2. Goal
    BY <1>2, <1>3, <2>1, TransitionFacts DEF RunTypeOK
  <2>3. QED
    BY <1>1, <1>6, <2>2 DEF Retry, Framed, RunTypeOK
<1>7. CASE Show(r)
  <2>1. /\ journal' = journal
        /\ MarkNeedsReview(r) \/ state' = state
    BY <1>7, ResumeFacts DEF Show, RunTypeOK
  <2>2. ~Unwatched
    BY <1>1, <1>7 DEF Show, Unwatched
  <2>3. Goal
    BY <1>2, <2>1, <2>2, TransitionFacts DEF RunTypeOK, StoreTypeOK, MarkNeedsReview
  <2>4. QED
    BY <1>1, <1>7, <2>3 DEF Show, Framed, RunTypeOK
<1>8. CASE ResumeCommand(r)
  <2>1. /\ journal' = journal
        /\ MarkNeedsReview(r) \/ Transition(r, {"QUEUED"}, "AWAITING_MODEL")
    BY <1>8 DEF ResumeCommand
  <2>2. ~Unwatched /\ {"QUEUED"} \subseteq RunStates
    BY <1>1, <1>2, <1>8 DEF ResumeCommand, Unwatched
  <2>3. Goal
    BY <1>2, <2>1, <2>2, TransitionFacts DEF RunTypeOK, StoreTypeOK, MarkNeedsReview
  <2>4. QED
    BY <1>1, <1>8, <2>3 DEF ResumeCommand, Framed, RunTypeOK
<1>9. QED
  BY <1>4, <1>5, <1>6, <1>7, <1>8 DEF Operator

-----------------------------------------------------------------------------
(* In any environment.                                                      *)

\* The journal only grows.
Grows ==
    /\ journal' \in [Runs -> [Steps -> Seq(Rows)]]
    /\ \A r \in Runs, s \in Steps :
          /\ Len(journal[r][s]) <= Len(journal'[r][s])
          /\ journal[r][s] # <<>> => journal'[r][s] # <<>>

LEMMA QuietGrows ==
    ASSUME RunTypeOK, journal' = journal
    PROVE  Grows
<1>1. \A r \in Runs, s \in Steps : Len(journal[r][s]) \in Nat
  BY RowsFacts DEF RunTypeOK
<1>2. QED
  BY <1>1 DEF Grows, RunTypeOK, StoreTypeOK

LEMMA WroteGrows ==
    ASSUME RunTypeOK, NEW r \in Runs, NEW s \in Steps, NEW o \in Rows, Wrote(r, s, o)
    PROVE  Grows
BY WroteFacts DEF Grows, RunTypeOK

\* A worker that does not move keeps what it holds.
LEMMA FitsKept ==
    ASSUME RunTypeOK, Framed, Grows, NEW v \in Workers, Fits(v), job'[v] = job[v]
    PROVE  Fits(v)'
<1>1. PICK x \in Job : x = job[v]
  BY DEF RunTypeOK
<1>2. x.run # 0 => x.run \in Runs
  BY DEF Job
<1>3. x.run # 0 => state'[x.run] # "ABSENT"
  BY <1>1, <1>2 DEF Fits, Framed
<1>4. x.intent # 0 => x.intent <= Len(journal'[x.run][x.step])
  <2> SUFFICES ASSUME x.intent # 0 PROVE x.intent <= Len(journal'[x.run][x.step])
    OBVIOUS
  <2>1. x.run \in Runs /\ x.step \in Steps /\ x.intent \in Nat
    BY <1>1, <1>2 DEF Fits, InFlight, Job
  <2>2. PICK m \in Nat : m = Len(journal[x.run][x.step])
    BY <2>1, RowsFacts DEF RunTypeOK
  <2>3. PICK n \in Nat : n = Len(journal'[x.run][x.step])
    BY <2>1 DEF Grows
  <2>4. x.intent <= m /\ m <= n
    BY <1>1, <2>1, <2>2, <2>3 DEF Fits, Grows
  <2>5. QED
    BY <2>1, <2>3, <2>4
<1>5. QED
  BY <1>1, <1>3, <1>4 DEF Fits, InFlight, At

\* Success rows and effects are counted.
LEMMA Counts ==
    ASSUME RunTypeOK, NEW r \in Runs, NEW s \in Steps
    PROVE  Cardinality(OkRows(r, s)) \in Nat /\ effects[r][s] \in Nat
BY OkCount DEF RunTypeOK

\* A step that touches neither the rows nor the effects of a step, and leaves
\* nobody owing more, leaves it paid.
LEMMA PaidKept ==
    ASSUME NEW w \in Workers, Moves(w), NEW r \in Runs, NEW s \in Steps, Paid(r, s),
           journal'[r][s] = journal[r][s], effects'[r][s] = effects[r][s],
           Owed(w, r, s)' => Owed(w, r, s)
    PROVE  Paid(r, s)'
<1>1. OkRows(r, s)' = OkRows(r, s)
  BY DEF OkRows
<1>2. ASSUME NEW v \in Workers, Owed(v, r, s)'
      PROVE  Owed(v, r, s)
  <2>1. CASE v = w
    BY <1>2, <2>1
  <2>2. CASE v # w
    <3>1. job'[v] = job[v]
      BY <2>2 DEF Moves
    <3>2. QED
      BY <1>2, <3>1 DEF Owed
  <2>3. QED
    BY <2>1, <2>2
<1>3. (\E v \in Workers : Owed(v, r, s)') => Cardinality(OkRows(r, s)) + 1 <= effects[r][s]
  BY <1>2 DEF Paid
<1>4. QED
  BY <1>1, <1>3 DEF Paid

\* A step that writes no row.
LEMMA BaseQuiet ==
    ASSUME BaseInv, NEW w \in Workers, Moves(w), Framed, Fits(w)',
           journal' = journal, effects' = effects,
           \A r \in Runs, s \in Steps : Owed(w, r, s)' => Owed(w, r, s)
    PROVE  BaseInv'
<1> USE DEF BaseInv
<1>1. Grows
  BY QuietGrows
<1>2. RunTypeOK'
  BY DEF RunTypeOK, StoreTypeOK, Framed, Moves
<1>3. ASSUME NEW v \in Workers PROVE Fits(v)'
  <2>1. v # w => job'[v] = job[v]
    BY DEF Moves
  <2>2. v # w => Fits(v)'
    BY <1>1, <2>1, FitsKept
  <2>3. QED
    BY <2>2
<1>4. Unborn'
  BY DEF Unborn, Framed, Latest
<1>5. ASSUME NEW r \in Runs, NEW s \in Steps PROVE Paid(r, s)'
  <2>1. Paid(r, s) /\ (Owed(w, r, s)' => Owed(w, r, s))
    OBVIOUS
  <2>2. QED
    BY <2>1, PaidKept
<1>6. QED
  BY <1>2, <1>3, <1>4, <1>5

\* A step that writes a row of a run: a success only where it was owed.
LEMMA BaseWrote ==
    ASSUME BaseInv, NEW w \in Workers, Moves(w), Framed, Fits(w)', effects' = effects,
           NEW r \in Runs, NEW s \in Steps, NEW o \in Rows, Wrote(r, s, o),
           o # "never_ran", state[r] # "ABSENT",
           o = "executed_ok" => Owed(w, r, s),
           \A p \in Runs, q \in Steps : ~Owed(w, p, q)'
    PROVE  BaseInv'
<1> USE DEF BaseInv
<1>0. StoreTypeOK
  BY DEF RunTypeOK
<1>1. Grows
  BY WroteGrows
<1>2. RunTypeOK'
  BY <1>1 DEF RunTypeOK, StoreTypeOK, Framed, Moves, Grows
<1>3. ASSUME NEW v \in Workers PROVE Fits(v)'
  <2>1. v # w => job'[v] = job[v]
    BY DEF Moves
  <2>2. v # w => Fits(v)'
    BY <1>1, <2>1, FitsKept
  <2>3. QED
    BY <2>2
<1>4. /\ Latest(r, s)' = o
      /\ Len(journal'[r][s]) = Len(journal[r][s]) + 1
      /\ \A p \in Runs, q \in Steps : p # r \/ q # s =>
            journal'[p][q] = journal[p][q] /\ Latest(p, q)' = Latest(p, q)
  BY <1>0, WroteFacts
<1>5. ASSUME NEW p \in Runs, NEW q \in Steps
      PROVE  /\ state'[p] = "ABSENT" => journal'[p][q] = <<>> /\ effects'[p][q] = 0
             /\ Latest(p, q)' # "never_ran"
  <2>1. state'[p] = "ABSENT" => state[p] = "ABSENT" /\ p # r
    BY DEF Framed
  <2>2. /\ state[p] = "ABSENT" => journal[p][q] = <<>> /\ effects[p][q] = 0
        /\ Latest(p, q) # "never_ran"
    BY DEF Unborn
  <2>3. QED
    BY <1>4, <2>1, <2>2
<1>6. Unborn'
  BY <1>5 DEF Unborn
<1>7. ASSUME NEW p \in Runs, NEW q \in Steps PROVE Paid(p, q)'
  <2>1. CASE p # r \/ q # s
    <3>1. Paid(p, q) /\ ~Owed(w, p, q)' /\ journal'[p][q] = journal[p][q]
      BY <1>4, <2>1
    <3>2. QED
      BY <3>1, PaidKept
  <2>2. CASE p = r /\ q = s
    <3>1. PICK c \in Nat : c = Cardinality(OkRows(r, s))
      BY Counts
    <3>2. PICK e \in Nat : e = effects[r][s]
      BY Counts
    <3>3. Cardinality(OkRows(r, s)') = c + IF o = "executed_ok" THEN 1 ELSE 0
      BY <1>0, <3>1, OkWritten
    <3>4. c <= e /\ (o = "executed_ok" => c + 1 <= e)
      BY <3>1, <3>2 DEF Paid
    <3>5. Cardinality(OkRows(r, s)') <= e
      BY <3>3, <3>4
    <3>6. ASSUME NEW v \in Workers, Owed(v, r, s)' PROVE FALSE
      <4>1. v # w /\ job'[v] = job[v]
        BY <3>6 DEF Moves
      <4>2. PICK x \in Job : x = job[v]
        BY DEF RunTypeOK
      <4>3. x.run = r /\ x.step = s /\ x.intent = Len(journal'[r][s]) /\ x.intent # 0
        BY <3>6, <4>1, <4>2 DEF Owed
      <4>4. Fits(v)
        OBVIOUS
      <4>5. x.intent <= Len(journal[r][s])
        BY <4>2, <4>3, <4>4 DEF Fits
      <4>6. Len(journal[r][s]) \in Nat
        BY <1>0, RowsFacts
      <4>7. QED
        BY <1>4, <4>3, <4>5, <4>6
    <3>7. QED
      BY <2>2, <3>2, <3>5, <3>6 DEF Paid
  <2>3. QED
    BY <2>1, <2>2
<1>8. QED
  BY <1>2, <1>3, <1>6, <1>7

LEMMA BaseInit == Init => BaseInv
<1> SUFFICES ASSUME Init PROVE BaseInv
  OBVIOUS
<1>1. job = [w \in Workers |-> Idle] /\ StoreInit
  BY DEF Init
<1>2. RunTypeOK
  BY <1>1, IdleFacts, PolicyAssumption DEF Init, StoreInit, RunTypeOK, StoreTypeOK
<1>3. \A w \in Workers : job[w] = Idle
  BY <1>1
<1>4. \A w \in Workers : Fits(w)
  BY <1>3, IdleFacts DEF Fits, InFlight, At
<1>5. \A r \in Runs, s \in Steps : journal[r][s] = <<>> /\ effects[r][s] = 0
  BY DEF Init, StoreInit
<1>6. Unborn
  BY <1>5 DEF Unborn, Latest
<1>7. ASSUME NEW r \in Runs, NEW s \in Steps PROVE Paid(r, s)
  <2>1. journal[r][s] = <<>> /\ effects[r][s] = 0
    BY <1>5
  <2>2. OkRows(r, s) = {}
    BY <2>1 DEF OkRows
  <2>3. Cardinality(OkRows(r, s)) = 0
    BY <2>2, FS_EmptySet
  <2>4. \A w \in Workers : ~Owed(w, r, s)
    BY <1>3, IdleFacts DEF Owed
  <2>5. QED
    BY <2>1, <2>3, <2>4 DEF Paid
<1>8. QED
  BY <1>2, <1>4, <1>6, <1>7 DEF BaseInv

\* A worker between two steps, or idle, owes nothing.
LEMMA OwesNothing ==
    ASSUME NEW w, job'[w].pc \notin {"answered", "called"}
    PROVE  \A r \in Runs, s \in Steps : ~Owed(w, r, s)'
BY DEF Owed

\* Opening a run.
LEMMA BaseOpen ==
    ASSUME BaseInv, NEW w \in Workers,
           Fires(w) \/ RunOnce(w) \/ ResumeOrphan(w) \/ CreateRun(w) \/ StartRun(w)
              \/ OpenFails(w)
    PROVE  BaseInv'
<1> RunTypeOK /\ Unborn /\ Fits(w)
  BY DEF BaseInv
<1> 0 \notin Runs
  BY DEF Runs
<1>1. CASE Fires(w)
  <2>1. /\ Moves(w) /\ Framed /\ job[w].pc = "idle" /\ job'[w].pc = "opening"
        /\ job'[w].run = job[w].run /\ job'[w].start = job[w].start
        /\ job'[w].step = job[w].step /\ job'[w].intent = job[w].intent
        /\ UNCHANGED <<journal, effects>>
    BY <1>1, FireFacts
  <2>2. Fits(w)'
    BY <2>1 DEF Fits, InFlight, At
  <2>3. QED
    BY <2>1, <2>2, OwesNothing, BaseQuiet
<1>2. CASE RunOnce(w)
  <2>1. /\ Moves(w) /\ Framed /\ job[w].pc = "idle" /\ job'[w].pc = "opening"
        /\ job'[w].run = job[w].run /\ job'[w].start = job[w].start
        /\ job'[w].step = job[w].step /\ job'[w].intent = job[w].intent
        /\ UNCHANGED <<journal, effects>>
    BY <1>2, RunOnceFacts
  <2>2. Fits(w)'
    BY <2>1 DEF Fits, InFlight, At
  <2>3. QED
    BY <2>1, <2>2, OwesNothing, BaseQuiet
<1>3. CASE ResumeOrphan(w)
  <2>1. PICK r \in Runs : r = Orphan
    BY <1>3, ResumeOrphanFacts
  <2>2. /\ Moves(w) /\ Framed /\ job[w].pc = "opening" /\ job'[w].pc \in {"ending", "next"}
        /\ job'[w].run = r /\ job'[w].intent = job[w].intent /\ state[r] # "ABSENT"
        /\ UNCHANGED <<journal, effects>>
    BY <1>3, <2>1, ResumeOrphanFacts
  <2>3. job[w].intent = 0
    BY <2>2 DEF Fits, InFlight
  <2>4. state'[r] # "ABSENT"
    BY <2>2 DEF Framed
  <2>5. Fits(w)'
    BY <2>2, <2>3, <2>4 DEF Fits, InFlight, At
  <2>6. QED
    BY <2>2, <2>5, OwesNothing, BaseQuiet
<1>4. CASE CreateRun(w)
  <2>1. PICK r \in Runs : r = job'[w].run
    BY <1>4, CreateRunFacts
  <2>2. /\ Moves(w) /\ Framed /\ job[w].pc = "opening" /\ job'[w].pc = "created"
        /\ job'[w].intent = job[w].intent
        /\ job'[w].start = job[w].start /\ job'[w].step = job[w].step
        /\ state' = [state EXCEPT ![r] = "QUEUED"]
        /\ UNCHANGED <<journal, effects>>
    BY <1>4, <2>1, CreateRunFacts
  <2>3. job[w].intent = 0 /\ job[w].start = 1 /\ job[w].step = 1
    BY <2>2 DEF Fits, InFlight
  <2>4. state'[r] # "ABSENT" /\ r # 0
    BY <2>2 DEF RunTypeOK, StoreTypeOK
  <2>5. Fits(w)'
    BY <2>1, <2>2, <2>3, <2>4 DEF Fits, InFlight, At
  <2>6. QED
    BY <2>2, <2>5, OwesNothing, BaseQuiet
<1>5. CASE StartRun(w)
  <2>1. /\ Moves(w) /\ Framed /\ job[w].pc = "created" /\ job'[w].pc = "next"
        /\ job'[w].run = job[w].run /\ job'[w].intent = job[w].intent
        /\ job[w].run \in Runs
        /\ UNCHANGED <<journal, effects>>
    BY <1>5, StartRunFacts
  <2>2. job[w].intent = 0
    BY <2>1 DEF Fits, InFlight
  <2>3. state'[job[w].run] # "ABSENT"
    BY <2>1 DEF Framed, Fits
  <2>4. Fits(w)'
    BY <2>1, <2>2, <2>3 DEF Fits, InFlight, At
  <2>5. QED
    BY <2>1, <2>4, OwesNothing, BaseQuiet
<1>6. CASE OpenFails(w)
  <2>1. /\ Moves(w) /\ Framed /\ job[w].pc = "opening" /\ job'[w].pc = "next"
        /\ job'[w].run = job[w].run /\ job'[w].intent = job[w].intent
        /\ UNCHANGED <<journal, effects>>
    BY <1>6, OpenFailsFacts DEF Keeps
  <2>2. job[w].intent = 0 /\ job[w].run = 0
    BY <2>1 DEF Fits, InFlight
  <2>3. Fits(w)'
    BY <2>1, <2>2 DEF Fits, InFlight, At
  <2>4. QED
    BY <2>1, <2>3, OwesNothing, BaseQuiet
<1>7. QED
  BY <1>1, <1>2, <1>3, <1>4, <1>5, <1>6

\* A worker that goes on keeps a run that exists.
LEMMA FitsGoing ==
    ASSUME NEW w \in Workers, RunTypeOK, Fits(w), Framed, Keeps(w),
           job'[w].pc \in {"next", "ending"}, job'[w].intent = 0
    PROVE  Fits(w)'
<1>1. job[w].run # 0 => job[w].run \in Runs /\ state[job[w].run] # "ABSENT"
  BY DEF RunTypeOK, Job, Fits
<1>2. job'[w].run = job[w].run
  BY DEF Keeps
<1>3. job'[w].run # 0 => state'[job'[w].run] # "ABSENT"
  BY <1>1, <1>2 DEF Framed
<1>4. QED
  BY <1>3 DEF Fits, InFlight, At

\* Between two steps of an attempt.
LEMMA BaseBetween ==
    ASSUME BaseInv, NEW w \in Workers, Completed(w) \/ TimeOut(w)
    PROVE  BaseInv'
<1> RunTypeOK /\ Unborn /\ Fits(w)
  BY DEF BaseInv
<1>1. /\ Moves(w) /\ Framed /\ Keeps(w) /\ job[w].pc = "next"
      /\ job'[w].pc \in {"next", "ending"}
      /\ job'[w].intent \in {0, job[w].intent}
      /\ UNCHANGED <<journal, effects>>
  BY CompletedFacts, TimeOutFacts
<1>2. job[w].intent = 0
  BY <1>1 DEF Fits, InFlight
<1>3. Fits(w)'
  BY <1>1, <1>2, FitsGoing
<1>4. QED
  BY <1>1, <1>3, OwesNothing, BaseQuiet

LEMMA BaseBegin ==
    ASSUME BaseInv, NEW w \in Workers, Begin(w)
    PROVE  BaseInv'
<1> RunTypeOK /\ Unborn /\ Fits(w) /\ StoreTypeOK
  BY DEF BaseInv, RunTypeOK
<1>1. PICK r \in Runs : r = job[w].run
  BY BeginFacts
<1>2. PICK s \in Steps : s = job[w].step
  BY BeginFacts
<1>3. /\ Moves(w) /\ Framed /\ effects' = effects
      /\ Wrote(r, s, "started")
      /\ job'[w].pc = "begun" /\ job'[w].run = r /\ job'[w].step = s
      /\ job'[w].intent = Len(journal[r][s]) + 1
  BY <1>1, <1>2, BeginFacts DEF Keeps
<1>4. "started" \in Rows /\ 0 \notin Runs
  BY DEF Rows, Runs
<1>5. Len(journal'[r][s]) = Len(journal[r][s]) + 1 /\ Len(journal[r][s]) \in Nat
  BY <1>3, <1>4, WroteFacts, RowsFacts
<1>6. state[r] # "ABSENT" /\ state'[r] # "ABSENT"
  BY <1>1, <1>3, <1>4 DEF Fits, Framed
<1>7. Fits(w)'
  BY <1>3, <1>4, <1>5, <1>6 DEF Fits, InFlight, At
<1>8. QED
  BY <1>3, <1>4, <1>6, <1>7, OwesNothing, BaseWrote

LEMMA BaseBeginUnjournaled ==
    ASSUME BaseInv, NEW w \in Workers, BeginUnjournaled(w)
    PROVE  BaseInv'
<1> RunTypeOK /\ Unborn /\ Fits(w) /\ StoreTypeOK
  BY DEF BaseInv, RunTypeOK
<1>1. PICK s \in Steps : s = job[w].step
  BY BeginUnjournaledFacts
<1>2. /\ Moves(w) /\ Framed /\ Keeps(w) /\ effects' = effects
      /\ job'[w].pc = "begun" /\ job'[w].step = s /\ job'[w].intent = 0
      /\ \/ journal' = journal
         \/ job[w].run \in Runs /\ Wrote(job[w].run, s, "started")
  BY <1>1, BeginUnjournaledFacts
<1>3. job[w].run # 0 => job[w].run \in Runs /\ state[job[w].run] # "ABSENT"
  BY DEF RunTypeOK, Job, Fits
<1>4. job'[w].run = job[w].run
  BY <1>2 DEF Keeps
<1>5. job'[w].run # 0 => state'[job'[w].run] # "ABSENT"
  BY <1>2, <1>3, <1>4 DEF Framed
<1>6. Fits(w)'
  BY <1>2, <1>5 DEF Fits, InFlight, At
<1>7. "started" \in Rows /\ 0 \notin Runs
  BY DEF Rows, Runs
<1>8. CASE journal' = journal
  BY <1>2, <1>6, <1>8, OwesNothing, BaseQuiet
<1>9. CASE job[w].run \in Runs /\ Wrote(job[w].run, s, "started")
  BY <1>2, <1>3, <1>6, <1>7, <1>9, OwesNothing, BaseWrote
<1>10. QED
  BY <1>2, <1>8, <1>9

\* A call: a success takes effect before it is owed.
LEMMA BaseCall ==
    ASSUME BaseInv, NEW w \in Workers, NEW result \in CallResults, Call(w, result)
    PROVE  BaseInv'
<1> RunTypeOK /\ Unborn /\ Fits(w) /\ StoreTypeOK
  BY DEF BaseInv, RunTypeOK
<1>1. PICK s \in Steps : s = job[w].step
  BY CallFacts
<1>2. /\ Moves(w) /\ Framed /\ Keeps(w) /\ journal' = journal /\ job[w].pc = "begun"
      /\ job'[w].pc = "answered" /\ job'[w].step = s
      /\ job'[w].intent = job[w].intent /\ job'[w].result = result
  BY <1>1, CallFacts
<1>3. Grows
  BY <1>2, QuietGrows
<1>4. Fits(w)'
  <2>1. job[w].run # 0 => job[w].run \in Runs /\ state[job[w].run] # "ABSENT"
    BY DEF RunTypeOK, Job, Fits
  <2>2. job'[w].run = job[w].run
    BY <1>2 DEF Keeps
  <2>3. job'[w].run # 0 => state'[job'[w].run] # "ABSENT"
    BY <1>2, <2>1, <2>2 DEF Framed
  <2>4. job'[w].intent # 0 =>
           job'[w].run # 0 /\ job'[w].intent <= Len(journal'[job'[w].run][job'[w].step])
    BY <1>1, <1>2, <2>2 DEF Fits
  <2>5. QED
    BY <1>2, <2>3, <2>4 DEF Fits, InFlight, At
<1>5. CASE job[w].run = 0
  <2>1. effects' = effects
    BY <1>5, CallFacts
  <2>2. \A r \in Runs, q \in Steps : ~Owed(w, r, q)'
    BY <1>2, <1>5 DEF Owed, Keeps, Runs
  <2>3. QED
    BY <1>2, <1>4, <2>1, <2>2, BaseQuiet
<1>6. CASE job[w].run # 0
  <2>1. PICK r \in Runs : r = job[w].run
    BY <1>6 DEF RunTypeOK, Job
  <2>2. PICK n \in {0, 1} : /\ result = "ok" => n = 1
                            /\ effects' = [effects EXCEPT ![r][s] = @ + n]
    BY <1>1, <1>6, <2>1, CallFacts
  <2>3. /\ effects' \in [Runs -> [Steps -> Nat]]
        /\ effects'[r][s] = effects[r][s] + n
        /\ \A p \in Runs, q \in Steps : p # r \/ q # s => effects'[p][q] = effects[p][q]
    BY <2>2 DEF RunTypeOK
  <2>4. RunTypeOK'
    BY <1>2, <2>3 DEF RunTypeOK, StoreTypeOK, Framed, Moves
  <2>5. ASSUME NEW v \in Workers PROVE Fits(v)'
    <3>1. v # w => job'[v] = job[v] /\ Fits(v)
      BY <1>2 DEF Moves, BaseInv
    <3>2. v # w => Fits(v)'
      BY <1>2, <1>3, <3>1, FitsKept
    <3>3. QED
      BY <1>4, <3>2
  <2>6. state[r] # "ABSENT"
    BY <1>6, <2>1 DEF Fits
  <2>7. Unborn'
    <3>1. ASSUME NEW p \in Runs, NEW q \in Steps
          PROVE  /\ state'[p] = "ABSENT" => journal'[p][q] = <<>> /\ effects'[p][q] = 0
                 /\ Latest(p, q)' # "never_ran"
      <4>1. state'[p] = "ABSENT" => state[p] = "ABSENT" /\ p # r
        BY <1>2, <2>6 DEF Framed
      <4>2. Latest(p, q)' = Latest(p, q)
        BY <1>2 DEF Latest
      <4>3. QED
        BY <1>2, <2>3, <4>1, <4>2 DEF Unborn
    <3>2. QED
      BY <3>1 DEF Unborn
  <2>8. ASSUME NEW p \in Runs, NEW q \in Steps PROVE Paid(p, q)'
    <3>1. Paid(p, q)
      BY DEF BaseInv
    <3>2. CASE p # r \/ q # s
      <4>1. ~Owed(w, p, q)' /\ journal'[p][q] = journal[p][q]
               /\ effects'[p][q] = effects[p][q]
        BY <1>2, <2>1, <2>3, <3>2 DEF Owed, Keeps
      <4>2. QED
        BY <1>2, <3>1, <4>1, PaidKept
    <3>3. CASE p = r /\ q = s
      <4>1. PICK c \in Nat : c = Cardinality(OkRows(r, s))
        BY Counts
      <4>2. PICK e \in Nat : e = effects[r][s]
        BY Counts
      <4>3. OkRows(r, s)' = OkRows(r, s)
        BY <1>2 DEF OkRows
      <4>4. c <= e /\ effects'[r][s] = e + n
        BY <2>3, <3>1, <3>3, <4>1, <4>2 DEF Paid
      <4>5. ASSUME NEW v \in Workers, Owed(v, r, s)' PROVE c + 1 <= e + n
        <5>1. CASE v = w
          <6>1. result = "ok"
            BY <1>2, <4>5, <5>1 DEF Owed
          <6>2. QED
            BY <2>2, <4>4, <6>1
        <5>2. CASE v # w
          <6>1. job'[v] = job[v]
            BY <1>2, <5>2 DEF Moves
          <6>2. Owed(v, r, s)
            BY <1>2, <4>5, <6>1 DEF Owed
          <6>3. c + 1 <= e
            BY <3>1, <3>3, <4>1, <4>2, <6>2 DEF Paid
          <6>4. QED
            BY <6>3
        <5>3. QED
          BY <5>1, <5>2
      <4>6. Cardinality(OkRows(r, s)') <= effects'[r][s]
        BY <4>1, <4>3, <4>4
      <4>7. (\E v \in Workers : Owed(v, r, s)') =>
               Cardinality(OkRows(r, s)') + 1 <= effects'[r][s]
        BY <4>1, <4>3, <4>4, <4>5
      <4>8. QED
        BY <3>3, <4>6, <4>7 DEF Paid
    <3>4. QED
      BY <3>2, <3>3
  <2>9. QED
    BY <2>4, <2>5, <2>7, <2>8 DEF BaseInv
<1>7. QED
  BY <1>5, <1>6

LEMMA BaseFence ==
    ASSUME BaseInv, NEW w \in Workers, FenceAnswer(w)
    PROVE  BaseInv'
<1> RunTypeOK /\ Unborn /\ Fits(w) /\ StoreTypeOK
  BY DEF BaseInv, RunTypeOK
<1>1. /\ Moves(w) /\ Framed /\ job'[w].run = job[w].run
      /\ job[w].pc = "answered" /\ job'[w].pc = "called"
      /\ job'[w].step = job[w].step /\ job'[w].intent = job[w].intent
      /\ job'[w].result \in {"stale", job[w].result}
      /\ UNCHANGED <<state, journal, effects>>
  BY FenceAnswerFacts DEF Keeps
<1>2. "stale" \in CallResults
  BY DEF CallResults
<1>3. Fits(w)'
  BY <1>1, <1>2 DEF Fits, InFlight, At
<1>4. \A r \in Runs, s \in Steps : Owed(w, r, s)' => Owed(w, r, s)
  BY <1>1 DEF Owed
<1>5. QED
  BY <1>1, <1>3, <1>4, BaseQuiet

LEMMA BaseRecord ==
    ASSUME BaseInv, NEW w \in Workers, Record(w)
    PROVE  BaseInv'
<1> RunTypeOK /\ Unborn /\ Fits(w) /\ StoreTypeOK
  BY DEF BaseInv, RunTypeOK
<1>1. PICK s \in Steps : s = job[w].step
  BY RecordMoves
<1>2. PICK r \in Runs \cup {0} : r = job[w].run
  BY DEF RunTypeOK, Job
<1>3. PICK o \in Rows : o = OutcomeOf(job[w].result)
  BY DEF OutcomeOf, Rows, Decided
<1>4. /\ Moves(w) /\ Keeps(w) /\ job'[w].intent = 0 /\ job[w].pc = "called"
      /\ job'[w].pc \in {"next", "ending"}
  BY RecordMoves
<1>5. /\ Framed /\ effects' = effects
      /\ job[w].intent # 0 => r \in Runs
      /\ \/ journal' = journal
         \/ job[w].intent # 0 /\ Len(journal[r][s]) = job[w].intent /\ Wrote(r, s, o)
  BY <1>1, <1>2, <1>3, RecordFacts
<1>6. Fits(w)'
  BY <1>4, <1>5, FitsGoing
<1>7. CASE journal' = journal
  BY <1>4, <1>5, <1>6, <1>7, OwesNothing, BaseQuiet
<1>8. CASE job[w].intent # 0 /\ Len(journal[r][s]) = job[w].intent /\ Wrote(r, s, o)
  <2>1. o # "never_ran" /\ (o = "executed_ok" => job[w].result = "ok")
    BY <1>3 DEF OutcomeOf
  <2>2. o = "executed_ok" => Owed(w, r, s)
    BY <1>1, <1>2, <1>4, <1>8, <2>1 DEF Owed
  <2>3. r \in Runs /\ state[r] # "ABSENT"
    BY <1>2, <1>5, <1>8 DEF Fits
  <2>4. QED
    BY <1>4, <1>5, <1>6, <1>8, <2>1, <2>2, <2>3, OwesNothing, BaseWrote
<1>9. QED
  BY <1>5, <1>7, <1>8

LEMMA BaseLeave ==
    ASSUME BaseInv, NEW w \in Workers, Finish(w) \/ Crash(w)
    PROVE  BaseInv'
<1> RunTypeOK /\ Unborn /\ Fits(w) /\ StoreTypeOK
  BY DEF BaseInv, RunTypeOK
<1>1. Moves(w) /\ Framed /\ job'[w] = Idle /\ UNCHANGED <<journal, effects>>
  BY FinishFacts, CrashFacts
<1>2. Fits(w)' /\ job'[w].pc \notin {"answered", "called"}
  BY <1>1, IdleFacts DEF Fits, InFlight, At
<1>3. QED
  BY <1>1, <1>2, OwesNothing, BaseQuiet

\* Only the lease, or only the state of a run, changes.
LEMMA BaseStill ==
    ASSUME BaseInv, Framed, UNCHANGED <<job, journal, effects>>
    PROVE  BaseInv'
<1> RunTypeOK /\ Unborn /\ StoreTypeOK
  BY DEF BaseInv, RunTypeOK
<1>1. Grows
  BY QuietGrows
<1>2. RunTypeOK'
  BY DEF RunTypeOK, StoreTypeOK, Framed
<1>3. ASSUME NEW v \in Workers PROVE Fits(v)'
  BY <1>1, FitsKept DEF BaseInv
<1>4. Unborn'
  BY DEF Unborn, Framed, Latest
<1>5. ASSUME NEW r \in Runs, NEW s \in Steps PROVE Paid(r, s)'
  <2>1. Paid(r, s)
    BY DEF BaseInv
  <2>2. OkRows(r, s)' = OkRows(r, s)
    BY DEF OkRows
  <2>3. \A v \in Workers : Owed(v, r, s)' = Owed(v, r, s)
    BY DEF Owed
  <2>4. QED
    BY <2>1, <2>2, <2>3 DEF Paid
<1>6. QED
  BY <1>2, <1>3, <1>4, <1>5 DEF BaseInv

LEMMA BaseNext == BaseInv /\ [Next]_vars => BaseInv'
<1> SUFFICES ASSUME BaseInv, [Next]_vars PROVE BaseInv'
  OBVIOUS
<1> RunTypeOK /\ Unborn /\ StoreTypeOK
  BY DEF BaseInv, RunTypeOK
<1>1. ASSUME NEW w \in Workers, WorkerStep(w) PROVE BaseInv'
  <2>1. CASE Fires(w) \/ RunOnce(w) \/ ResumeOrphan(w) \/ CreateRun(w) \/ StartRun(w)
                \/ OpenFails(w)
    BY <2>1, BaseOpen
  <2>2. CASE Completed(w) \/ TimeOut(w)
    BY <2>2, BaseBetween
  <2>3. CASE Begin(w)
    BY <2>3, BaseBegin
  <2>4. CASE BeginUnjournaled(w)
    BY <2>4, BaseBeginUnjournaled
  <2>5. CASE \E result \in CallResults : Call(w, result)
    BY <2>5, BaseCall
  <2>6. CASE FenceAnswer(w)
    BY <2>6, BaseFence
  <2>7. CASE Record(w)
    BY <2>7, BaseRecord
  <2>8. CASE Finish(w)
    BY <2>8, BaseLeave
  <2>9. CASE Hold(w)
    BY <2>9, HoldFacts, BaseStill
  <2>10. QED
    BY <1>1, <2>1, <2>2, <2>3, <2>4, <2>5, <2>6, <2>7, <2>8, <2>9 DEF WorkerStep, Fires
<1>2. ASSUME NEW w \in Workers, Crash(w) PROVE BaseInv'
  BY <1>2, BaseLeave
<1>3. ASSUME NEW w \in Workers, Lapse(w) PROVE BaseInv'
  BY <1>3, LapseFacts, BaseStill
<1>4. ASSUME NEW r \in Runs, Operator(r) PROVE BaseInv'
  BY <1>4, OperatorFacts, BaseStill
<1>5. CASE UNCHANGED vars
  <2>1. UNCHANGED <<state, journal, job, holder, effects, events, exposed>>
    BY <1>5 DEF vars
  <2>2. Framed
    BY <2>1 DEF Framed, RunTypeOK, StoreTypeOK
  <2>3. QED
    BY <2>1, <2>2, BaseStill
<1>6. CASE Replace
  BY <1>6, HoldFacts, BaseStill
<1>7. QED
  BY <1>1, <1>2, <1>3, <1>4, <1>5, <1>6 DEF Next

-----------------------------------------------------------------------------
(* Without retries within a trigger.                                        *)

\* The others keep what is ahead of them: effects on a run that is not exposed
\* come from the holder of the lease alone.
LEMMA OnceStep ==
    ASSUME BaseInv, OnceInv, NEW w \in Workers, Moves(w), Framed, Grows, NoneGains(w),
           \A r \in Runs : r \in exposed' \/ holder' = w \/ effects'[r] = effects[r],
           \A r \in Runs \ exposed' : Ordered(r)',
           Ahead(w)'
    PROVE  OnceInv'
<1>1. ASSUME NEW v \in Workers, v # w PROVE Ahead(v)'
  <2>1. job'[v] = job[v]
    BY <1>1 DEF Moves
  <2>2. PICK x \in Job : x = job[v]
    BY DEF BaseInv, RunTypeOK
  <2>3. SUFFICES ASSUME x.run # 0, x.run \notin exposed' PROVE Ahead(v)'
    BY <2>1, <2>2 DEF Ahead
  <2>4. x.run \in Runs /\ x.run \notin exposed
    BY <2>3 DEF Framed, Job
  <2>5. holder' = v => holder = v /\ effects'[x.run] = effects[x.run]
    BY <1>1, <2>3, <2>4 DEF NoneGains
  <2>6. Ahead(v)
    BY DEF OnceInv
  <2>7. Fits(v)
    BY DEF BaseInv
  <2>8. \A s \in Steps : journal[x.run][s] # <<>> => journal'[x.run][s] # <<>>
    BY <2>4 DEF Grows
  <2>9. x.leased
    BY <2>2, <2>3, <2>4, <2>6 DEF Ahead
  <2>10. x.pc \in {"next", "begun", "answered", "called"} =>
            \A s \in Steps : s < x.step => journal'[x.run][s] # <<>>
    BY <2>2, <2>3, <2>4, <2>6, <2>8 DEF Ahead
  <2>11. InFlight(v) => journal'[x.run][x.step] # <<>>
    BY <2>2, <2>3, <2>4, <2>6, <2>7, <2>8 DEF Ahead, Fits
  <2>12. holder' = v /\ x.pc \in {"created", "next", "begun"} =>
            \A s \in Steps : s >= x.step => effects'[x.run][s] = 0
    BY <2>2, <2>3, <2>4, <2>5, <2>6 DEF Ahead
  <2>13. holder' = v /\ x.pc \in {"answered", "called"} =>
            \A s \in Steps : s > x.step => effects'[x.run][s] = 0
    BY <2>2, <2>3, <2>4, <2>5, <2>6 DEF Ahead
  <2>14. QED
    BY <2>1, <2>2, <2>9, <2>10, <2>11, <2>12, <2>13 DEF Ahead, InFlight
<1>2. QED
  BY <1>1 DEF OnceInv

LEMMA OrderedQuiet ==
    ASSUME OnceInv, Framed, UNCHANGED <<journal, effects>>
    PROVE  \A r \in Runs \ exposed' : Ordered(r)'
<1> SUFFICES ASSUME NEW r \in Runs \ exposed' PROVE Ordered(r)'
  OBVIOUS
<1>1. Ordered(r)
  BY DEF OnceInv, Framed
<1>2. QED
  BY <1>1 DEF Ordered

LEMMA OrderedWrote ==
    ASSUME BaseInv, OnceInv, Framed, effects' = effects,
           NEW r \in Runs, NEW s \in Steps, NEW o \in Rows, Wrote(r, s, o),
           r \notin exposed' => \A q \in Steps : q < s => journal[r][q] # <<>>
    PROVE  \A p \in Runs \ exposed' : Ordered(p)'
<1> SUFFICES ASSUME NEW p \in Runs \ exposed' PROVE Ordered(p)'
  OBVIOUS
<1>1. Ordered(p)
  BY DEF OnceInv, Framed
<1>2. /\ \A q \in Steps : journal[p][q] # <<>> => journal'[p][q] # <<>>
      /\ \A q \in Steps : p # r \/ q # s => journal'[p][q] = journal[p][q]
  BY WroteFacts DEF BaseInv, RunTypeOK
<1>3. ASSUME NEW q \in Steps
      PROVE  /\ effects'[p][q] <= 1
             /\ effects'[p][q] > 0 => journal'[p][q] # <<>>
             /\ journal'[p][q] # <<>> => \A u \in Steps : u < q => journal'[p][u] # <<>>
  <2>1. effects'[p][q] <= 1 /\ (effects'[p][q] > 0 => journal'[p][q] # <<>>)
    BY <1>1, <1>2 DEF Ordered
  <2>2. journal'[p][q] # <<>> => \A u \in Steps : u < q => journal[p][u] # <<>>
    BY <1>1, <1>2 DEF Ordered
  <2>3. QED
    BY <1>2, <2>1, <2>2
<1>4. QED
  BY <1>3 DEF Ordered

\* A worker without a run has nothing ahead.
LEMMA AheadIdle ==
    ASSUME NEW w, job'[w].run = 0 \/ job'[w].run \in exposed'
    PROVE  Ahead(w)'
BY DEF Ahead

LEMMA OnceInit == Init => OnceInv
<1> SUFFICES ASSUME Init PROVE OnceInv
  OBVIOUS
<1>1. \A w \in Workers : job[w].run = 0
  BY IdleFacts DEF Init
<1>2. \A r \in Runs, s \in Steps : journal[r][s] = <<>> /\ effects[r][s] = 0
  BY DEF Init, StoreInit
<1>3. \A r \in Runs : Ordered(r)
  BY <1>2 DEF Ordered
<1>4. QED
  BY <1>1, <1>3 DEF OnceInv, Ahead

LEMMA OnceOpen ==
    ASSUME BaseInv, OnceInv, NEW w \in Workers,
           Fires(w) \/ RunOnce(w) \/ CreateRun(w) \/ StartRun(w) \/ OpenFails(w)
    PROVE  OnceInv'
<1> RunTypeOK /\ Unborn /\ Fits(w) /\ StoreTypeOK
  BY DEF BaseInv, RunTypeOK
<1>1. Moves(w) /\ Framed /\ UNCHANGED <<journal, effects>> /\ NoneGains(w)
  BY FireFacts, RunOnceFacts, CreateRunFacts, StartRunFacts, OpenFailsFacts DEF NoneGains
<1>2. Grows /\ \A r \in Runs \ exposed' : Ordered(r)'
  BY <1>1, QuietGrows, OrderedQuiet
<1>3. Ahead(w)'
  <2>1. CASE Fires(w) \/ RunOnce(w) \/ OpenFails(w)
    <3>1. job'[w].run = job[w].run /\ job[w].pc \in {"idle", "opening"}
      BY <2>1, FireFacts, RunOnceFacts, OpenFailsFacts DEF Keeps
    <3>2. QED
      BY <3>1, AheadIdle DEF Fits
  <2>2. CASE CreateRun(w)
    <3>1. PICK r \in Runs : r = job'[w].run
      BY <2>2, CreateRunFacts
    <3>2. /\ state[r] = "ABSENT" /\ job'[w].pc = "created"
          /\ job'[w].leased \/ r \in exposed'
      BY <2>2, <3>1, CreateRunFacts
    <3>3. \A s \in Steps : effects'[r][s] = 0
      BY <1>1, <3>2 DEF Unborn
    <3>4. QED
      BY <3>1, <3>2, <3>3 DEF Ahead, InFlight
  <2>3. CASE StartRun(w)
    <3>1. /\ job[w].pc = "created" /\ job'[w].pc = "next"
          /\ job'[w].run = job[w].run /\ job'[w].leased = job[w].leased
          /\ job'[w].step = job[w].step
          /\ UNCHANGED <<holder, exposed>>
      BY <2>3, StartRunFacts
    <3>2. job[w].step = 1
      BY <3>1 DEF Fits
    <3>3. \A s \in Steps : ~(s < 1)
      BY DEF Steps
    <3>4. Ahead(w)
      BY DEF OnceInv
    <3>5. QED
      BY <1>1, <3>1, <3>2, <3>3, <3>4 DEF Ahead, InFlight
  <2>4. QED
    BY <2>1, <2>2, <2>3
<1>4. QED
  BY <1>1, <1>2, <1>3, OnceStep

\* The resumed run starts at a step without a row, so nothing from there on took
\* effect.
LEMMA OnceResume ==
    ASSUME BaseInv, OnceInv, NEW w \in Workers, ResumeOrphan(w)
    PROVE  OnceInv'
<1> RunTypeOK /\ Unborn /\ Fits(w) /\ StoreTypeOK
  BY DEF BaseInv, RunTypeOK
<1>1. PICK r \in Runs : r = Orphan
  BY ResumeOrphanFacts
<1>2. PICK p : p = ResumePoint(r, {})
  OBVIOUS
<1>3. /\ Moves(w) /\ Framed /\ UNCHANGED <<journal, holder, effects>>
      /\ job'[w].run = r /\ job'[w].leased = job[w].leased
      /\ job[w].leased \/ r \in exposed'
      /\ Doubtful(r, {}) => job'[w].pc = "ending"
      /\ ~Doubtful(r, {}) => job'[w].pc = "next" /\ job'[w].step = p
  BY <1>1, <1>2, ResumeOrphanFacts
<1>4. NoneGains(w) /\ Grows /\ \A q \in Runs \ exposed' : Ordered(q)'
  BY <1>3, QuietGrows, OrderedQuiet DEF NoneGains
<1>5. Ahead(w)'
  <2>1. CASE r \in exposed'
    BY <1>3, <2>1, AheadIdle
  <2>2. CASE r \notin exposed' /\ Doubtful(r, {})
    BY <1>3, <2>2 DEF Ahead, InFlight
  <2>3. CASE r \notin exposed' /\ ~Doubtful(r, {})
    <3>1. /\ p \in 1..Calls + 1
          /\ \A s \in Steps : s < p => Complete(r, s)
          /\ p \in Steps => journal[r][p] = <<>>
      BY <1>2, <2>3, Stops
    <3>2. \A s \in Steps : Complete(r, s) => journal[r][s] # <<>>
      BY DEF Complete, Latest
    <3>3. Ordered(r)
      BY <1>3, <2>3 DEF OnceInv, Framed
    <3>4. ASSUME NEW s \in Steps, s >= p PROVE effects[r][s] = 0
      <4>1. p \in Steps /\ journal[r][p] = <<>>
        BY <3>1, <3>4, StoreSizes DEF Steps
      <4>2. journal[r][s] = <<>>
        BY <3>3, <3>4, <4>1 DEF Ordered, Steps
      <4>3. effects[r][s] \in Nat
        BY DEF RunTypeOK
      <4>4. QED
        BY <3>3, <4>2, <4>3 DEF Ordered
    <3>5. QED
      BY <1>3, <2>3, <3>1, <3>2, <3>4 DEF Ahead, InFlight
  <2>4. QED
    BY <2>1, <2>2, <2>3
<1>6. QED
  BY <1>3, <1>4, <1>5, OnceStep

LEMMA OnceBetween ==
    ASSUME BaseInv, OnceInv, MaxRetries = 0, NEW w \in Workers, Completed(w) \/ TimeOut(w)
    PROVE  OnceInv'
<1> RunTypeOK /\ Unborn /\ Fits(w) /\ StoreTypeOK
  BY DEF BaseInv, RunTypeOK
<1>1. /\ Moves(w) /\ Framed /\ Keeps(w) /\ job'[w].pc = "ending"
      /\ UNCHANGED <<journal, effects, holder, exposed>>
  BY CompletedFacts, TimeOutFacts
<1>2. NoneGains(w) /\ Grows /\ \A q \in Runs \ exposed' : Ordered(q)'
  BY <1>1, QuietGrows, OrderedQuiet DEF NoneGains
<1>3. Ahead(w)'
  BY <1>1 DEF OnceInv, Ahead, InFlight, Keeps
<1>4. QED
  BY <1>1, <1>2, <1>3, OnceStep

LEMMA OnceBegin ==
    ASSUME BaseInv, OnceInv, NEW w \in Workers, Begin(w)
    PROVE  OnceInv'
<1> RunTypeOK /\ Unborn /\ Fits(w) /\ StoreTypeOK
  BY DEF BaseInv, RunTypeOK
<1>1. PICK r \in Runs : r = job[w].run
  BY BeginFacts
<1>2. PICK s \in Steps : s = job[w].step
  BY BeginFacts
<1>3. /\ Moves(w) /\ Framed /\ UNCHANGED <<effects, holder, exposed>>
      /\ Wrote(r, s, "started") /\ job[w].pc = "next"
      /\ job'[w].pc = "begun" /\ job'[w].run = r /\ job'[w].step = s
      /\ job'[w].leased = job[w].leased
  BY <1>1, <1>2, BeginFacts DEF Keeps
<1>4. "started" \in Rows /\ 0 \notin Runs
  BY DEF Rows, Runs
<1>5. NoneGains(w) /\ Grows
  BY <1>3, <1>4, WroteGrows DEF NoneGains
<1>6. Ahead(w)
  BY DEF OnceInv
<1>7. r \notin exposed' => \A q \in Steps : q < s => journal[r][q] # <<>>
  BY <1>1, <1>2, <1>3, <1>4, <1>6 DEF Ahead
<1>8. \A q \in Runs \ exposed' : Ordered(q)'
  BY <1>3, <1>4, <1>7, OrderedWrote
<1>9. journal'[r][s] # <<>> /\ \A q \in Steps : journal[r][q] # <<>> => journal'[r][q] # <<>>
  BY <1>3, <1>4, WroteFacts
<1>10. Ahead(w)'
  BY <1>1, <1>2, <1>3, <1>4, <1>6, <1>7, <1>9 DEF Ahead, InFlight
<1>11. QED
  BY <1>3, <1>5, <1>8, <1>10, OnceStep

LEMMA OnceBeginUnjournaled ==
    ASSUME BaseInv, OnceInv, NEW w \in Workers, BeginUnjournaled(w)
    PROVE  OnceInv'
<1> RunTypeOK /\ Unborn /\ Fits(w) /\ StoreTypeOK
  BY DEF BaseInv, RunTypeOK
<1>1. PICK s \in Steps : s = job[w].step
  BY BeginUnjournaledFacts
<1>2. /\ Moves(w) /\ Framed /\ UNCHANGED <<effects, holder>>
      /\ job'[w].run = job[w].run
      /\ \/ job[w].run = 0 /\ journal' = journal
         \/ /\ job[w].run \in Runs /\ job[w].run \in exposed'
            /\ journal' = journal \/ Wrote(job[w].run, s, "started")
  BY <1>1, BeginUnjournaledFacts DEF Keeps
<1>3. "started" \in Rows
  BY DEF Rows
<1>4. Ahead(w)' /\ NoneGains(w)
  BY <1>2, AheadIdle DEF NoneGains
<1>5. CASE journal' = journal
  BY <1>2, <1>4, <1>5, QuietGrows, OrderedQuiet, OnceStep
<1>6. CASE job[w].run \in Runs /\ job[w].run \in exposed' /\ Wrote(job[w].run, s, "started")
  <2>1. Grows /\ \A q \in Runs \ exposed' : Ordered(q)'
    BY <1>2, <1>3, <1>6, WroteGrows, OrderedWrote
  <2>2. QED
    BY <1>2, <1>4, <2>1, OnceStep
<1>7. QED
  BY <1>2, <1>5, <1>6

\* Only the holder's call takes effect, and its step had none before.
LEMMA OnceCall ==
    ASSUME BaseInv, OnceInv, NEW w \in Workers, NEW result \in CallResults, Call(w, result)
    PROVE  OnceInv'
<1> RunTypeOK /\ Unborn /\ Fits(w) /\ StoreTypeOK
  BY DEF BaseInv, RunTypeOK
<1>1. PICK s \in Steps : s = job[w].step
  BY CallFacts
<1>2. PICK r \in Runs \cup {0} : r = job[w].run
  BY DEF RunTypeOK, Job
<1>0. /\ Moves(w) /\ Framed /\ Keeps(w) /\ UNCHANGED <<journal, holder, exposed>>
      /\ job[w].pc = "begun" /\ job'[w].pc = "answered" /\ job'[w].step = job[w].step
      /\ result = "stale" <=> job[w].leased /\ holder # w
      /\ job[w].run = 0 => effects' = effects
  BY CallFacts
<1>3. /\ Moves(w) /\ Framed /\ UNCHANGED <<journal, holder, exposed>>
      /\ job[w].pc = "begun" /\ job'[w].pc = "answered" /\ job'[w].step = s
      /\ job'[w].run = r /\ job'[w].leased = job[w].leased
      /\ result = "stale" <=> job[w].leased /\ holder # w
      /\ r = 0 => effects' = effects
  BY <1>0, <1>1, <1>2 DEF Keeps
<1>4. NoneGains(w) /\ Grows
  BY <1>3, QuietGrows DEF NoneGains
<1>5. Ahead(w)
  BY DEF OnceInv
<1>6. CASE r = 0
  <2>1. effects' = effects
    BY <1>3, <1>6
  <2>2. Ahead(w)' /\ \A q \in Runs \ exposed' : Ordered(q)'
    BY <1>3, <1>6, <2>1, AheadIdle, OrderedQuiet
  <2>3. QED
    BY <1>3, <1>4, <2>1, <2>2, OnceStep
<1>7. CASE r # 0
  <2>1. r \in Runs
    BY <1>7
  <2>2. PICK n \in {0, 1} : /\ result = "stale" => n = 0
                            /\ effects' = [effects EXCEPT ![r][s] = @ + n]
    BY <1>1, <1>2, <1>7, CallFacts
  <2>3. /\ effects'[r][s] = effects[r][s] + n /\ effects[r][s] \in Nat
        /\ \A q \in Steps : q # s => effects'[r][q] = effects[r][q]
        /\ \A p \in Runs : p # r => effects'[p] = effects[p]
    BY <2>1, <2>2 DEF RunTypeOK
  <2>4. CASE r \in exposed
    <3>1. Ahead(w)'
      BY <1>3, <2>4, AheadIdle
    <3>2. ASSUME NEW p \in Runs \ exposed' PROVE Ordered(p)'
      <4>1. p # r /\ Ordered(p)
        BY <1>3, <2>4 DEF OnceInv
      <4>2. QED
        BY <1>3, <2>3, <4>1 DEF Ordered
    <3>3. QED
      BY <1>3, <1>4, <2>3, <2>4, <3>1, <3>2, OnceStep
  <2>5. CASE r \notin exposed
    <3>1. /\ job[w].leased
          /\ \A q \in Steps : q < s => journal[r][q] # <<>>
          /\ journal[r][s] # <<>>
          /\ holder = w => \A q \in Steps : q >= s => effects[r][q] = 0
      BY <1>1, <1>2, <1>3, <1>5, <1>7, <2>5 DEF Ahead, InFlight
    <3>2. holder # w => n = 0
      BY <1>3, <2>2, <3>1
    <3>3. holder = w => effects[r][s] = 0
      BY <3>1, <1>1, StoreSizes DEF Steps
    <3>4. effects'[r][s] <= 1
      <4>1. Ordered(r)
        BY <2>1, <2>5 DEF OnceInv
      <4>2. CASE holder = w
        BY <2>3, <3>3, <4>2
      <4>3. CASE holder # w
        BY <2>3, <3>2, <4>1, <4>3 DEF Ordered
      <4>4. QED
        BY <4>2, <4>3
    <3>5. ASSUME NEW p \in Runs \ exposed' PROVE Ordered(p)'
      <4>1. Ordered(p)
        BY <1>3 DEF OnceInv
      <4>2. CASE p # r
        BY <1>3, <2>3, <4>1, <4>2 DEF Ordered
      <4>3. CASE p = r
        <5>1. ASSUME NEW q \in Steps
              PROVE  effects'[r][q] <= 1 /\ (effects'[r][q] > 0 => journal[r][q] # <<>>)
          <6>1. CASE q = s
            BY <3>1, <3>4, <6>1
          <6>2. CASE q # s
            BY <2>3, <4>1, <4>3, <6>2 DEF Ordered
          <6>3. QED
            BY <6>1, <6>2
        <5>2. QED
          BY <1>3, <4>1, <4>3, <5>1 DEF Ordered
      <4>4. QED
        BY <4>2, <4>3
    <3>6. ASSUME NEW p \in Runs PROVE holder' = w \/ effects'[p] = effects[p]
      <4>1. CASE n = 0
        <5>1. effects[r] \in [Steps -> Nat] /\ effects'[r] \in [Steps -> Nat]
          BY <2>1, <2>2 DEF RunTypeOK
        <5>2. \A q \in Steps : effects'[r][q] = effects[r][q]
          BY <2>3, <4>1
        <5>3. effects'[r] = effects[r]
          BY <5>1, <5>2
        <5>4. QED
          BY <2>3, <5>3
      <4>2. CASE n # 0
        BY <1>3, <3>2, <4>2
      <4>3. QED
        BY <4>1, <4>2
    <3>7. holder = w => \A q \in Steps : q > s => effects'[r][q] = 0
      <4>1. \A q \in Steps : q > s => q >= s /\ q # s
        BY DEF Steps
      <4>2. QED
        BY <2>3, <3>1, <4>1
    <3>8. Ahead(w)'
      BY <1>3, <3>1, <3>7 DEF Ahead, InFlight
    <3>9. QED
      BY <1>3, <1>4, <3>5, <3>6, <3>8, OnceStep
  <2>6. QED
    BY <2>4, <2>5
<1>8. QED
  BY <1>6, <1>7

LEMMA OnceFence ==
    ASSUME BaseInv, OnceInv, NEW w \in Workers, FenceAnswer(w)
    PROVE  OnceInv'
<1> RunTypeOK /\ Unborn /\ Fits(w) /\ StoreTypeOK
  BY DEF BaseInv, RunTypeOK
<1>1. /\ Moves(w) /\ Framed /\ Keeps(w) /\ UNCHANGED <<journal, effects, holder, exposed>>
      /\ job[w].pc = "answered" /\ job'[w].pc = "called" /\ job'[w].step = job[w].step
  BY FenceAnswerFacts
<1>2. NoneGains(w) /\ Grows /\ \A q \in Runs \ exposed' : Ordered(q)'
  BY <1>1, QuietGrows, OrderedQuiet DEF NoneGains
<1>3. Ahead(w)
  BY DEF OnceInv
<1>4. Ahead(w)'
  BY <1>1, <1>3 DEF Ahead, InFlight, Keeps
<1>5. QED
  BY <1>1, <1>2, <1>4, OnceStep

LEMMA OnceRecord ==
    ASSUME BaseInv, OnceInv, MaxRetries = 0, NEW w \in Workers, Record(w)
    PROVE  OnceInv'
<1> RunTypeOK /\ Unborn /\ Fits(w) /\ StoreTypeOK
  BY DEF BaseInv, RunTypeOK
<1>1. PICK s \in Steps : s = job[w].step
  BY RecordMoves
<1>2. PICK r \in Runs \cup {0} : r = job[w].run
  BY DEF RunTypeOK, Job
<1>3. PICK o \in Rows : o = OutcomeOf(job[w].result)
  BY DEF OutcomeOf, Rows, Decided
<1>4. /\ Moves(w) /\ job[w].pc = "called"
      /\ job'[w].run = r /\ job'[w].leased = job[w].leased
      /\ job'[w].pc = "ending" \/ (job'[w].pc = "next" /\ job'[w].step = s + 1)
  BY <1>1, <1>2, RecordMoves DEF Keeps
<1>5. /\ Framed /\ UNCHANGED <<holder, effects>>
      /\ \/ journal' = journal
         \/ r \in Runs /\ Wrote(r, s, o)
      /\ exposed' = exposed \/ (exposed' = exposed \cup {r} /\ journal' = journal)
  BY <1>1, <1>2, <1>3, RecordFacts
<1>6. NoneGains(w) /\ Grows
  BY <1>5, QuietGrows, WroteGrows DEF NoneGains
<1>7. Ahead(w)
  BY DEF OnceInv
<1>8. r # 0 /\ r \notin exposed' =>
         /\ job[w].leased
         /\ \A q \in Steps : q <= s => journal[r][q] # <<>>
         /\ holder = w => \A q \in Steps : q > s => effects[r][q] = 0
  <2>1. \A q \in Steps : q <= s => q < s \/ q = s
    BY DEF Steps
  <2>2. QED
    BY <1>1, <1>2, <1>4, <1>5, <1>7, <2>1 DEF Ahead, InFlight
<1>9. Ahead(w)'
  <2>1. CASE r = 0 \/ r \in exposed'
    BY <1>4, <2>1, AheadIdle
  <2>2. CASE r # 0 /\ r \notin exposed'
    <3>1. \A q \in Steps : journal[r][q] # <<>> => journal'[r][q] # <<>>
      BY <1>6, <2>2 DEF Grows
    <3>2. \A q \in Steps : (q < s + 1 => q <= s) /\ (q >= s + 1 => q > s)
      BY <1>1 DEF Steps
    <3>3. /\ \A q \in Steps : q < s + 1 => journal'[r][q] # <<>>
          /\ holder' = w => \A q \in Steps : q >= s + 1 => effects'[r][q] = 0
      BY <1>5, <1>8, <2>2, <3>1, <3>2
    <3>4. QED
      BY <1>4, <1>8, <2>2, <3>3 DEF Ahead, InFlight
  <2>3. QED
    BY <2>1, <2>2
<1>10. \A q \in Runs \ exposed' : Ordered(q)'
  <2>1. CASE journal' = journal
    BY <1>5, <2>1, OrderedQuiet
  <2>2. CASE r \in Runs /\ Wrote(r, s, o)
    <3>1. r # 0 /\ \A q \in Steps : q < s => q <= s
      BY <2>2 DEF Runs, Steps
    <3>2. r \notin exposed' => \A q \in Steps : q < s => journal[r][q] # <<>>
      BY <1>8, <3>1
    <3>3. QED
      BY <1>5, <2>2, <3>2, OrderedWrote
  <2>3. QED
    BY <1>5, <2>1, <2>2
<1>11. QED
  BY <1>4, <1>5, <1>6, <1>9, <1>10, OnceStep

LEMMA OnceLeave ==
    ASSUME BaseInv, OnceInv, NEW w \in Workers, Finish(w) \/ Crash(w)
    PROVE  OnceInv'
<1> RunTypeOK /\ Unborn /\ Fits(w) /\ StoreTypeOK
  BY DEF BaseInv, RunTypeOK
<1>1. Moves(w) /\ Framed /\ NoneGains(w) /\ job'[w] = Idle /\ UNCHANGED <<journal, effects>>
  BY FinishFacts, CrashFacts
<1>2. Ahead(w)' /\ Grows /\ \A q \in Runs \ exposed' : Ordered(q)'
  BY <1>1, IdleFacts, AheadIdle, QuietGrows, OrderedQuiet
<1>3. QED
  BY <1>1, <1>2, OnceStep

LEMMA OnceStill ==
    ASSUME OnceInv, Framed, UNCHANGED <<job, journal, effects, exposed>>,
           holder' \in {holder, Nobody}
    PROVE  OnceInv'
<1>1. \A q \in Runs \ exposed' : Ordered(q)'
  BY OrderedQuiet
<1>2. ASSUME NEW v \in Workers PROVE Ahead(v)'
  <2>1. Ahead(v) /\ (holder' = v => holder = v)
    BY WorkersAssumption DEF OnceInv
  <2>2. QED
    BY <2>1 DEF Ahead, InFlight
<1>3. QED
  BY <1>1, <1>2 DEF OnceInv

LEMMA OnceNext == BaseInv /\ OnceInv /\ MaxRetries = 0 /\ [Next]_vars => OnceInv'
<1> SUFFICES ASSUME BaseInv, OnceInv, MaxRetries = 0, [Next]_vars PROVE OnceInv'
  OBVIOUS
<1> RunTypeOK /\ Unborn /\ StoreTypeOK
  BY DEF BaseInv, RunTypeOK
<1>1. ASSUME NEW w \in Workers, WorkerStep(w) PROVE OnceInv'
  <2>1. CASE Fires(w) \/ RunOnce(w) \/ CreateRun(w) \/ StartRun(w) \/ OpenFails(w)
    BY <2>1, OnceOpen
  <2>2. CASE ResumeOrphan(w)
    BY <2>2, OnceResume
  <2>3. CASE Completed(w) \/ TimeOut(w)
    BY <2>3, OnceBetween
  <2>4. CASE Begin(w)
    BY <2>4, OnceBegin
  <2>5. CASE BeginUnjournaled(w)
    BY <2>5, OnceBeginUnjournaled
  <2>6. CASE \E result \in CallResults : Call(w, result)
    BY <2>6, OnceCall
  <2>7. CASE FenceAnswer(w)
    BY <2>7, OnceFence
  <2>8. CASE Record(w)
    BY <2>8, OnceRecord
  <2>9. CASE Finish(w)
    BY <2>9, OnceLeave
  <2>10. CASE Hold(w)
    BY <2>10, HoldFacts, OnceStill
  <2>11. QED
    BY <1>1, <2>1, <2>2, <2>3, <2>4, <2>5, <2>6, <2>7, <2>8, <2>9, <2>10 DEF WorkerStep, Fires
<1>2. ASSUME NEW w \in Workers, Crash(w) PROVE OnceInv'
  BY <1>2, OnceLeave
<1>3. ASSUME NEW w \in Workers, Lapse(w) PROVE OnceInv'
  BY <1>3, LapseFacts, OnceStill
<1>4. ASSUME NEW r \in Runs, Operator(r) PROVE OnceInv'
  BY <1>4, OperatorFacts, OnceStill
<1>5. CASE UNCHANGED vars
  <2>1. UNCHANGED <<state, journal, job, holder, effects, events, exposed>>
    BY <1>5 DEF vars
  <2>2. Framed
    BY <2>1 DEF Framed, RunTypeOK, StoreTypeOK
  <2>3. QED
    BY <2>1, <2>2, OnceStill
<1>6. CASE Replace
  BY <1>6, HoldFacts, OnceStill
<1>7. QED
  BY <1>1, <1>2, <1>3, <1>4, <1>5, <1>6 DEF Next

-----------------------------------------------------------------------------
(* Where journal writes succeed, leases last and nobody works without one.  *)

\* A worker that moves is the only busy one.
LEMMA Alone ==
    ASSUME CalmInv, NEW w \in Workers, job[w].pc # "idle" \/ holder = Nobody
    PROVE  \A v \in Workers : v # w => job[v].pc = "idle"
<1>1. \A v \in Workers : job[v].pc # "idle" => holder = v
  BY DEF CalmInv, Steady, At
<1>2. QED
  BY <1>1, WorkersAssumption

LEMMA SteadyIdle ==
    ASSUME NEW v, Fits(v), job[v].pc = "idle"
    PROVE  Steady(v)
BY DEF Steady, Fits, At, InFlight

LEMMA CalmStep ==
    ASSUME BaseInv, BaseInv', CalmInv, NEW w \in Workers, Moves(w),
           job[w].pc # "idle" \/ holder = Nobody,
           \A r \in Runs : Tidy(r)' /\ Told(r)', NeverReplayed', Steady(w)'
    PROVE  CalmInv'
<1>1. ASSUME NEW v \in Workers, v # w PROVE Steady(v)'
  <2>1. job[v].pc = "idle" /\ job'[v] = job[v]
    BY <1>1, Alone DEF Moves
  <2>2. Fits(v)'
    BY DEF BaseInv
  <2>3. job'[v].pc = "idle"
    BY <2>1
  <2>4. QED
    BY <2>2, <2>3, SteadyIdle DEF Steady, Fits, At, InFlight
<1>2. QED
  BY <1>1 DEF CalmInv

\* The journal stays, and no run is newly told done or parked without cause.
LEMMA CalmQuiet ==
    ASSUME CalmInv, journal' = journal,
           \A r \in Runs : state'[r] = "DONE" =>
              state[r] = "DONE" \/ \A s \in Steps : Complete(r, s),
           Unwatched => \A r \in Runs : state'[r] = "NEEDS_REVIEW" =>
              state[r] = "NEEDS_REVIEW" \/ \E s \in Steps : InDoubt(r, s)
    PROVE  (\A r \in Runs : Tidy(r)' /\ Told(r)') /\ NeverReplayed'
<1>1. \A r \in Runs, s \in Steps : Latest(r, s)' = Latest(r, s)
  BY DEF Latest
<1>2. /\ \A r \in Runs, s \in Steps : Complete(r, s)' = Complete(r, s)
      /\ \A r \in Runs, s \in Steps : InDoubt(r, s)' = InDoubt(r, s)
  BY <1>1 DEF Complete, InDoubt
<1>3. NeverReplayed'
  BY DEF CalmInv, NeverReplayed
<1>4. ASSUME NEW r \in Runs PROVE Tidy(r)' /\ Told(r)'
  <2>1. Tidy(r) /\ Told(r)
    BY DEF CalmInv
  <2>2. Tidy(r)'
    BY <1>2, <2>1 DEF Tidy
  <2>3. Told(r)'
    BY <1>2, <2>1 DEF Told
  <2>4. QED
    BY <2>2, <2>3
<1>5. QED
  BY <1>3, <1>4

\* A row is written to a step with everything before it complete and nothing else
\* in doubt, never over an ambiguous or an open row.
LEMMA CalmWrote ==
    ASSUME BaseInv, CalmInv, NEW r \in Runs, NEW s \in Steps, NEW o \in Rows,
           Wrote(r, s, o), state' = state,
           \A q \in Steps : q < s => Complete(r, q),
           \A q \in Steps : q # s => ~InDoubt(r, q),
           Latest(r, s) # "ambiguous", Latest(r, s) = "started" => o \in Decided,
           state[r] # "DONE", Unwatched => state[r] # "NEEDS_REVIEW"
    PROVE  (\A p \in Runs : Tidy(p)' /\ Told(p)') /\ NeverReplayed'
<1>1. StoreTypeOK
  BY DEF BaseInv, RunTypeOK
<1>2. /\ journal'[r][s] = Append(journal[r][s], o) /\ Latest(r, s)' = o
      /\ \A p \in Runs, q \in Steps : p # r \/ q # s =>
            journal'[p][q] = journal[p][q] /\ Latest(p, q)' = Latest(p, q)
      /\ \A p \in Runs, q \in Steps : journal[p][q] # <<>> => journal'[p][q] # <<>>
  BY <1>1, WroteFacts
<1>3. \A p \in Runs, q \in Steps : p # r \/ q # s =>
         Complete(p, q)' = Complete(p, q) /\ InDoubt(p, q)' = InDoubt(p, q)
  BY <1>2 DEF Complete, InDoubt
<1>4. \A q \in Steps : q < s => q # s
  BY DEF Steps
<1>5. ASSUME NEW p \in Runs PROVE Tidy(p)' /\ Told(p)'
  <2>1. Tidy(p) /\ Told(p)
    BY DEF CalmInv
  <2>2. CASE p # r
    BY <1>2, <1>3, <2>1, <2>2 DEF Tidy, Told
  <2>3. CASE p = r
    <3>1. Told(p)'
      BY <2>3 DEF Told
    <3>2. ASSUME NEW q \in Steps
          PROVE  /\ journal'[r][q] # <<>> => \A u \in Steps : u < q => journal'[r][u] # <<>>
                 /\ InDoubt(r, q)' => \A u \in Steps : u < q => Complete(r, u)'
      <4>1. \A u \in Steps : u < s => journal[r][u] # <<>> /\ Complete(r, u)'
        BY <1>3, <1>4 DEF Complete, Latest
      <4>2. CASE q = s
        BY <1>2, <4>1, <4>2
      <4>3. CASE q # s
        BY <1>2, <1>3, <2>1, <2>3, <4>3 DEF Tidy
      <4>4. QED
        BY <4>2, <4>3
    <3>3. QED
      BY <2>3, <3>1, <3>2 DEF Tidy
  <2>4. QED
    BY <2>2, <2>3
<1>6. ASSUME NEW p \in Runs, NEW q \in Steps, NEW i \in 1..Len(journal'[p][q]) - 1
      PROVE  /\ journal'[p][q][i] # "ambiguous"
             /\ journal'[p][q][i] = "started" => journal'[p][q][i + 1] \in Decided
  <2>1. CASE p # r \/ q # s
    <3>1. journal'[p][q] = journal[p][q]
      BY <1>2, <2>1
    <3>2. NeverReplayed
      BY DEF CalmInv
    <3>3. QED
      BY <3>1, <3>2 DEF NeverReplayed
  <2>2. CASE p = r /\ q = s
    <3>1. PICK rows \in Seq(Rows) : rows = journal[r][s]
      BY <1>1, RowsFacts
    <3>2. PICK n \in Nat : n = Len(rows)
      OBVIOUS
    <3>3. journal'[p][q] = Append(rows, o)
      BY <1>2, <2>2, <3>1
    <3>4. /\ Len(Append(rows, o)) = n + 1 /\ Append(rows, o)[n + 1] = o
          /\ \A k \in 1..n : Append(rows, o)[k] = rows[k]
      BY <3>1, <3>2
    <3>5. i \in 1..n
      BY <3>2, <3>3, <3>4
    <3>6. CASE i = n
      <4>1. rows # <<>>
        BY <3>2, <3>5
      <4>2. rows[n] = Latest(r, s)
        BY <3>1, <3>2, <4>1 DEF Latest
      <4>3. QED
        BY <3>3, <3>4, <3>5, <3>6, <4>2
    <3>7. CASE i # n
      <4>1. i \in 1..n - 1 /\ i + 1 \in 1..n
        BY <3>2, <3>5, <3>7
      <4>2. rows[i] # "ambiguous" /\ (rows[i] = "started" => rows[i + 1] \in Decided)
        BY <3>1, <3>2, <4>1 DEF CalmInv, NeverReplayed
      <4>3. QED
        BY <3>3, <3>4, <3>5, <4>1, <4>2
    <3>8. QED
      BY <3>6, <3>7
  <2>3. QED
    BY <2>1, <2>2
<1>7. NeverReplayed'
  BY <1>6 DEF NeverReplayed
<1>8. QED
  BY <1>5, <1>7

LEMMA CalmInit == Init => CalmInv
<1> SUFFICES ASSUME Init PROVE CalmInv
  OBVIOUS
<1>1. \A r \in Runs, s \in Steps : journal[r][s] = <<>>
  BY DEF Init, StoreInit
<1>2. \A r \in Runs : state[r] = "ABSENT"
  BY DEF Init, StoreInit
<1>3. \A r \in Runs : Tidy(r) /\ Told(r)
  BY <1>1, <1>2 DEF Tidy, Told, InDoubt, Latest
<1>4. NeverReplayed
  <2>1. ASSUME NEW r \in Runs, NEW s \in Steps, NEW i \in 1..Len(journal[r][s]) - 1
        PROVE  FALSE
    BY <1>1, <2>1
  <2>2. QED
    BY <2>1 DEF NeverReplayed
<1>5. \A w \in Workers : Steady(w)
  BY BaseInit, IdleFacts, SteadyIdle DEF BaseInv, Init
<1>6. QED
  BY <1>3, <1>4, <1>5 DEF CalmInv

LEMMA CalmFire ==
    ASSUME BaseInv, BaseInv', CalmInv, NEW w \in Workers, Fires(w)
    PROVE  CalmInv'
<1> RunTypeOK /\ Unborn /\ Fits(w) /\ StoreTypeOK /\ Fits(w)'
  BY DEF BaseInv, RunTypeOK
<1>1. /\ Moves(w) /\ holder = Nobody /\ holder' = w
      /\ job'[w].pc = "opening" /\ job'[w].leased
      /\ UNCHANGED <<state, journal>>
  BY FireFacts
<1>2. (\A r \in Runs : Tidy(r)' /\ Told(r)') /\ NeverReplayed'
  BY <1>1, CalmQuiet
<1>3. job'[w].run = 0
  BY <1>1 DEF Fits
<1>4. Steady(w)'
  BY <1>1, <1>3 DEF Steady, At, InFlight
<1>5. QED
  BY <1>1, <1>2, <1>4, CalmStep

\* Nothing from the step a run is resumed at is in doubt, or the run is parked.
LEMMA CalmResume ==
    ASSUME BaseInv, BaseInv', CalmInv, NEW w \in Workers, ResumeOrphan(w)
    PROVE  CalmInv'
<1> RunTypeOK /\ Unborn /\ Fits(w) /\ StoreTypeOK
  BY DEF BaseInv, RunTypeOK
<1>1. PICK r \in Runs : r = Orphan
  BY ResumeOrphanFacts
<1>2. PICK p : p = ResumePoint(r, {})
  OBVIOUS
<1>3. /\ Moves(w) /\ UNCHANGED <<journal, holder>> /\ job[w].pc = "opening"
      /\ job'[w].run = r /\ job'[w].leased = job[w].leased
      /\ state[r] # "DONE"
      /\ Doubtful(r, {}) => /\ job'[w].pc = "ending" /\ job'[w].result = "uncertain"
                            /\ MarkNeedsReview(r)
      /\ ~Doubtful(r, {}) => /\ job'[w].pc = "next" /\ state' = state
                             /\ job'[w].start = p /\ job'[w].step = p
  BY <1>1, <1>2, ResumeOrphanFacts DEF Terminal
<1>4. /\ p \in 1..Calls + 1
      /\ \A s \in Steps : s < p => Complete(r, s)
      /\ Doubtful(r, {}) => p \in Steps /\ InDoubt(r, p)
      /\ ~Doubtful(r, {}) /\ p \in Steps => journal[r][p] = <<>>
  BY <1>2, Stops
<1>5. /\ \A s \in Steps : Complete(r, s)' = Complete(r, s)
      /\ \A s \in Steps : InDoubt(r, s)' = InDoubt(r, s)
  BY <1>3 DEF Complete, InDoubt, Latest
<1>6. holder = w /\ job[w].leased /\ r # 0
  BY <1>3 DEF CalmInv, Steady, At, Runs
<1>7. Tidy(r) /\ Told(r)
  BY DEF CalmInv
<1>8. CASE Doubtful(r, {})
  <2>1. /\ state'[r] = (IF state[r] \in RunStates \ (Terminal \cup {"NEEDS_REVIEW"})
                        THEN "NEEDS_REVIEW" ELSE state[r])
        /\ \A q \in Runs : q # r => state'[q] = state[q]
    BY <1>3, <1>8, TransitionFacts DEF MarkNeedsReview, RunStates
  <2>2. (\A q \in Runs : Tidy(q)' /\ Told(q)') /\ NeverReplayed'
    BY <1>3, <1>4, <1>8, <2>1, CalmQuiet
  <2>3. state'[r] # "DONE"
    BY <1>3, <2>1
  <2>4. \E s \in Steps : InDoubt(r, s)'
    BY <1>4, <1>5, <1>8
  <2>5. Steady(w)'
    BY <1>3, <1>6, <1>8, <2>3, <2>4 DEF Steady, At, InFlight
  <2>6. QED
    BY <1>3, <2>2, <2>5, CalmStep
<1>9. CASE ~Doubtful(r, {})
  <2>1. (\A q \in Runs : Tidy(q)' /\ Told(q)') /\ NeverReplayed'
    BY <1>3, <1>9, CalmQuiet
  <2>2. ASSUME NEW s \in Steps, InDoubt(r, s) PROVE FALSE
    <3>1. ~(s < p)
      BY <1>4, <2>2 DEF InDoubt, Complete
    <3>2. p \in Steps /\ p <= s
      BY <1>4, <3>1, StoreSizes DEF Steps
    <3>3. Latest(r, p) = "none"
      BY <1>4, <1>9, <3>2 DEF Latest
    <3>4. s # p
      BY <2>2, <3>3 DEF InDoubt
    <3>5. p < s
      BY <3>2, <3>4 DEF Steps
    <3>6. Complete(r, p)
      BY <1>7, <2>2, <3>2, <3>5 DEF Tidy
    <3>7. QED
      BY <3>3, <3>6 DEF Complete
  <2>3. Unwatched => state'[r] # "NEEDS_REVIEW"
    BY <1>3, <1>7, <1>9, <2>2 DEF Told
  <2>4. p <= p
    BY <1>4
  <2>5. \A s \in Steps : ~InDoubt(r, s)' /\ (s < p => Complete(r, s)')
    BY <1>4, <1>5, <2>2
  <2>6. Steady(w)'
    BY <1>3, <1>6, <1>9, <2>3, <2>4, <2>5 DEF Steady, At, InFlight
  <2>7. QED
    BY <1>3, <2>1, <2>6, CalmStep
<1>10. QED
  BY <1>8, <1>9

LEMMA CalmCreate ==
    ASSUME BaseInv, BaseInv', CalmInv, NEW w \in Workers, CreateRun(w)
    PROVE  CalmInv'
<1> RunTypeOK /\ Unborn /\ Fits(w) /\ StoreTypeOK
  BY DEF BaseInv, RunTypeOK
<1>1. PICK r \in Runs : r = job'[w].run
  BY CreateRunFacts
<1>2. /\ Moves(w) /\ UNCHANGED <<journal, holder>>
      /\ job[w].pc = "opening" /\ job'[w].pc = "created"
      /\ state[r] = "ABSENT" /\ state' = [state EXCEPT ![r] = "QUEUED"]
      /\ job'[w].leased = job[w].leased
  BY <1>1, CreateRunFacts
<1>3. state'[r] = "QUEUED" /\ \A q \in Runs : q # r => state'[q] = state[q]
  BY <1>2 DEF StoreTypeOK
<1>4. (\A q \in Runs : Tidy(q)' /\ Told(q)') /\ NeverReplayed'
  BY <1>2, <1>3, CalmQuiet
<1>5. holder = w /\ job[w].leased
  BY <1>2 DEF CalmInv, Steady, At
<1>6. \A s \in Steps : journal'[r][s] = <<>>
  BY <1>2 DEF Unborn
<1>7. Steady(w)'
  BY <1>1, <1>2, <1>3, <1>5, <1>6 DEF Steady, At, InFlight
<1>8. QED
  BY <1>2, <1>4, <1>7, CalmStep

LEMMA CalmStart ==
    ASSUME BaseInv, BaseInv', CalmInv, NEW w \in Workers, StartRun(w)
    PROVE  CalmInv'
<1> RunTypeOK /\ Unborn /\ Fits(w) /\ StoreTypeOK
  BY DEF BaseInv, RunTypeOK
<1>1. PICK r \in Runs : r = job[w].run
  BY StartRunFacts
<1>2. /\ Moves(w) /\ UNCHANGED <<journal, holder>>
      /\ job[w].pc = "created" /\ job'[w].pc = "next"
      /\ job'[w].run = r /\ job'[w].leased = job[w].leased
      /\ job'[w].start = job[w].start /\ job'[w].step = job[w].step
      /\ state'[r] \in {"EXECUTING_TOOLS", state[r]}
      /\ \A q \in Runs : q # r => state'[q] = state[q]
  BY <1>1, StartRunFacts
<1>3. r # 0 /\ job[w].start = 1 /\ job[w].step = 1 /\ \A s \in Steps : ~(s < 1)
  BY <1>2 DEF Fits, Runs, Steps
<1>4. Steady(w)
  BY DEF CalmInv
<1>5. /\ holder = w /\ job[w].leased /\ state[r] # "DONE"
      /\ Unwatched => state[r] # "NEEDS_REVIEW"
      /\ \A s \in Steps : journal[r][s] = <<>>
  BY <1>1, <1>2, <1>3, <1>4 DEF Steady, At
<1>6. \A s \in Steps : ~InDoubt(r, s)'
  BY <1>2, <1>5 DEF InDoubt, Latest
<1>7. (\A q \in Runs : Tidy(q)' /\ Told(q)') /\ NeverReplayed'
  BY <1>2, CalmQuiet
<1>8. Steady(w)'
  BY <1>2, <1>3, <1>5, <1>6 DEF Steady, At, InFlight
<1>9. QED
  BY <1>2, <1>7, <1>8, CalmStep

\* A worker between two steps: all behind it is complete, nothing is in doubt.
LEMMA Between ==
    ASSUME BaseInv, CalmInv, NEW w \in Workers, job[w].pc = "next"
    PROVE  /\ job[w].run \in Runs /\ job[w].run # 0
           /\ holder = w /\ job[w].leased /\ job[w].start <= job[w].step
           /\ \A s \in Steps : s < job[w].step => Complete(job[w].run, s)
           /\ \A s \in Steps : ~InDoubt(job[w].run, s)
           /\ state[job[w].run] # "DONE"
           /\ Unwatched => state[job[w].run] # "NEEDS_REVIEW"
<1>1. PICK x \in Job : x = job[w]
  BY DEF BaseInv, RunTypeOK
<1>2. Steady(w)
  BY DEF CalmInv
<1>3. /\ holder = w /\ x.leased /\ x.run # 0 /\ x.start <= x.step
      /\ \A s \in Steps : s < x.step => Complete(x.run, s)
      /\ \A s \in Steps : s >= x.start => ~InDoubt(x.run, s)
      /\ state[x.run] # "DONE"
      /\ Unwatched => state[x.run] # "NEEDS_REVIEW"
  BY <1>1, <1>2 DEF Steady, At, InFlight
<1>4. ASSUME NEW s \in Steps PROVE ~InDoubt(x.run, s)
  <2>1. s >= x.start \/ s < x.step
    BY <1>3 DEF Steps, Job
  <2>2. QED
    BY <1>3, <2>1 DEF Complete, InDoubt
<1>5. x.run \in Runs
  BY <1>3 DEF Job
<1>6. QED
  BY <1>1, <1>3, <1>4, <1>5

LEMMA CalmBetween ==
    ASSUME BaseInv, BaseInv', CalmInv, NEW w \in Workers, Completed(w) \/ TimeOut(w)
    PROVE  CalmInv'
<1> RunTypeOK /\ Unborn /\ Fits(w) /\ StoreTypeOK
  BY DEF BaseInv, RunTypeOK
<1>1. /\ Moves(w) /\ Keeps(w) /\ UNCHANGED <<state, journal, holder>> /\ job[w].pc = "next"
      /\ \/ job[w].step \notin Steps /\ job'[w].pc = "ending" /\ job'[w].result = "completed"
         \/ job'[w].pc = "next" /\ job'[w].step = job[w].start
         \/ job'[w].pc = "ending" /\ job'[w].result = "timed_out"
  BY CompletedFacts, TimeOutFacts
<1>2. PICK x \in Job : x = job[w]
  BY DEF RunTypeOK
<1>3. /\ x.run \in Runs /\ x.run # 0
      /\ holder = w /\ x.leased /\ x.start <= x.step
      /\ \A s \in Steps : s < x.step => Complete(x.run, s)
      /\ \A s \in Steps : ~InDoubt(x.run, s)
      /\ state[x.run] # "DONE"
      /\ Unwatched => state[x.run] # "NEEDS_REVIEW"
  BY <1>1, <1>2, Between
<1>4. /\ \A s \in Steps : s < x.step => Complete(x.run, s)'
      /\ \A s \in Steps : ~InDoubt(x.run, s)'
  BY <1>1, <1>3 DEF Complete, InDoubt, Latest
<1>5. /\ job'[w].run = x.run /\ job'[w].start = x.start /\ job'[w].leased
      /\ holder' = w /\ state' = state
  BY <1>1, <1>2, <1>3 DEF Keeps
<1>6. (\A q \in Runs : Tidy(q)' /\ Told(q)') /\ NeverReplayed'
  BY <1>1, CalmQuiet
<1>7. CASE x.step \notin Steps /\ job'[w].pc = "ending" /\ job'[w].result = "completed"
  <2>1. \A s \in Steps : s < x.step
    BY <1>7, StoreSizes DEF Steps, Job
  <2>2. Steady(w)'
    BY <1>3, <1>4, <1>5, <1>7, <2>1 DEF Steady, At, InFlight
  <2>3. QED
    BY <1>1, <1>6, <2>2, CalmStep
<1>8. CASE job'[w].pc = "next" /\ job'[w].step = x.start
  <2>1. x.start <= x.start /\ \A s \in Steps : s < x.start => s < x.step
    BY <1>3 DEF Steps, Job
  <2>2. Steady(w)'
    BY <1>3, <1>4, <1>5, <1>8, <2>1 DEF Steady, At, InFlight
  <2>3. QED
    BY <1>1, <1>6, <2>2, CalmStep
<1>9. CASE job'[w].pc = "ending" /\ job'[w].result = "timed_out"
  <2>1. Steady(w)'
    BY <1>3, <1>5, <1>9 DEF Steady, At, InFlight
  <2>2. QED
    BY <1>1, <1>6, <2>1, CalmStep
<1>10. QED
  BY <1>1, <1>2, <1>7, <1>8, <1>9

LEMMA CalmBegin ==
    ASSUME BaseInv, BaseInv', CalmInv, NEW w \in Workers, Begin(w)
    PROVE  CalmInv'
<1> RunTypeOK /\ Unborn /\ Fits(w) /\ StoreTypeOK
  BY DEF BaseInv, RunTypeOK
<1>1. PICK r \in Runs : r = job[w].run
  BY BeginFacts
<1>2. PICK s \in Steps : s = job[w].step
  BY BeginFacts
<1>3. /\ Moves(w) /\ Keeps(w) /\ UNCHANGED <<state, holder>>
      /\ Wrote(r, s, "started") /\ job[w].pc = "next"
      /\ job'[w].pc = "begun" /\ job'[w].run = r /\ job'[w].step = s
      /\ job'[w].leased = job[w].leased /\ job'[w].start = job[w].start
      /\ job'[w].intent = Len(journal[r][s]) + 1
  BY <1>1, <1>2, BeginFacts DEF Keeps
<1>4. /\ holder = w /\ job[w].leased /\ job[w].start <= s /\ r # 0
      /\ \A q \in Steps : q < s => Complete(r, q)
      /\ \A q \in Steps : ~InDoubt(r, q)
      /\ state[r] # "DONE"
      /\ Unwatched => state[r] # "NEEDS_REVIEW"
  BY <1>1, <1>2, <1>3, Between
<1>5. "started" \in Rows
  BY DEF Rows
<1>6. Latest(r, s) # "ambiguous" /\ Latest(r, s) # "started"
  BY <1>4 DEF InDoubt
<1>7. (\A p \in Runs : Tidy(p)' /\ Told(p)') /\ NeverReplayed'
  BY <1>3, <1>4, <1>5, <1>6, CalmWrote
<1>8. /\ Latest(r, s)' = "started"
      /\ Len(journal'[r][s]) = Len(journal[r][s]) + 1 /\ Len(journal[r][s]) \in Nat
      /\ \A q \in Steps : q # s => Latest(r, q)' = Latest(r, q)
  BY <1>3, <1>5, WroteFacts, RowsFacts
<1>9. /\ \A q \in Steps : q < s => Complete(r, q)'
      /\ \A q \in Steps : q # s => ~InDoubt(r, q)'
  <2>1. \A q \in Steps : q < s => q # s
    BY DEF Steps
  <2>2. QED
    BY <1>4, <1>8, <2>1 DEF Complete, InDoubt
<1>10. job'[w].intent = Len(journal'[r][s]) /\ job'[w].intent # 0
  BY <1>3, <1>8
<1>11. Steady(w)'
  BY <1>3, <1>4, <1>8, <1>9, <1>10 DEF Steady, At, InFlight
<1>12. QED
  BY <1>3, <1>7, <1>11, CalmStep

\* A worker in flight: its intent is the last row, and nothing else is in doubt.
LEMMA Flying ==
    ASSUME BaseInv, CalmInv, NEW w \in Workers, InFlight(w)
    PROVE  /\ job[w].run \in Runs /\ job[w].run # 0 /\ job[w].step \in Steps
           /\ holder = w /\ job[w].leased /\ job[w].start <= job[w].step
           /\ job[w].intent = Len(journal[job[w].run][job[w].step]) /\ job[w].intent # 0
           /\ Latest(job[w].run, job[w].step) = "started"
           /\ \A s \in Steps : s < job[w].step => Complete(job[w].run, s)
           /\ \A s \in Steps : s # job[w].step => ~InDoubt(job[w].run, s)
           /\ state[job[w].run] # "DONE"
           /\ Unwatched => state[job[w].run] # "NEEDS_REVIEW"
<1>1. PICK x \in Job : x = job[w]
  BY DEF BaseInv, RunTypeOK
<1>2. Steady(w) /\ Fits(w)
  BY DEF CalmInv, BaseInv
<1>3. x.pc \in {"begun", "answered", "called"}
  BY <1>1 DEF InFlight
<1>4. /\ holder = w /\ x.leased /\ x.run # 0 /\ x.start <= x.step
      /\ \A s \in Steps : s < x.step => Complete(x.run, s)
      /\ \A s \in Steps : s >= x.start => (InDoubt(x.run, s) => s = x.step)
      /\ state[x.run] # "DONE"
      /\ Unwatched => state[x.run] # "NEEDS_REVIEW"
      /\ x.intent = Len(journal[x.run][x.step]) /\ x.intent # 0
      /\ Latest(x.run, x.step) = "started"
  BY <1>1, <1>2, <1>3 DEF Steady, At, InFlight
<1>5. ASSUME NEW s \in Steps, s # x.step PROVE ~InDoubt(x.run, s)
  <2>1. s >= x.start \/ s < x.step
    BY <1>4 DEF Steps, Job
  <2>2. QED
    BY <1>4, <1>5, <2>1 DEF Complete, InDoubt
<1>6. x.run \in Runs /\ x.step \in Steps
  BY <1>1, <1>2, <1>4 DEF Job, Fits
<1>7. QED
  BY <1>1, <1>4, <1>5, <1>6

LEMMA CalmCall ==
    ASSUME BaseInv, BaseInv', CalmInv, NEW w \in Workers,
           FenceAnswer(w) \/ \E result \in CallResults : Call(w, result)
    PROVE  CalmInv'
<1> RunTypeOK /\ Unborn /\ Fits(w) /\ StoreTypeOK
  BY DEF BaseInv, RunTypeOK
<1>1. /\ Moves(w) /\ UNCHANGED <<state, journal, holder>> /\ Keeps(w)
      /\ job[w].pc \in {"begun", "answered"} /\ job'[w].pc \in {"answered", "called"}
      /\ job'[w].step = job[w].step /\ job'[w].intent = job[w].intent
  BY FenceAnswerFacts, CallFacts
<1>2. PICK x \in Job : x = job[w]
  BY DEF RunTypeOK
<1>3. InFlight(w)
  BY <1>1 DEF InFlight
<1>4. /\ x.run # 0 /\ holder = w /\ x.leased /\ x.start <= x.step
      /\ x.intent = Len(journal[x.run][x.step]) /\ x.intent # 0
      /\ Latest(x.run, x.step) = "started"
      /\ \A s \in Steps : s < x.step => Complete(x.run, s)
      /\ \A s \in Steps : s # x.step => ~InDoubt(x.run, s)
      /\ state[x.run] # "DONE"
      /\ Unwatched => state[x.run] # "NEEDS_REVIEW"
  BY <1>2, <1>3, Flying
<1>5. /\ \A s \in Steps : s < x.step => Complete(x.run, s)'
      /\ \A s \in Steps : s # x.step => ~InDoubt(x.run, s)'
      /\ Latest(x.run, x.step)' = "started"
  BY <1>1, <1>4 DEF Complete, InDoubt, Latest
<1>6. /\ job'[w].run = x.run /\ job'[w].start = x.start /\ job'[w].leased
      /\ job'[w].step = x.step /\ job'[w].intent = x.intent
  BY <1>1, <1>2, <1>4 DEF Keeps
<1>7. (\A q \in Runs : Tidy(q)' /\ Told(q)') /\ NeverReplayed'
  BY <1>1, CalmQuiet
<1>8. Steady(w)'
  BY <1>1, <1>4, <1>5, <1>6 DEF Steady, At, InFlight
<1>9. QED
  BY <1>1, <1>7, <1>8, CalmStep

LEMMA CalmRecord ==
    ASSUME BaseInv, BaseInv', CalmInv, Calm, NEW w \in Workers, Record(w)
    PROVE  CalmInv'
<1> RunTypeOK /\ Unborn /\ Fits(w) /\ StoreTypeOK
  BY DEF BaseInv, RunTypeOK
<1>1. PICK x \in Job : x = job[w]
  BY DEF RunTypeOK
<1>2. PICK r : r = x.run
  OBVIOUS
<1>3. PICK s : s = x.step
  OBVIOUS
<1>4. PICK o : o = OutcomeOf(x.result)
  OBVIOUS
<1>5. /\ Moves(w) /\ x.pc = "called" /\ x.result \in CallResults
      /\ job'[w].run = r /\ job'[w].start = x.start /\ job'[w].leased = x.leased
      /\ \/ x.result = "ok" /\ job'[w].pc = "next" /\ job'[w].step = s + 1
         \/ x.result = "ok" /\ job'[w].pc = "ending" /\ job'[w].result \in {"killed", "capped"}
         \/ x.result = "failed" /\ job'[w].pc = "next" /\ job'[w].step = x.start
         \/ x.result # "ok" /\ job'[w].pc = "ending" /\ job'[w].result = x.result
  BY <1>1, <1>2, <1>3, RecordMoves DEF Keeps
<1>6. InFlight(w)
  BY <1>1, <1>5 DEF InFlight
<1>7. /\ r \in Runs /\ r # 0 /\ s \in Steps /\ holder = w /\ x.leased /\ x.start <= s
      /\ x.intent = Len(journal[r][s]) /\ x.intent # 0
      /\ Latest(r, s) = "started"
      /\ \A q \in Steps : q < s => Complete(r, q)
      /\ \A q \in Steps : q # s => ~InDoubt(r, q)
      /\ state[r] # "DONE"
      /\ Unwatched => state[r] # "NEEDS_REVIEW"
  BY <1>1, <1>2, <1>3, <1>6, Flying
<1>8. "journal" \notin Events
  BY DEF Calm
<1>9. Wrote(r, s, o) /\ state' = state /\ holder' = holder
  BY <1>1, <1>2, <1>3, <1>4, <1>7, <1>8, RecordFacts
<1>10. /\ o \in Rows /\ o \in Decided
       /\ x.result = "ok" \/ x.result = "failed" => o \in {"executed_ok", "executed_failed"}
       /\ x.result = "uncertain" => o = "ambiguous"
  BY <1>4 DEF OutcomeOf, Rows, Decided
<1>11. (\A p \in Runs : Tidy(p)' /\ Told(p)') /\ NeverReplayed'
  BY <1>7, <1>9, <1>10, CalmWrote
<1>12. Latest(r, s)' = o /\ \A q \in Steps : q # s => Latest(r, q)' = Latest(r, q)
  BY <1>7, <1>9, <1>10, WroteFacts
<1>13. /\ \A q \in Steps : q < s => Complete(r, q)'
       /\ \A q \in Steps : q # s => ~InDoubt(r, q)'
       /\ x.result = "ok" \/ x.result = "failed" => Complete(r, s)'
       /\ x.result = "uncertain" => InDoubt(r, s)'
  <2>1. \A q \in Steps : q < s => q # s
    BY <1>7 DEF Steps
  <2>2. QED
    BY <1>7, <1>10, <1>12, <2>1 DEF Complete, InDoubt
<1>14. x.result = "ok" \/ x.result = "failed" => \A q \in Steps : ~InDoubt(r, q)'
  BY <1>13 DEF Complete, InDoubt
<1>15. CASE x.result = "ok" /\ job'[w].pc = "next" /\ job'[w].step = s + 1
  <2>1. \A q \in Steps : q < s + 1 => q < s \/ q = s
    BY <1>7 DEF Steps
  <2>2. \A q \in Steps : q < s + 1 => Complete(r, q)'
    BY <1>13, <1>15, <2>1
  <2>3. x.start <= s + 1
    BY <1>7 DEF Job, Steps
  <2>4. Steady(w)'
    BY <1>5, <1>7, <1>9, <1>14, <1>15, <2>2, <2>3 DEF Steady, At, InFlight
  <2>5. QED
    BY <1>1, <1>5, <1>11, <2>4, CalmStep
<1>16. CASE x.result = "failed" /\ job'[w].pc = "next" /\ job'[w].step = x.start
  <2>1. x.start <= x.start /\ \A q \in Steps : q < x.start => q < s
    BY <1>7 DEF Job, Steps
  <2>2. \A q \in Steps : q < x.start => Complete(r, q)'
    BY <1>13, <2>1
  <2>3. Steady(w)'
    BY <1>5, <1>7, <1>9, <1>14, <1>16, <2>1, <2>2 DEF Steady, At, InFlight
  <2>4. QED
    BY <1>1, <1>5, <1>11, <2>3, CalmStep
<1>17. CASE /\ job'[w].pc = "ending"
            /\ job'[w].result \in {"killed", "capped", x.result}
  <2>1. x.result # "completed"
    BY <1>5 DEF CallResults
  <2>2. job'[w].result # "completed"
    BY <1>17, <2>1
  <2>3. job'[w].result = "uncertain" => \E q \in Steps : InDoubt(r, q)'
    BY <1>7, <1>13, <1>17
  <2>4. Steady(w)'
    BY <1>5, <1>7, <1>9, <1>17, <2>2, <2>3 DEF Steady, At, InFlight
  <2>5. QED
    BY <1>1, <1>5, <1>11, <2>4, CalmStep
<1>18. QED
  BY <1>5, <1>15, <1>16, <1>17

LEMMA CalmLeave ==
    ASSUME BaseInv, BaseInv', CalmInv, NEW w \in Workers, Finish(w) \/ Crash(w)
    PROVE  CalmInv'
<1> RunTypeOK /\ Unborn /\ Fits(w) /\ StoreTypeOK /\ Fits(w)'
  BY DEF BaseInv, RunTypeOK
<1>1. Moves(w) /\ job'[w] = Idle /\ journal' = journal /\ job[w].pc # "idle"
  BY FinishFacts, CrashFacts
<1>2. Steady(w)'
  <2>1. job'[w].pc = "idle" /\ job'[w].run = 0
    BY <1>1, IdleFacts
  <2>2. QED
    BY <2>1 DEF Steady, At, InFlight
<1>3. CASE Crash(w)
  <2>1. state' = state
    BY <1>3, CrashFacts
  <2>2. (\A q \in Runs : Tidy(q)' /\ Told(q)') /\ NeverReplayed'
    BY <1>1, <2>1, CalmQuiet
  <2>3. QED
    BY <1>1, <1>2, <2>2, CalmStep
<1>4. CASE Finish(w)
  <2>1. PICK r : r = job[w].run
    OBVIOUS
  <2>2. Steady(w)
    BY DEF CalmInv
  <2>3. job[w].pc = "ending"
    BY <1>4, FinishFacts
  <2>4. /\ job[w].result = "completed" => \A s \in Steps : Complete(r, s)
        /\ job[w].result = "uncertain" => \E s \in Steps : InDoubt(r, s)
    BY <2>1, <2>2, <2>3 DEF Steady, At
  <2>5. /\ \A q \in Runs : q # r => state'[q] = state[q]
        /\ r \in Runs => \/ state'[r] \in {state[r], "FAILED"}
                         \/ state'[r] = "DONE" /\ job[w].result = "completed"
                         \/ state'[r] = "NEEDS_REVIEW" /\ job[w].result = "uncertain"
    BY <1>4, <2>1, FinishFacts
  <2>6. ASSUME NEW q \in Runs
        PROVE  /\ state'[q] = "DONE" => state[q] = "DONE" \/ \A s \in Steps : Complete(q, s)
               /\ state'[q] = "NEEDS_REVIEW" =>
                     state[q] = "NEEDS_REVIEW" \/ \E s \in Steps : InDoubt(q, s)
    <3>1. CASE q # r
      BY <2>5, <3>1
    <3>2. CASE q = r
      BY <2>4, <2>5, <3>2
    <3>3. QED
      BY <3>1, <3>2
  <2>7. (\A q \in Runs : Tidy(q)' /\ Told(q)') /\ NeverReplayed'
    BY <1>1, <2>6, CalmQuiet
  <2>8. QED
    BY <1>1, <1>2, <2>7, CalmStep
<1>5. QED
  BY <1>3, <1>4

\* Only the state of a run changes.
LEMMA CalmStill ==
    ASSUME BaseInv, CalmInv, UNCHANGED <<job, holder, journal>>,
           \A r \in Runs : state'[r] = "DONE" => state[r] = "DONE",
           Unwatched => \A r \in Runs :
              state'[r] = "NEEDS_REVIEW" => state[r] = "NEEDS_REVIEW"
    PROVE  CalmInv'
<1>1. (\A r \in Runs : Tidy(r)' /\ Told(r)') /\ NeverReplayed'
  BY CalmQuiet
<1>2. ASSUME NEW v \in Workers PROVE Steady(v)'
  <2>1. Steady(v)
    BY DEF CalmInv
  <2>2. PICK x \in Job : x = job[v]
    BY DEF BaseInv, RunTypeOK
  <2>3. x.run # 0 => x.run \in Runs
    BY DEF Job
  <2>4. \A r \in Runs, s \in Steps : Latest(r, s)' = Latest(r, s)
    BY DEF Latest
  <2>5. /\ x.run # 0 => state'[x.run] # "DONE"
        /\ Unwatched /\ x.run # 0 /\ x.pc # "ending" => state'[x.run] # "NEEDS_REVIEW"
    BY <2>1, <2>2, <2>3 DEF Steady, At
  <2>6. QED
    BY <2>1, <2>2, <2>5 DEF Steady, At, InFlight, Complete, InDoubt, Latest
<1>3. QED
  BY <1>1, <1>2 DEF CalmInv

LEMMA CalmNext == BaseInv /\ BaseInv' /\ CalmInv /\ Calm /\ [Next]_vars => CalmInv'
<1> SUFFICES ASSUME BaseInv, BaseInv', CalmInv, Calm, [Next]_vars PROVE CalmInv'
  OBVIOUS
<1> RunTypeOK /\ Unborn /\ StoreTypeOK
  BY DEF BaseInv, RunTypeOK
<1>0. "once" \notin Events /\ "journal" \notin Events /\ "lapse" \notin Events
  BY DEF Calm
<1>1. ASSUME NEW w \in Workers, WorkerStep(w) PROVE CalmInv'
  <2>1. CASE Fires(w)
    BY <2>1, CalmFire
  <2>2. CASE RunOnce(w) \/ OpenFails(w)
    BY <1>0, <2>2, RunOnceFacts, OpenFailsFacts
  <2>3. CASE ResumeOrphan(w)
    BY <2>3, CalmResume
  <2>4. CASE CreateRun(w)
    BY <2>4, CalmCreate
  <2>5. CASE StartRun(w)
    BY <2>5, CalmStart
  <2>6. CASE Completed(w) \/ TimeOut(w)
    BY <2>6, CalmBetween
  <2>7. CASE Begin(w)
    BY <2>7, CalmBegin
  <2>8. CASE BeginUnjournaled(w)
    <3>1. job[w].pc = "next" /\ job[w].run = 0
      BY <1>0, <2>8, BeginUnjournaledFacts
    <3>2. QED
      BY <3>1, Between
  <2>9. CASE FenceAnswer(w) \/ \E result \in CallResults : Call(w, result)
    BY <2>9, CalmCall
  <2>10. CASE Record(w)
    BY <2>10, CalmRecord
  <2>11. CASE Finish(w)
    BY <2>11, CalmLeave
  <2>12. CASE Hold(w)
    BY <2>12, HoldFacts, CalmStill
  <2>13. QED
    BY <1>1, <2>1, <2>2, <2>3, <2>4, <2>5, <2>6, <2>7, <2>8, <2>9, <2>10, <2>11, <2>12
       DEF WorkerStep, Fires
<1>2. ASSUME NEW w \in Workers, Crash(w) PROVE CalmInv'
  BY <1>2, CalmLeave
<1>3. ASSUME NEW w \in Workers, Lapse(w) PROVE CalmInv'
  BY <1>0, <1>3, LapseFacts
<1>4. ASSUME NEW r \in Runs, Operator(r) PROVE CalmInv'
  BY <1>4, OperatorFacts, CalmStill
<1>5. CASE UNCHANGED vars
  BY <1>5, CalmStill DEF vars
<1>6. CASE Replace
  BY <1>6, HoldFacts, CalmStill
<1>7. QED
  BY <1>1, <1>2, <1>3, <1>4, <1>5, <1>6 DEF Next

-----------------------------------------------------------------------------
(* The theorems.                                                            *)

\* IInv is an inductive invariant of every specification of scheduled runs, with
\* OnceInv where triggers do not retry and CalmInv where nothing fails but
\* processes.
THEOREM Inductive == Spec => []IInv
<1>1. Init => IInv
  BY BaseInit, OnceInit, CalmInit DEF IInv
<1>2. IInv /\ [Next]_vars => IInv'
  <2> SUFFICES ASSUME IInv, [Next]_vars PROVE IInv'
    OBVIOUS
  <2>1. BaseInv'
    BY BaseNext DEF IInv
  <2>2. MaxRetries = 0 => OnceInv'
    BY OnceNext DEF IInv
  <2>3. Calm => CalmInv'
    BY <2>1, CalmNext DEF IInv
  <2>4. Calm' = Calm
    BY DEF Calm
  <2>5. QED
    BY <2>1, <2>2, <2>3, <2>4 DEF IInv
<1>3. QED
  BY <1>1, <1>2, PTL DEF Spec

\* No trigger steps past the end of its task, retries beyond the policy or holds
\* a run that does not exist.
THEOREM RunsTyped == Spec => []TypeOK
<1> DEFINE LapseOK == lapsed \in Workers \cup {Nobody} /\ doubt \in BOOLEAN
<1>1. Init => LapseOK
  BY DEF Init
<1>2. LapseOK /\ [Next]_vars => LapseOK'
  <2> SUFFICES ASSUME LapseOK, [Next]_vars PROVE LapseOK'
    OBVIOUS
  <2>1. ASSUME NEW w \in Workers, WorkerStep(w) PROVE LapseOK'
    <3>1. CASE Fire(w) \/ FireUnread(w) \/ Hold(w) \/ Finish(w)
      BY <3>1 DEF Fire, FireUnread, Claim, Hold, Finish
    <3>2. CASE FenceAnswer(w)
      BY <3>2, Zenon DEF FenceAnswer, Unanswered
    <3>3. CASE RunOnce(w) \/ ResumeOrphan(w) \/ CreateRun(w) \/ StartRun(w) \/ OpenFails(w)
      BY <3>3 DEF RunOnce, ResumeOrphan, CreateRun, StartRun, OpenFails
    <3>4. CASE Completed(w) \/ TimeOut(w) \/ Begin(w) \/ BeginUnjournaled(w) \/ Record(w)
      BY <3>4 DEF Completed, TimeOut, Begin, BeginUnjournaled, Record
    <3>5. CASE \E result \in CallResults : Call(w, result)
      BY <3>5 DEF Call
    <3>6. QED
      BY <2>1, <3>1, <3>2, <3>3, <3>4, <3>5 DEF WorkerStep
  <2>2. ASSUME NEW w \in Workers, Crash(w) PROVE LapseOK'
    BY <2>2 DEF Crash, Unanswered
  <2>3. ASSUME NEW w \in Workers, Lapse(w) PROVE LapseOK'
    BY <2>3 DEF Lapse
  <2>4. ASSUME NEW r \in Runs, Operator(r) PROVE LapseOK'
    BY <2>4 DEF Operator, Pause, Cancel, Retry, Show, ResumeCommand, Command
  <2>5. CASE Replace \/ UNCHANGED vars
    BY <2>5 DEF Replace, vars
  <2>6. QED
    BY <2>1, <2>2, <2>3, <2>4, <2>5 DEF Next
<1>3. IInv /\ LapseOK => TypeOK
  BY DEF IInv, BaseInv, TypeOK
<1>4. QED
  BY <1>1, <1>2, <1>3, Inductive, PTL DEF Spec

\* Whatever fails - a journal write, a lease, a process - and however many workers
\* write to the same steps, complete_step never records a success that did not
\* take effect.
THEOREM JournalIsTrue == Spec => []JournalTrue
<1>1. IInv => JournalTrue
  BY DEF IInv, BaseInv, Paid, OkRows, JournalTrue
<1>2. QED
  BY <1>1, Inductive, PTL

\* Where run_trigger does not retry, the write-ahead row and the lease fence let
\* no call of a run take effect twice, through any crashes, takeovers of a lapsed
\* lease and commands, unless its journal failed or run-once went around the lease.
THEOREM EffectsOnce == Spec => [](MaxRetries = 0 => EffectOnce)
<1>1. IInv => (MaxRetries = 0 => EffectOnce)
  BY DEF IInv, OnceInv, Ordered, EffectOnce
<1>2. QED
  BY <1>1, Inductive, PTL

\* Where journal writes succeed, leases last and run-once is not used, a step in
\* doubt is not begun again: not by the retry loop, not by whichever process picks
\* the run up after crashes, not after `runs retry`.
THEOREM DoubtNotReplayed == Spec => [](Calm => NeverReplayed)
<1>1. IInv => (Calm => NeverReplayed)
  BY DEF IInv, CalmInv
<1>2. QED
  BY <1>1, Inductive, PTL

\* Under the same conditions, a run marked DONE has no step skipped or left open,
\* and those recorded as successes happened.
THEOREM DoneIsDecided == Spec => [](Calm => DoneDecided)
<1>1. IInv => (Calm => DoneDecided)
  <2> SUFFICES ASSUME IInv, Calm, NEW r \in Runs, state[r] = "DONE", NEW s \in Steps
               PROVE  \/ Latest(r, s) = "executed_ok" /\ effects[r][s] > 0
                      \/ Latest(r, s) = "executed_failed"
    BY DEF DoneDecided
  <2>1. BaseInv /\ CalmInv /\ RunTypeOK /\ StoreTypeOK
    BY DEF IInv, BaseInv, RunTypeOK
  <2>2. Complete(r, s)
    BY <2>1 DEF CalmInv, Told
  <2>3. ASSUME Latest(r, s) = "executed_ok" PROVE effects[r][s] > 0
    <3>1. PICK rows \in Seq(Rows) : rows = journal[r][s]
      BY <2>1, RowsFacts
    <3>2. rows # <<>> /\ rows[Len(rows)] = "executed_ok"
      BY <2>3, <3>1 DEF Latest
    <3>3. Len(rows) \in DOMAIN rows
      BY <3>2
    <3>4. Len(rows) \in OkRows(r, s)
      BY <3>1, <3>2, <3>3 DEF OkRows
    <3>5. IsFiniteSet(OkRows(r, s)) /\ Cardinality(OkRows(r, s)) \in Nat
      BY <2>1, OkCount
    <3>6. Cardinality(OkRows(r, s)) # 0
      BY <3>4, <3>5, FS_EmptySet
    <3>7. Cardinality(OkRows(r, s)) <= effects[r][s] /\ effects[r][s] \in Nat
      BY <2>1, Counts DEF BaseInv, Paid
    <3>8. QED
      BY <3>5, <3>6, <3>7
  <2>4. QED
    BY <2>2, <2>3 DEF Complete
<1>2. QED
  BY <1>1, Inductive, PTL

\* Where moreover nobody runs `runs show` or `runs resume` beside a worker, a run
\* waits for a human only over a step whose fate is open.
THEOREM ParkedOverDoubt == Spec => [](Calm /\ Unwatched => ParkedInDoubt)
<1>1. IInv => (Calm /\ Unwatched => ParkedInDoubt)
  BY DEF IInv, CalmInv, Told, InDoubt, ParkedInDoubt
<1>2. QED
  BY <1>1, Inductive, PTL
=============================================================================
