------------------------- MODULE RunRecoveryProofs -------------------------
(***************************************************************************)
(* The worker that may be killed at any point (RunRecovery) repeats no      *)
(* effect and leaves no false row, for any number of steps of any kinds,    *)
(* any hints and any number of kills.                                       *)
(***************************************************************************)
EXTENDS RunRecovery, FiniteSetTheorems, WellFoundedInduction, TLAPS

\* Steps whose effect nobody can probe for or make idempotent.
Opaque(s) ==
    Kind[s] \notin {"model", "read_only", "file_write", "idempotent_http"}

\* The worker is between begin_step and complete_step.
InFlight == worker.pc \in {"begun", "writing", "executed"}

\* The steps are taken in order: no step has a row before all the steps in
\* front of it succeeded, and this worker writes no other rows than these.
InOrder ==
    \A s \in Steps :
        /\ Latest(run, s) \in {"none", "started", "executed_ok"}
        /\ journal[run][s] # <<>> =>
              \A q \in Steps : q < s => Latest(run, q) = "executed_ok"

\* Before a step has a row nothing of it has happened, and an opaque one that
\* is about to be executed has not been executed before.
Untouched ==
    \A s \in Steps : Opaque(s) =>
        /\ Latest(run, s) = "none" => effects[s] = 0
        /\ At("begun") /\ worker.step = s => effects[s] = 0

\* What the worker holds agrees with the journal: about to begin a step, all
\* before it are done and it is new or safe to run again; in flight, its
\* intent is the last row of its step.
WorkerTrue ==
    /\ At("next") =>
          /\ \A q \in Steps : q < worker.step => Latest(run, q) = "executed_ok"
          /\ worker.step \in Steps =>
                \/ Latest(run, worker.step) = "none"
                \/ /\ Latest(run, worker.step) = "started"
                   /\ ~Opaque(worker.step)
    /\ InFlight =>
          /\ worker.step \in Steps
          /\ Latest(run, worker.step) = "started"
          /\ worker.intent = Len(journal[run][worker.step])
    /\ At("writing") => worker.step \in FileSteps
    /\ At("executed") => InPlace(worker.step)

\* A finished run is never picked up again and all its steps are in place: the
\* worker skips none, however often it was killed on the way.
DoneInPlace ==
    state[run] = "DONE" =>
        At("down") /\ \A s \in Steps :
                        Latest(run, s) = "executed_ok" /\ InPlace(s)

IInv ==
    /\ TypeOK
    /\ InOrder
    /\ Untouched
    /\ WorkerTrue
    /\ EffectOnce
    /\ JournalTrue
    /\ DoneInPlace

-----------------------------------------------------------------------------

\* A nonempty set of naturals has a least element, and Min is it: what
\* resume_run's walk over the steps in order comes to.
LEMMA LeastNatural ==
    ASSUME NEW S, S \subseteq Nat, S # {}
    PROVE  Min(S) \in S /\ \A y \in S : Min(S) =< y
<1>1. OpToRel(<, Nat) = {ss \in Nat \X Nat : ss[1] < ss[2]}
  BY Zenon DEF OpToRel
<1>2. \E x \in S : \A y \in S : ~(<<y, x>> \in OpToRel(<, Nat))
  BY NatLessThanWellFounded, WFMin
<1>3. PICK x \in S : \A y \in S : ~(<<y, x>> \in {ss \in Nat \X Nat : ss[1] < ss[2]})
  BY <1>2, <1>1, Zenon
<1>4. \A y \in S : x =< y
  <2> SUFFICES ASSUME NEW y \in S, y < x PROVE FALSE
    OBVIOUS
  <2>1. <<y, x>> \in Nat \X Nat
    OBVIOUS
  <2>2. <<y, x>>[1] < <<y, x>>[2]
    OBVIOUS
  <2>3. <<y, x>> \in {ss \in Nat \X Nat : ss[1] < ss[2]}
    BY <2>1, <2>2, Zenon
  <2> QED
    BY <1>3, <2>3, Zenon
<1>5. QED
  BY <1>4 DEF Min

\* The run the worker is given exists, and its journal has a sequence of rows
\* for every step.
LEMMA TheRun ==
    ASSUME StoreTypeOK
    PROVE  /\ run \in Runs
           /\ \A s \in Steps : journal[run][s] \in Seq(Rows)
           /\ \A s \in Steps : Latest(run, s) = "none" <=> journal[run][s] = <<>>
<1>1. run \in Runs
  BY StoreSizes DEF run, Runs
<1>2. \A s \in Steps : journal[run][s] \in Seq(Rows)
  BY <1>1 DEF StoreTypeOK
<1>3. ASSUME NEW s \in Steps, journal[run][s] # <<>>
      PROVE  Latest(run, s) # "none"
  <2>1. journal[run][s][Len(journal[run][s])] \in Rows
    BY <1>2, <1>3
  <2>2. QED
    BY <2>1, <1>3 DEF Latest, Rows, Decided
<1>4. QED
  BY <1>1, <1>2, <1>3 DEF Latest

\* A row appended to a step is its latest, and every other step keeps its own.
LEMMA Appended ==
    ASSUME StoreTypeOK, NEW s \in Steps, NEW o \in Rows,
           journal' = [journal EXCEPT ![run][s] = Append(@, o)]
    PROVE  /\ journal' \in [Runs -> [Steps -> Seq(Rows)]]
           /\ Latest(run, s)' = o
           /\ Len(journal'[run][s]) = Len(journal[run][s]) + 1
           /\ journal'[run][s] # <<>>
           /\ \A q \in Steps : q # s =>
                 journal'[run][q] = journal[run][q] /\ Latest(run, q)' = Latest(run, q)
<1> DEFINE rows == journal[run][s]
<1>1. rows \in Seq(Rows) /\ run \in Runs
  BY TheRun
<1>2. journal'[run][s] = Append(rows, o)
  BY <1>1 DEF StoreTypeOK
<1>3. \A q \in Steps : q # s => journal'[run][q] = journal[run][q]
  BY <1>1 DEF StoreTypeOK
<1>4. journal' \in [Runs -> [Steps -> Seq(Rows)]]
  BY <1>1 DEF StoreTypeOK
<1>5. /\ Len(Append(rows, o)) = Len(rows) + 1
      /\ Append(rows, o)[Len(rows) + 1] = o
      /\ Append(rows, o) # <<>>
  BY <1>1
<1> HIDE DEF rows
<1>6. QED
  BY <1>2, <1>3, <1>4, <1>5 DEF Latest, rows

\* Where resume_run stops: everything before it is complete, it is not.
LEMMA Stops ==
    ASSUME NEW r, NEW landed
    PROVE  LET p == ResumePoint(r, landed)
           IN  /\ p \in 1..Calls + 1
               /\ \A s \in Steps : s < p => Standing(r, s, landed) = "complete"
               /\ p \in Steps => Standing(r, p, landed) # "complete"
<1> DEFINE Open == {s \in Steps : Standing(r, s, landed) # "complete"} \cup {Calls + 1}
           p == ResumePoint(r, landed)
<1>1. Open \subseteq Nat /\ Open # {} /\ Open \subseteq 1..Calls + 1
  BY StoreSizes DEF Steps
<1>2. Min(Open) \in Open /\ \A y \in Open : Min(Open) =< y
  BY <1>1, LeastNatural
<1>3. p = Min(Open)
  BY DEF ResumePoint
<1>4. p \in Open /\ \A y \in Open : p =< y
  BY <1>2, <1>3
<1> HIDE DEF p
<1>5. p \in 1..Calls + 1
  BY <1>4, <1>1
<1>6. p \in Steps => Standing(r, p, landed) # "complete"
  BY <1>4, StoreSizes DEF Steps
<1>7. \A s \in Steps : s < p => Standing(r, s, landed) = "complete"
  BY <1>4, <1>5, StoreSizes DEF Steps
<1>8. QED
  BY <1>5, <1>6, <1>7 DEF p

\* What resume_run does to the journal: every step before the one it stops at
\* is closed as done, the rest is left alone.
LEMMA Resumed ==
    ASSUME StoreTypeOK, NEW landed, Resume(run, landed)
    PROVE  /\ StoreTypeOK'
           /\ \A s \in Steps :
                 IF s < ResumePoint(run, landed) /\ Latest(run, s) = "started"
                 THEN Latest(run, s)' = "executed_ok"
                 ELSE Latest(run, s)' = Latest(run, s)
           /\ \A s \in Steps :
                 journal'[run][s] = <<>> <=> journal[run][s] = <<>>
<1> DEFINE p == ResumePoint(run, landed)
           rows(s) == IF s < p /\ Latest(run, s) = "started"
                      THEN Append(journal[run][s], "executed_ok")
                      ELSE journal[run][s]
<1>1. run \in Runs /\ \A s \in Steps : journal[run][s] \in Seq(Rows)
  BY TheRun
<1>2. journal' = [journal EXCEPT ![run] = [s \in Steps |-> rows(s)]]
  BY DEF Resume
<1>3. "executed_ok" \in Rows
  BY DEF Rows, Decided
<1> HIDE DEF p
<1>4. \A s \in Steps : rows(s) \in Seq(Rows)
  BY <1>1, <1>3
<1>5. \A s \in Steps : journal'[run][s] = rows(s)
  BY <1>1, <1>2 DEF StoreTypeOK
<1>6. journal' \in [Runs -> [Steps -> Seq(Rows)]]
  BY <1>1, <1>2, <1>4 DEF StoreTypeOK
<1>7. state' \in [Runs -> RunStates \cup {"ABSENT"}]
  BY <1>1 DEF StoreTypeOK, Resume, MarkNeedsReview, Transition, RunStates
<1>8. ASSUME NEW s \in Steps, s < p /\ Latest(run, s) = "started"
      PROVE  Latest(run, s)' = "executed_ok" /\ journal'[run][s] # <<>>
                /\ journal[run][s] # <<>>
  <2>1. journal'[run][s] = Append(journal[run][s], "executed_ok")
    BY <1>5, <1>8
  <2>2. journal[run][s] \in Seq(Rows) /\ journal[run][s] # <<>>
    BY <1>1, <1>8, TheRun
  <2>3. QED
    BY <2>1, <2>2, <1>3 DEF Latest
<1>9. ASSUME NEW s \in Steps, ~(s < p /\ Latest(run, s) = "started")
      PROVE  Latest(run, s)' = Latest(run, s) /\ journal'[run][s] = journal[run][s]
  <2>1. journal'[run][s] = journal[run][s]
    BY <1>5, <1>9
  <2>2. QED
    BY <2>1 DEF Latest
<1>10. QED
  BY <1>6, <1>7, <1>8, <1>9 DEF StoreTypeOK, p

\* The budget is never what stops this worker: a step in flight is not among
\* the ones complete_step counts, and there are no more steps than max_steps.
LEMMA WithinBudget ==
    ASSUME NEW s \in Steps, Latest(run, s) = "started"
    PROVE  ~(Cardinality(StepsUsed(run)) + 1 > MaxSteps)
<1>1. StepsUsed(run) \subseteq Steps \ {s}
  BY DEF StepsUsed, Decided
<1>2. IsFiniteSet(Steps) /\ Cardinality(Steps) = Calls
  BY FS_Interval, StoreSizes DEF Steps
<1>3. IsFiniteSet(Steps \ {s}) /\ Cardinality(Steps \ {s}) = Calls - 1
  BY <1>2, FS_RemoveElement
<1>4. /\ Cardinality(StepsUsed(run)) <= Calls - 1
      /\ Cardinality(StepsUsed(run)) \in Nat
  BY <1>1, <1>3, FS_Subset, FS_CardinalityType
<1>5. QED
  BY <1>4, StoreSizes

-----------------------------------------------------------------------------

LEMMA InitIInv == Init => IInv
<1> SUFFICES ASSUME Init PROVE IInv
  OBVIOUS
<1>1. run \in Runs /\ 1 \in 1..Calls + 1
  BY StoreSizes DEF run, Runs
<1>2. StoreTypeOK
  BY DEF Init, StoreTypeOK, RunStates
<1>3. TypeOK
  BY <1>1, <1>2, MaxKillsAssumption DEF Init, TypeOK
<1>4. \A s \in Steps : journal[run][s] = <<>> /\ Latest(run, s) = "none"
  BY <1>1 DEF Init, Latest
<1>5. InOrder /\ JournalTrue
  BY <1>4 DEF InOrder, JournalTrue
<1>6. Untouched /\ EffectOnce
  BY DEF Init, Untouched, EffectOnce, At, Opaque, FileSteps
<1>7. WorkerTrue
  BY DEF Init, WorkerTrue, At, InFlight
<1>8. DoneInPlace
  BY <1>1 DEF Init, DoneInPlace
<1>9. QED
  BY <1>3, <1>5, <1>6, <1>7, <1>8 DEF IInv

\* The worker moves, the store and the world stay: only what it holds has to
\* be looked at again.
LEMMA Moves ==
    ASSUME IInv, UNCHANGED <<journal, file, effects>>
    PROVE  /\ InOrder' /\ EffectOnce' /\ JournalTrue'
           /\ \A s \in Steps : Latest(run, s)' = Latest(run, s)
           /\ \A s \in Steps : InPlace(s)' = InPlace(s)
<1>1. \A s \in Steps : Latest(run, s)' = Latest(run, s)
  BY DEF Latest
<1>2. \A s \in Steps : InPlace(s)' = InPlace(s)
  BY DEF InPlace
<1>3. InOrder'
  BY <1>1 DEF IInv, InOrder
<1>4. EffectOnce'
  BY DEF IInv, EffectOnce
<1>5. JournalTrue'
  BY <1>1, <1>2 DEF IInv, JournalTrue
<1>6. QED
  BY <1>1, <1>2, <1>3, <1>4, <1>5

LEMMA StartIInv == IInv /\ Start => IInv'
<1> SUFFICES ASSUME IInv, Start PROVE IInv'
  OBVIOUS
<1>1. run \in Runs /\ StoreTypeOK
  BY TheRun DEF IInv, TypeOK
<1>2. StoreTypeOK'
  BY <1>1 DEF StoreTypeOK, Start, Transition, RunStates
<1>3. TypeOK'
  BY <1>2 DEF IInv, TypeOK, Start, Goto
<1>4. /\ InOrder' /\ EffectOnce' /\ JournalTrue'
      /\ \A s \in Steps : Latest(run, s)' = Latest(run, s)
      /\ \A s \in Steps : InPlace(s)' = InPlace(s)
  BY Moves DEF Start
<1>5. worker'.pc = "resuming"
  BY DEF IInv, TypeOK, Start, Goto
<1>6. Untouched'
  BY <1>4, <1>5 DEF IInv, Untouched, Start, At
<1>7. WorkerTrue'
  BY <1>5 DEF WorkerTrue, At, InFlight
<1>8. state'[run] # "DONE"
  BY <1>1 DEF Start, Transition, StoreTypeOK, Terminal
<1>9. QED
  BY <1>3, <1>4, <1>6, <1>7, <1>8 DEF IInv, DoneInPlace

LEMMA ReconcileIInv == IInv /\ Reconcile => IInv'
<1> SUFFICES ASSUME IInv, Reconcile PROVE IInv'
  OBVIOUS
<1>0. PICK p : p = ResumePoint(run, Landed)
  OBVIOUS
<1>1. run \in Runs /\ StoreTypeOK
  BY TheRun DEF IInv, TypeOK
<1>2. /\ p \in 1..Calls + 1
      /\ \A s \in Steps : s < p => Standing(run, s, Landed) = "complete"
      /\ p \in Steps => Standing(run, p, Landed) # "complete"
  BY <1>0, Stops
<1>3. /\ StoreTypeOK'
      /\ \A s \in Steps :
            IF s < p /\ Latest(run, s) = "started"
            THEN Latest(run, s)' = "executed_ok"
            ELSE Latest(run, s)' = Latest(run, s)
      /\ \A s \in Steps : journal'[run][s] = <<>> <=> journal[run][s] = <<>>
  BY <1>0, <1>1, Resumed DEF Reconcile
<1>4. /\ worker'.pc = IF Doubtful(run, Landed) THEN "down" ELSE "next"
      /\ worker'.step = IF Doubtful(run, Landed) THEN 1 ELSE p
      /\ worker'.intent = 0
      /\ UNCHANGED <<file, effects, kills>>
  BY <1>0 DEF Reconcile
<1>5. Doubtful(run, Landed) <=> p \in Steps /\ Standing(run, p, Landed) = "review"
  BY <1>0 DEF Doubtful
<1>6. worker' \in [pc : {"down", "resuming", "next", "begun", "writing", "executed"},
                   step : 1..Calls + 1, intent : Nat]
  BY <1>0, <1>2, StoreSizes DEF Reconcile
<1>7. TypeOK'
  BY <1>3, <1>4, <1>6 DEF IInv, TypeOK
<1>8. \A s \in Steps : Latest(run, s) \in {"none", "started", "executed_ok"}
  BY DEF IInv, InOrder
<1>9. \A s \in Steps : InPlace(s)' = InPlace(s)
  BY <1>4 DEF InPlace
<1>10. ASSUME NEW s \in Steps, s < p
       PROVE  Latest(run, s)' = "executed_ok" /\ InPlace(s)
  <2>1. Standing(run, s, Landed) = "complete"
    BY <1>2, <1>10
  <2>2. CASE Latest(run, s) = "executed_ok"
    BY <2>2, <1>3 DEF IInv, JournalTrue
  <2>3. CASE Latest(run, s) = "started"
    <3>1. Verdict(s, Landed) = "complete"
      BY <2>1, <2>3 DEF Standing
    <3>2. s \in Landed
      BY <3>1 DEF Verdict
    <3>3. QED
      BY <3>2, <1>3, <1>10, <2>3 DEF Landed, InPlace
  <2>4. CASE Latest(run, s) = "none"
    BY <2>1, <2>4 DEF Standing
  <2>5. QED
    BY <1>8, <2>2, <2>3, <2>4
<1>11. \A s \in Steps : ~(s < p) => Latest(run, s)' = Latest(run, s)
  BY <1>3
<1>12. InOrder'
  BY <1>3, <1>8, <1>10, <1>11 DEF IInv, InOrder
<1>13. JournalTrue'
  BY <1>9, <1>10, <1>11 DEF IInv, JournalTrue
<1>14. EffectOnce'
  BY <1>4 DEF IInv, EffectOnce
<1>15. Untouched'
  <2>1. \A s \in Steps : Latest(run, s)' = "none" => Latest(run, s) = "none"
    BY <1>3
  <2>2. QED
    BY <1>4, <2>1 DEF IInv, Untouched, At
<1>16. WorkerTrue'
  <2>1. CASE Doubtful(run, Landed)
    BY <2>1, <1>4 DEF WorkerTrue, At, InFlight
  <2>2. CASE ~Doubtful(run, Landed)
    <3>1. worker'.pc = "next" /\ worker'.step = p
      BY <2>2, <1>4
    <3>2. ASSUME p \in Steps
          PROVE  \/ Latest(run, p)' = "none"
                 \/ Latest(run, p)' = "started" /\ ~Opaque(p)
      <4>1. Latest(run, p)' = Latest(run, p)
        BY <3>2, <1>2, <1>11
      <4>2. Standing(run, p, Landed) \notin {"complete", "review"}
        BY <3>2, <2>2, <1>2, <1>5
      <4>3. Latest(run, p) # "executed_ok"
        BY <4>2 DEF Standing
      <4>4. CASE Latest(run, p) = "started"
        <5>1. Verdict(p, Landed) # "review"
          BY <4>2, <4>4 DEF Standing
        <5>2. ~Opaque(p)
          BY <5>1 DEF Verdict, Opaque
        <5>3. QED
          BY <4>1, <4>4, <5>2
      <4>5. QED
        BY <3>2, <4>1, <4>3, <4>4, <1>8
    <3>3. QED
      BY <3>1, <3>2, <1>10 DEF WorkerTrue, At, InFlight, Opaque
  <2>3. QED
    BY <2>1, <2>2
<1>17. state'[run] # "DONE"
  BY <1>1 DEF IInv, DoneInPlace, Reconcile, Resume, MarkNeedsReview, Transition,
              StoreTypeOK, At
<1>18. QED
  BY <1>7, <1>12, <1>13, <1>14, <1>15, <1>16, <1>17 DEF IInv, DoneInPlace

LEMMA BeginIInv == IInv /\ Begin => IInv'
<1> SUFFICES ASSUME IInv, Begin PROVE IInv'
  OBVIOUS
<1>0. PICK s \in Steps : s = worker.step
  BY DEF Begin
<1>1. /\ run \in Runs /\ StoreTypeOK /\ s \in Steps
      /\ worker.pc = "next" /\ UNCHANGED <<state, file, effects, kills>>
      /\ \A q \in Steps : Latest(run, q) = "none" <=> journal[run][q] = <<>>
      /\ journal[run][s] \in Seq(Rows)
  BY <1>0, TheRun DEF IInv, TypeOK, Begin, At
<1>2. /\ journal' \in [Runs -> [Steps -> Seq(Rows)]]
      /\ Latest(run, s)' = "started"
      /\ Len(journal'[run][s]) = Len(journal[run][s]) + 1
      /\ journal'[run][s] # <<>>
      /\ \A q \in Steps : q # s =>
            journal'[run][q] = journal[run][q] /\ Latest(run, q)' = Latest(run, q)
  BY <1>0, <1>1, Appended DEF Begin, BeginStep, Rows
<1>3. /\ worker'.pc = "begun" /\ worker'.step = s
      /\ worker'.intent = Len(journal[run][s]) + 1
      /\ worker' \in [pc : {"down", "resuming", "next", "begun", "writing", "executed"},
                       step : 1..Calls + 1, intent : Nat]
  <2>1. Len(journal[run][s]) + 1 \in Nat
    BY <1>1
  <2>2. worker' = [worker EXCEPT !.pc = "begun", !.intent = Len(journal[run][s]) + 1]
    BY <1>0 DEF Begin
  <2>3. QED
    BY <1>0, <2>1, <2>2 DEF IInv, TypeOK
<1>4. TypeOK'
  BY <1>1, <1>2, <1>3 DEF IInv, TypeOK, StoreTypeOK
<1>5. /\ \A q \in Steps : q < s => Latest(run, q) = "executed_ok"
      /\ Latest(run, s) = "none" \/ (Latest(run, s) = "started" /\ ~Opaque(s))
  BY <1>0, <1>1 DEF IInv, WorkerTrue, At
<1>6. \A q \in Steps : InPlace(q)' = InPlace(q)
  BY <1>1 DEF InPlace
<1>7. \A q \in Steps : s < q => journal[run][q] = <<>>
  BY <1>1, <1>5 DEF IInv, InOrder
<1>8. InOrder'
  BY <1>1, <1>2, <1>5, <1>7 DEF IInv, InOrder, Steps
<1>9. EffectOnce' /\ JournalTrue'
  BY <1>1, <1>2, <1>6 DEF IInv, EffectOnce, JournalTrue
<1>10. Untouched'
  BY <1>1, <1>2, <1>3, <1>5 DEF IInv, Untouched, At
<1>11. WorkerTrue'
  BY <1>1, <1>2, <1>3 DEF WorkerTrue, At, InFlight
<1>12. DoneInPlace'
  BY <1>1 DEF IInv, DoneInPlace, At
<1>13. QED
  BY <1>4, <1>8, <1>9, <1>10, <1>11, <1>12 DEF IInv

\* In flight the worker acts on its own step only, whose latest row is its
\* intent: whatever it does there, the other steps stay as they are.
LEMMA ActsOnItsStep ==
    ASSUME IInv, InFlight, UNCHANGED <<state, journal>>, TypeOK',
           NEW s \in Steps, s = worker.step, worker'.step = s,
           worker'.intent = worker.intent,
           worker'.pc \in {"writing", "executed"},
           worker'.pc = "writing" => s \in FileSteps,
           \A q \in FileSteps : q # s => file'[q] = file[q],
           \A q \in Steps \ FileSteps : q # s => effects'[q] = effects[q],
           s \notin FileSteps => effects'[s] <= 1,
           worker'.pc = "executed" => InPlace(s)'
    PROVE  IInv'
<1>1. \A q \in Steps : Latest(run, q)' = Latest(run, q)
  BY DEF Latest
<1>2. Latest(run, s) = "started" /\ worker.intent = Len(journal[run][s])
  BY DEF IInv, WorkerTrue
<1>3. \A q \in Steps : q # s => (InPlace(q)' <=> InPlace(q))
  BY DEF InPlace
<1>4. InOrder'
  BY <1>1 DEF IInv, InOrder
<1>5. JournalTrue'
  BY <1>1, <1>2, <1>3 DEF IInv, JournalTrue
<1>6. EffectOnce'
  BY DEF IInv, EffectOnce
<1>7. Untouched'
  BY <1>1, <1>2 DEF IInv, Untouched, At, Opaque, FileSteps
<1>8. WorkerTrue'
  BY <1>1, <1>2 DEF WorkerTrue, At, InFlight
<1>9. DoneInPlace'
  BY DEF IInv, DoneInPlace, At, InFlight
<1>10. QED
  BY <1>4, <1>5, <1>6, <1>7, <1>8, <1>9 DEF IInv

LEMMA TruncateIInv == IInv /\ Truncate => IInv'
<1> SUFFICES ASSUME IInv, Truncate PROVE IInv'
  OBVIOUS
<1>1. PICK s \in Steps : s = worker.step /\ s \in FileSteps
  BY DEF Truncate, FileSteps
<1>2. /\ UNCHANGED <<state, journal, effects, kills>>
      /\ file' = [file EXCEPT ![s] = "torn"]
      /\ worker.pc = "begun"
      /\ worker' = [worker EXCEPT !.pc = "writing"]
  BY <1>1 DEF Truncate, Goto, At
<1>3. TypeOK'
  BY <1>1, <1>2 DEF IInv, TypeOK, StoreTypeOK
<1>4. /\ worker'.pc = "writing" /\ worker'.step = s /\ worker'.intent = worker.intent
      /\ \A q \in FileSteps : q # s => file'[q] = file[q]
  BY <1>1, <1>2 DEF IInv, TypeOK
<1>5. InFlight
  BY <1>2 DEF InFlight
<1>6. QED
  BY <1>1, <1>2, <1>3, <1>4, <1>5, ActsOnItsStep

LEMMA WriteIInv == IInv /\ Write => IInv'
<1> SUFFICES ASSUME IInv, Write PROVE IInv'
  OBVIOUS
<1>1. PICK s \in Steps : s = worker.step /\ s \in FileSteps
  BY DEF Write, FileSteps, IInv, WorkerTrue
<1>2. /\ UNCHANGED <<state, journal, effects, kills>>
      /\ file' = [file EXCEPT ![s] = "new"]
      /\ worker.pc = "writing"
      /\ worker' = [worker EXCEPT !.pc = "executed"]
  BY <1>1 DEF Write, Goto, At
<1>3. TypeOK'
  BY <1>1, <1>2 DEF IInv, TypeOK, StoreTypeOK
<1>4. /\ worker'.pc = "executed" /\ worker'.step = s /\ worker'.intent = worker.intent
      /\ \A q \in FileSteps : q # s => file'[q] = file[q]
      /\ file'[s] = "new"
  BY <1>1, <1>2 DEF IInv, TypeOK
<1>5. InFlight /\ InPlace(s)'
  BY <1>1, <1>2, <1>4 DEF InFlight, InPlace
<1>6. QED
  BY <1>1, <1>2, <1>3, <1>4, <1>5, ActsOnItsStep

LEMMA ExecuteIInv == IInv /\ Execute => IInv'
<1> SUFFICES ASSUME IInv, Execute PROVE IInv'
  OBVIOUS
<1>1. PICK s \in Steps : s = worker.step /\ s \notin FileSteps
  BY DEF Execute, IInv, WorkerTrue, InFlight, At
<1>2. PICK n : n = CASE Kind[s] \in {"model", "read_only"} -> 0
                     [] Kind[s] = "idempotent_http" -> 1
                     [] OTHER -> effects[s] + 1
  OBVIOUS
<1>3. /\ UNCHANGED <<state, journal, file, kills>>
      /\ effects' = [effects EXCEPT ![s] = n]
      /\ worker.pc = "begun"
      /\ worker' = [worker EXCEPT !.pc = "executed"]
  BY <1>1, <1>2 DEF Execute, Goto, At
<1>4. Opaque(s) => effects[s] = 0
  BY <1>1, <1>3 DEF IInv, Untouched, At
<1>5. n \in {0, 1} /\ (Kind[s] \in {"model", "read_only"} \/ n = 1)
  BY <1>1, <1>2, <1>4 DEF Opaque, FileSteps
<1>6. TypeOK'
  <2>1. n \in Nat
    BY <1>5
  <2>2. effects' \in [Steps \ FileSteps -> Nat]
    BY <1>3, <2>1 DEF IInv, TypeOK
  <2>3. QED
    BY <1>3, <2>2 DEF IInv, TypeOK, StoreTypeOK
<1>7. /\ worker'.pc = "executed" /\ worker'.step = s /\ worker'.intent = worker.intent
      /\ \A q \in Steps \ FileSteps : q # s => effects'[q] = effects[q]
      /\ effects'[s] = n
  BY <1>1, <1>3 DEF IInv, TypeOK
<1>8. InFlight /\ InPlace(s)' /\ effects'[s] <= 1
  BY <1>1, <1>3, <1>5, <1>7 DEF InFlight, InPlace
<1>9. QED
  BY <1>1, <1>3, <1>6, <1>7, <1>8, ActsOnItsStep

LEMMA CompleteIInv == IInv /\ Complete => IInv'
<1> SUFFICES ASSUME IInv, Complete PROVE IInv'
  OBVIOUS
<1>1. PICK s \in Steps : s = worker.step
  BY DEF Complete, IInv, WorkerTrue, InFlight, At
<1>2. /\ run \in Runs /\ StoreTypeOK /\ worker.pc = "executed"
      /\ Latest(run, s) = "started" /\ worker.intent = Len(journal[run][s])
      /\ InPlace(s) /\ UNCHANGED <<file, effects, kills>>
  BY <1>1, TheRun DEF IInv, TypeOK, Complete, At, WorkerTrue, InFlight
<1>3. /\ journal' = [journal EXCEPT ![run][s] = Append(@, "executed_ok")]
      /\ UNCHANGED state
  <2>1. ~(Cardinality(StepsUsed(run)) + 1 > MaxSteps)
    BY <1>2, WithinBudget
  <2>2. QED
    BY <1>1, <1>2, <2>1 DEF Complete, CompleteStep
<1>4. /\ journal' \in [Runs -> [Steps -> Seq(Rows)]]
      /\ Latest(run, s)' = "executed_ok"
      /\ journal'[run][s] # <<>>
      /\ \A q \in Steps : q # s =>
            journal'[run][q] = journal[run][q] /\ Latest(run, q)' = Latest(run, q)
  BY <1>2, <1>3, Appended DEF Rows, Decided
<1>5. /\ worker'.pc = "next" /\ worker'.step = s + 1
      /\ worker' \in [pc : {"down", "resuming", "next", "begun", "writing", "executed"},
                       step : 1..Calls + 1, intent : Nat]
  BY <1>1, StoreSizes DEF Complete, Steps
<1>6. TypeOK'
  BY <1>2, <1>3, <1>4, <1>5 DEF IInv, TypeOK, StoreTypeOK
<1>7. \A q \in Steps : q < s => Latest(run, q) = "executed_ok"
  BY <1>2, TheRun DEF IInv, InOrder
<1>8. \A q \in Steps : s < q => journal[run][q] = <<>> /\ Latest(run, q) = "none"
  BY <1>2, TheRun DEF IInv, InOrder
<1>9. \A q \in Steps : InPlace(q)' = InPlace(q)
  BY <1>2 DEF InPlace
<1>10. InOrder'
  BY <1>4, <1>7, <1>8 DEF IInv, InOrder, Steps
<1>11. JournalTrue' /\ EffectOnce'
  BY <1>2, <1>4, <1>9 DEF IInv, JournalTrue, EffectOnce
<1>12. Untouched'
  BY <1>2, <1>4, <1>5 DEF IInv, Untouched, At
<1>13. WorkerTrue'
  <2>1. \A q \in Steps : q < s + 1 => Latest(run, q)' = "executed_ok"
    BY <1>4, <1>7 DEF Steps
  <2>2. s + 1 \in Steps => Latest(run, s + 1)' = "none"
    BY <1>4, <1>8 DEF Steps
  <2>3. QED
    BY <1>5, <2>1, <2>2 DEF WorkerTrue, At, InFlight
<1>14. DoneInPlace'
  BY <1>2, <1>3 DEF IInv, DoneInPlace, At
<1>15. QED
  BY <1>6, <1>10, <1>11, <1>12, <1>13, <1>14 DEF IInv

LEMMA FinishIInv == IInv /\ Finish => IInv'
<1> SUFFICES ASSUME IInv, Finish PROVE IInv'
  OBVIOUS
<1>1. run \in Runs /\ StoreTypeOK
  BY TheRun DEF IInv, TypeOK
<1>2. StoreTypeOK'
  BY <1>1 DEF StoreTypeOK, Finish, Transition, RunStates
<1>3. /\ worker' \in [pc : {"down", "resuming", "next", "begun", "writing", "executed"},
                       step : 1..Calls + 1, intent : Nat]
      /\ worker'.pc = "down"
  <2>1. 1 \in 1..Calls + 1
    BY StoreSizes
  <2>2. QED
    BY <2>1 DEF IInv, TypeOK, Finish
<1>4. TypeOK'
  BY <1>2, <1>3 DEF IInv, TypeOK, Finish
<1>5. /\ InOrder' /\ EffectOnce' /\ JournalTrue'
      /\ \A s \in Steps : Latest(run, s)' = Latest(run, s)
      /\ \A s \in Steps : InPlace(s)' = InPlace(s)
  BY Moves DEF Finish
<1>6. Untouched'
  BY <1>3, <1>5 DEF IInv, Untouched, Finish, At
<1>7. WorkerTrue'
  BY <1>3 DEF WorkerTrue, At, InFlight
<1>8. \A s \in Steps : Latest(run, s) = "executed_ok"
  <2>1. worker.step = Calls + 1
    BY StoreSizes DEF IInv, TypeOK, Finish, Steps
  <2>2. QED
    BY <2>1, StoreSizes DEF IInv, WorkerTrue, Finish, Steps
<1>9. DoneInPlace'
  BY <1>3, <1>5, <1>8 DEF IInv, DoneInPlace, JournalTrue, At
<1>10. QED
  BY <1>4, <1>5, <1>6, <1>7, <1>9 DEF IInv

LEMMA KillIInv == IInv /\ Kill => IInv'
<1> SUFFICES ASSUME IInv, Kill PROVE IInv'
  OBVIOUS
<1>1. /\ worker' \in [pc : {"down", "resuming", "next", "begun", "writing", "executed"},
                       step : 1..Calls + 1, intent : Nat]
      /\ worker'.pc = "down"
  BY StoreSizes DEF Kill
<1>2. kills' \in 0..MaxKills
  BY MaxKillsAssumption DEF IInv, TypeOK, Kill
<1>3. TypeOK'
  BY <1>1, <1>2 DEF IInv, TypeOK, StoreTypeOK, Kill
<1>4. /\ InOrder' /\ EffectOnce' /\ JournalTrue'
      /\ \A s \in Steps : Latest(run, s)' = Latest(run, s)
      /\ \A s \in Steps : InPlace(s)' = InPlace(s)
  BY Moves DEF Kill
<1>5. Untouched'
  BY <1>1, <1>4 DEF IInv, Untouched, Kill, At
<1>6. WorkerTrue'
  BY <1>1 DEF WorkerTrue, At, InFlight
<1>7. DoneInPlace'
  BY <1>1, <1>4 DEF IInv, DoneInPlace, Kill, At
<1>8. QED
  BY <1>3, <1>4, <1>5, <1>6, <1>7 DEF IInv

LEMMA StutterIInv == IInv /\ UNCHANGED vars => IInv'
<1> SUFFICES ASSUME IInv, UNCHANGED vars PROVE IInv'
  OBVIOUS
<1>1. /\ InOrder' /\ EffectOnce' /\ JournalTrue'
      /\ \A s \in Steps : Latest(run, s)' = Latest(run, s)
      /\ \A s \in Steps : InPlace(s)' = InPlace(s)
  BY Moves DEF vars
<1>2. TypeOK'
  BY DEF IInv, TypeOK, StoreTypeOK, vars
<1>3. Untouched'
  BY <1>1 DEF IInv, Untouched, vars, At
<1>4. WorkerTrue'
  BY <1>1 DEF IInv, WorkerTrue, vars, At, InFlight, InPlace, Latest
<1>5. DoneInPlace'
  BY <1>1 DEF IInv, DoneInPlace, vars, At
<1>6. QED
  BY <1>1, <1>2, <1>3, <1>4, <1>5 DEF IInv

\* IInv holds in every state the worker can reach.
THEOREM Inductive == Spec => []IInv
<1>1. Init => IInv
  BY InitIInv
<1>2. IInv /\ [Next]_vars => IInv'
  BY StartIInv, ReconcileIInv, BeginIInv, TruncateIInv, WriteIInv, ExecuteIInv,
     CompleteIInv, FinishIInv, KillIInv, StutterIInv DEF Next, Work
<1>3. QED
  BY <1>1, <1>2, PTL DEF Spec

\* The type invariant: the worker stays within the steps of its run.
THEOREM RecoveryTyped == Spec => []TypeOK
<1>1. IInv => TypeOK
  BY DEF IInv
<1>2. QED
  BY <1>1, Inductive, PTL

\* No step of a run takes effect twice (reconcile_orphan), however often its
\* worker is killed and wherever.
THEOREM EffectsOnce == Spec => []EffectOnce
<1>1. IInv => EffectOnce
  BY DEF IInv
<1>2. QED
  BY <1>1, Inductive, PTL

\* A step journaled as executed_ok is in place, whole (complete_step and the
\* probe of resume_run).
THEOREM JournalIsTrue == Spec => []JournalTrue
<1>1. IInv => JournalTrue
  BY DEF IInv
<1>2. QED
  BY <1>1, Inductive, PTL

\* A run marked DONE has every one of its steps in place and stays finished.
THEOREM DoneIsWhole == Spec => []DoneInPlace
<1>1. IInv => DoneInPlace
  BY DEF IInv
<1>2. QED
  BY <1>1, Inductive, PTL
=============================================================================
