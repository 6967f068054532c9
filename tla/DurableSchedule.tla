--------------------------- MODULE DurableSchedule ---------------------------
(***************************************************************************)
(* The durable journal under a schedule: run_trigger and run_attempt        *)
(* (scheduled.rs) of several processes over one runs database, with the     *)
(* `supercli runs` commands (runs_cli.rs) an operator gives meanwhile.      *)
(*                                                                          *)
(* A daemon fires under the schedule lease (LeaseStore, ScheduledFire),     *)
(* here reduced to its holder: it may lapse under a live worker, whose      *)
(* calls the lease fence then refuses.  `schedule run-once` takes no lease. *)
(* Of the review log only what the takeover check looks for is kept: whether *)
(* a call of this schedule is in doubt.                                     *)
(* The run lease is left out: run_trigger ignores whether it won the claim, *)
(* nobody renews it, and its only reader is `runs resume`, which may thus   *)
(* succeed or be refused at any time.                                       *)
(***************************************************************************)
EXTENDS RunStore

CONSTANTS
    Workers,      \* processes that fire the schedule
    Nobody,       \* no holder of the schedule lease
    MaxRetries,   \* policy.max_retries
    Events,       \* which disturbances happen: faults, run-once, commands
    MaxEvents     \* bound: how many of them

Faults == {"crash", "journal", "lapse", "unread"}
Commands == {"pause", "cancel", "retry", "show", "resume", "replace"}

ASSUME WorkersAssumption == Nobody \notin Workers
ASSUME PolicyAssumption == MaxRetries \in Nat /\ MaxEvents \in Nat
ASSUME EnvironmentAssumption == Events \subseteq Faults \cup Commands \cup {"once"}
ASSUME ToolSteps == Kind = [s \in Steps |-> "tool"]   \* begin_step(Tool)

VARIABLES
    job,        \* per worker: where its trigger stands
    holder,     \* holder of the schedule lease
    lapsed,     \* the owner the row of the lease names after it ran out, Nobody
                \* when it was released
    doubt,      \* some call has a review and no attempt, or an ambiguous one
    effects,    \* how often each call of each run took effect outside
    events,
    exposed     \* history: runs whose journal writes failed or that run-once took

vars == <<state, journal, job, holder, lapsed, doubt, effects, events, exposed>>

\* What a call returns, and what an attempt ends with.
CallResults == {"ok", "failed", "uncertain", "stale"}
Results == CallResults \cup {"completed", "timed_out", "killed", "capped",
                           "none"}

\* run = 0: the trigger runs without a journal.  intent = 0: no intent.
Job == [pc : {"idle", "opening", "created", "next", "begun", "answered", "called",
              "ending"},
        run : Runs \cup {0}, start : 1..Calls + 1, step : 1..Calls + 1,
        intent : Nat, result : Results, tries : 0..MaxRetries,
        leased : BOOLEAN]                  \* fires under the schedule lease

Idle == [pc |-> "idle", run |-> 0, start |-> 1, step |-> 1, intent |-> 0,
         result |-> "none", tries |-> 0, leased |-> FALSE]

Init ==
    /\ StoreInit
    /\ job = [w \in Workers |-> Idle]
    /\ holder = Nobody /\ lapsed = Nobody /\ doubt = FALSE
    /\ effects = [r \in Runs |-> [s \in Steps |-> 0]]
    /\ events = 0
    /\ exposed = {}

At(w, pc) == job[w].pc = pc
Event(kind) == kind \in Events /\ events < MaxEvents /\ events' = events + 1
\* run-once works on a run without the lease that keeps the daemons apart.
Taken(w, r) == IF job[w].leased THEN exposed ELSE exposed \cup {r}
Released(w) == IF holder = w THEN Nobody ELSE holder

-----------------------------------------------------------------------------
(* Opening the run.                                                         *)

\* v is in a call whose review has been written, with no attempt yet.  Before the
\* call, and when it failed, there may be no review, or one known to have never run.
Unanswered(v) == At(v, "answered") /\ job[v].result \in {"ok", "uncertain"}
MaybeUnanswered(v) == At(v, "begun") \/ (At(v, "answered") /\ job[v].result # "stale")

\* A daemon claims the schedule lease and fires.
Claim(w) ==
    /\ At(w, "idle")
    /\ holder = Nobody
    /\ holder' = w /\ lapsed' = Nobody
    /\ job' = [job EXCEPT ![w].pc = "opening", ![w].leased = TRUE]
    /\ UNCHANGED <<state, journal, doubt, effects, exposed>>

\* check_lapsed_run: over a lapsed lease, only when no call is in doubt.
Fire(w) ==
    /\ lapsed # Nobody => ~doubt /\ \A v \in Workers : ~Unanswered(v)
    /\ Claim(w)
    /\ UNCHANGED events

\* A review log that cannot be read shows no call in doubt.
FireUnread(w) ==
    /\ lapsed # Nobody
    /\ Event("unread")
    /\ Claim(w)

\* A call is in doubt: the daemon opens no run and leaves its lease to lapse.
Hold(w) ==
    /\ At(w, "idle")
    /\ holder = Nobody /\ lapsed # Nobody
    /\ doubt \/ \E v \in Workers : MaybeUnanswered(v)
    /\ lapsed' = w
    /\ UNCHANGED <<state, journal, job, holder, doubt, effects, events, exposed>>

\* `schedule run-once` just fires.
RunOnce(w) ==
    /\ At(w, "idle")
    /\ Event("once")
    /\ job' = [job EXCEPT ![w].pc = "opening"]
    /\ UNCHANGED <<state, journal, holder, lapsed, doubt, effects, exposed>>

\* The newest run that is not terminal is resumed, whatever its state.
ResumeOrphan(w) ==
    /\ At(w, "opening")
    /\ Orphan # 0
    /\ Resume(Orphan, {})
    /\ LET start == ResumePoint(Orphan, {})
       IN  job' = [job EXCEPT ![w] =
             IF Doubtful(Orphan, {})
             THEN [@ EXCEPT !.pc = "ending", !.run = Orphan,
                            !.result = "uncertain"]
             ELSE [@ EXCEPT !.pc = "next", !.run = Orphan,
                            !.start = start, !.step = start]]
    /\ exposed' = Taken(w, Orphan)
    /\ UNCHANGED <<holder, lapsed, doubt, effects, events>>

CreateRun(w) ==
    /\ At(w, "opening")
    /\ Orphan = 0
    /\ \E r \in Runs :
          /\ state[r] = "ABSENT"
          /\ \A q \in Runs : q < r => state[q] # "ABSENT"
          /\ state' = [state EXCEPT ![r] = "QUEUED"]
          /\ job' = [job EXCEPT ![w].pc = "created", ![w].run = r]
          /\ exposed' = Taken(w, r)
    /\ UNCHANGED <<journal, holder, lapsed, doubt, effects, events>>

StartRun(w) ==
    /\ At(w, "created")
    /\ Transition(job[w].run, {"QUEUED"}, "EXECUTING_TOOLS")
    /\ job' = [job EXCEPT ![w].pc = "next"]
    /\ UNCHANGED <<journal, holder, lapsed, doubt, effects, events, exposed>>

\* Any database error while opening leaves the trigger without a journal.
OpenFails(w) ==
    /\ At(w, "opening")
    /\ Event("journal")
    /\ job' = [job EXCEPT ![w].pc = "next"]
    /\ UNCHANGED <<state, journal, holder, lapsed, doubt, effects, exposed>>

-----------------------------------------------------------------------------
(* One attempt: the steps from `start` on, each begun, called, journaled.   *)

Completed(w) ==
    /\ At(w, "next")
    /\ job[w].step \notin Steps
    /\ job' = [job EXCEPT ![w].pc = "ending", ![w].result = "completed"]
    /\ UNCHANGED <<state, journal, holder, lapsed, doubt, effects, events, exposed>>

Begin(w) ==
    /\ At(w, "next")
    /\ job[w].step \in Steps
    /\ job[w].run # 0
    /\ BeginStep(job[w].run, job[w].step)
    /\ job' = [job EXCEPT ![w].pc = "begun",
                  ![w].intent = Len(journal[job[w].run][job[w].step]) + 1]
    /\ UNCHANGED <<state, holder, lapsed, doubt, effects, events, exposed>>

\* No journal, or begin_step failed before or after its insert: the intent is
\* None and the call goes ahead.
BeginUnjournaled(w) ==
    /\ At(w, "next")
    /\ job[w].step \in Steps
    /\ \/ job[w].run = 0 /\ UNCHANGED <<journal, events, exposed>>
       \/ /\ job[w].run # 0
          /\ Event("journal")
          /\ exposed' = exposed \cup {job[w].run}
          /\ UNCHANGED journal \/ BeginStep(job[w].run, job[w].step)
    /\ job' = [job EXCEPT ![w].pc = "begun", ![w].intent = 0]
    /\ UNCHANGED <<state, holder, lapsed, doubt, effects>>

\* The call.  The fence refuses a daemon that lost the schedule lease; an
\* uncertain call may or may not have taken effect.  The calls of a trigger that
\* could not open its journal belong to no run, and effects counts none of them.
Call(w, result) ==
    /\ At(w, "begun")
    /\ result = "stale" <=> job[w].leased /\ holder # w
    /\ \E n \in CASE result = "ok" -> {1}
                  [] result = "uncertain" -> {0, 1}
                  [] OTHER -> {0} :
          effects' = IF job[w].run = 0 THEN effects ELSE
              [effects EXCEPT ![job[w].run][job[w].step] = @ + n]
    /\ job' = [job EXCEPT ![w].pc = "answered", ![w].result = result]
    /\ UNCHANGED <<state, journal, holder, lapsed, doubt, events, exposed>>

\* The fence after the call: a daemon that lost the lease meanwhile writes no
\* attempt and reports a stale lease, whatever the call came to; only a panic is
\* not fenced.  The attempt of an uncertain call is ambiguous, unless it panicked.
FenceAnswer(w) ==
    /\ At(w, "answered")
    /\ \/ /\ job[w].leased => holder = w \/ job[w].result = "uncertain"
          /\ job' = [job EXCEPT ![w].pc = "called"]
          /\ \/ UNCHANGED doubt
             \/ /\ job[w].result = "uncertain"
                /\ job[w].leased => holder = w
                /\ doubt' = TRUE
       \/ /\ job[w].leased /\ holder # w
          /\ job' = [job EXCEPT ![w].pc = "called", ![w].result = "stale"]
          /\ doubt' = (doubt \/ Unanswered(w))
    /\ UNCHANGED <<state, journal, holder, lapsed, effects, events, exposed>>

\* Mutant: only a definite failure is journaled as one.
OutcomeHopeful(result) ==
    IF result = "failed" THEN "executed_failed" ELSE "executed_ok"

\* Mutant: an uncertain call is journaled as a plain failure.
OutcomeFlat(result) ==
    IF result = "ok" THEN "executed_ok" ELSE "executed_failed"

OutcomeOf(result) ==
    CASE result = "ok" -> "executed_ok"
      [] result = "uncertain" -> "ambiguous"
      [] OTHER -> "executed_failed"

\* The retry loop takes failures and timeouts, never an uncertain or a stale
\* call, up to max_retries.
Retryable(j) == j.result \in {"failed", "timed_out"} /\ j.tries < MaxRetries

\* The attempt is over: once more from the same start, or the end.
EndAttempt(j) ==
    IF Retryable(j)
    THEN [j EXCEPT !.pc = "next", !.step = j.start, !.tries = j.tries + 1,
                   !.intent = 0, !.result = "none"]
    ELSE [j EXCEPT !.pc = "ending", !.intent = 0]

\* The wall-clock cap, between two calls.
TimeOut(w) ==
    /\ At(w, "next")
    /\ job[w].step \in Steps
    /\ job' = [job EXCEPT ![w] = EndAttempt([@ EXCEPT !.result = "timed_out"])]
    /\ UNCHANGED <<state, journal, holder, lapsed, doubt, effects, events, exposed>>

\* The outcome is journaled (a failure to is ignored), then the next step.
\* The output cap kills the attempt, and so does step number max_steps.
Record(w) ==
    /\ At(w, "called")
    /\ \/ /\ job[w].intent # 0
          /\ CompleteStep(job[w].run, job[w].step, job[w].intent,
                          OutcomeOf(job[w].result))
          /\ UNCHANGED <<events, exposed>>
       \/ job[w].intent = 0 /\ UNCHANGED <<state, journal, events, exposed>>
       \/ /\ job[w].intent # 0 /\ Event("journal") /\ UNCHANGED storeVars
          /\ exposed' = exposed \cup {job[w].run}
    /\ \/ /\ job[w].result = "ok"
          /\ job[w].step < MaxSteps
          /\ job' = [job EXCEPT ![w].pc = "next", ![w].step = @ + 1,
                                ![w].intent = 0, ![w].result = "none"]
       \/ /\ job[w].result = "ok"
          /\ \E cap \in {"killed"} \cup
                       IF job[w].step = MaxSteps THEN {"capped"} ELSE {} :
                job' = [job EXCEPT ![w] =
                           EndAttempt([@ EXCEPT !.result = cap])]
       \/ /\ job[w].result # "ok"
          /\ job' = [job EXCEPT ![w] = EndAttempt(@)]
    /\ UNCHANGED <<holder, lapsed, doubt, effects>>

Active == {"QUEUED", "AWAITING_MODEL", "EXECUTING_TOOLS",
           "AWAITING_APPROVAL", "PAUSED"}

\* The run is marked, the leases released: the release of a lapsed lease nobody
\* took over counts too.
Finish(w) ==
    /\ At(w, "ending")
    /\ CASE job[w].run = 0 -> UNCHANGED state
         [] job[w].run # 0 /\ job[w].result = "completed" ->
               Transition(job[w].run, Active, "DONE")
         [] job[w].run # 0 /\ job[w].result = "uncertain" ->
               MarkNeedsReview(job[w].run)
         [] OTHER -> Transition(job[w].run, Active, "FAILED")
    /\ holder' = Released(w)
    /\ lapsed' = IF job[w].leased /\ lapsed = w THEN Nobody ELSE lapsed
    /\ job' = [job EXCEPT ![w] = Idle]
    /\ UNCHANGED <<journal, doubt, effects, events, exposed>>

-----------------------------------------------------------------------------
(* Faults and the operator.                                                 *)

\* A dead worker's lease lapses before anyone else fires; its call, if it was in
\* one, stays in doubt.
Crash(w) ==
    /\ ~At(w, "idle")
    /\ Event("crash")
    /\ job' = [job EXCEPT ![w] = Idle]
    /\ holder' = Released(w)
    /\ lapsed' = IF holder = w THEN w ELSE lapsed
    /\ \/ doubt' = (doubt \/ Unanswered(w))
       \/ MaybeUnanswered(w) /\ doubt' = TRUE
    /\ UNCHANGED <<state, journal, effects, exposed>>

\* The lease of a stalled worker lapses under it.
Lapse(w) ==
    /\ holder = w
    /\ Event("lapse")
    /\ holder' = Nobody /\ lapsed' = w
    /\ UNCHANGED <<state, journal, job, doubt, effects, exposed>>

\* A human replaces the calls in doubt, each by one that names it.
Replace ==
    /\ doubt
    /\ Event("replace")
    /\ doubt' = FALSE
    /\ UNCHANGED <<state, journal, job, holder, lapsed, effects, exposed>>

Command(name) == Event(name) /\ UNCHANGED <<job, holder, lapsed, doubt, effects, exposed>>

Pause(r) ==
    /\ Command("pause")
    /\ state[r] \notin {"PAUSED", "DONE", "FAILED", "ABSENT"}
    /\ Transition(r, {state[r]}, "PAUSED")
    /\ UNCHANGED journal

Cancel(r) ==
    /\ Command("cancel")
    /\ state[r] \notin Terminal \cup {"ABSENT"}
    /\ Transition(r, {state[r]}, "FAILED")
    /\ UNCHANGED journal

Retry(r) ==
    /\ Command("retry")
    /\ state[r] \in {"FAILED", "NEEDS_REVIEW"}
    /\ Transition(r, {state[r]}, "QUEUED")
    /\ UNCHANGED journal

\* `runs show` prints the resume analysis by running resume_run.
Show(r) ==
    /\ Command("show")
    /\ state[r] # "ABSENT"
    /\ Resume(r, {})

\* `runs resume` does so too, and nudges a run it read as queued: a run the
\* analysis parked is no longer in that state.
ResumeCommand(r) ==
    /\ Command("resume")
    /\ state[r] # "ABSENT"
    /\ IF Doubtful(r, {}) THEN MarkNeedsReview(r)
       ELSE Transition(r, {"QUEUED"}, "AWAITING_MODEL")
    /\ UNCHANGED journal

WorkerStep(w) ==
    \/ Fire(w) \/ FireUnread(w) \/ Hold(w) \/ RunOnce(w)
    \/ ResumeOrphan(w) \/ CreateRun(w) \/ StartRun(w) \/ OpenFails(w)
    \/ Completed(w) \/ TimeOut(w)
    \/ Begin(w) \/ BeginUnjournaled(w)
    \/ \E result \in CallResults : Call(w, result)
    \/ FenceAnswer(w) \/ Record(w) \/ Finish(w)

Operator(r) == Pause(r) \/ Cancel(r) \/ Retry(r) \/ Show(r) \/ ResumeCommand(r)

Next ==
    \/ \E w \in Workers : WorkerStep(w) \/ Crash(w) \/ Lapse(w)
    \/ \E r \in Runs : Operator(r)
    \/ Replace

\* A live process goes on to its next step: every call is bounded by its
\* transport timeout, and the daemon ticks for as long as it lives.
Fairness == \A w \in Workers : WF_vars(WorkerStep(w))

Spec == Init /\ [][Next]_vars /\ Fairness

-----------------------------------------------------------------------------

\* What the runs and their triggers are made of.
RunTypeOK ==
    /\ StoreTypeOK
    /\ job \in [Workers -> Job]
    /\ holder \in Workers \cup {Nobody}
    /\ effects \in [Runs -> [Steps -> Nat]]
    /\ events \in 0..MaxEvents
    /\ exposed \subseteq Runs

\* Every variable has its type: no trigger steps past the end of the task or
\* beyond its retries (run_trigger, run_attempt).
TypeOK ==
    /\ RunTypeOK
    /\ lapsed \in Workers \cup {Nobody} /\ doubt \in BOOLEAN

\* A begun step is not begun again before its outcome is journaled, and one
\* journaled as ambiguous never is: not by the retry loop of run_trigger, not
\* after a crash, not when the operator retries the run.
NeverReplayed ==
    \A r \in Runs, s \in Steps : \A i \in 1..Len(journal[r][s]) - 1 :
        /\ journal[r][s][i] # "ambiguous"
        /\ journal[r][s][i] = "started" => journal[r][s][i + 1] \in Decided

\* A run is DONE only when every step of it ran to a decided end, whatever
\* crashes, retries and commands came between: none is skipped, left open or
\* ambiguous, and one recorded as a success took effect.
DoneDecided ==
    \A r \in Runs : state[r] = "DONE" =>
        \A s \in Steps :
            \/ Latest(r, s) = "executed_ok" /\ effects[r][s] > 0
            \/ Latest(r, s) = "executed_failed"

\* A run nobody is working on waits for a human only over a step whose fate is
\* open (durable-runs.md: "an external write had an uncertain outcome").
ParkedInDoubt ==
    \A r \in Runs :
        state[r] = "NEEDS_REVIEW" /\ (\A w \in Workers : job[w].run # r) =>
            \E s \in Steps : Latest(r, s) \in {"ambiguous", "started"}

\* Without retries within a trigger, no call of a run takes effect twice: not
\* after crashes, takeovers of a lapsed lease, answers the fence replaced, or
\* commands.  Only a run one of whose journal writes failed (the call goes ahead
\* all the same), or that run-once took without the lease, is exempt; a trigger
\* that could not open its journal has no run.
EffectOnce == \A r \in Runs \ exposed, s \in Steps : effects[r][s] <= 1

\* The journal claims no success that did not happen: a step has at most as
\* many executed_ok rows as it took effect, even when journal writes fail, a
\* lease lapses, or two processes run the same steps and their rows collide.
JournalTrue ==
    \A r \in Runs, s \in Steps :
        Cardinality({i \in DOMAIN journal[r][s] :
                        journal[r][s][i] = "executed_ok"}) <= effects[r][s]

\* The lease lapsed over a call in doubt: whoever takes it over holds the schedule.
Held == holder = Nobody /\ lapsed # Nobody /\ doubt

\* A run in progress does not stay so: the next trigger picks up what a crash
\* left, until the run is finished, parked or paused, unless the takeover check
\* of tick holds the schedule for a human; once the calls in doubt are replaced
\* the run goes on.
Settles ==
    \A r \in Runs :
        state[r] \in {"QUEUED", "AWAITING_MODEL", "EXECUTING_TOOLS"}
            ~> state[r] \in {"DONE", "FAILED", "NEEDS_REVIEW", "PAUSED"} \/ Held

=============================================================================
