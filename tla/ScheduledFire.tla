---------------------------- MODULE ScheduledFire ----------------------------
(***************************************************************************)
(* One firing of a schedule, from the claim of its lease to the release:    *)
(* Scheduler::tick and check_lapsed_run (scheduled.rs), the attempt loop of *)
(* run_trigger, and the fenced, write-ahead tool call of execute_call       *)
(* (session_connectors.rs) over the review log (action_reviews.rs) and the  *)
(* attempt log (connectors-audit.jsonl).                                    *)
(*                                                                          *)
(* A worker may stall between any two steps and be overtaken when its lease *)
(* lapses, or die.  A request that left a worker lives on its own: the far  *)
(* side may carry it out long after the worker gave up on it.               *)
(*                                                                          *)
(* This is the runner without a durable journal (--no-durable); the journal *)
(* is the subject of RunStore and DurableSchedule.                          *)
(***************************************************************************)
EXTENDS LeaseStore, FiniteSets, Sequences

CONSTANTS
    Calls,        \* number of tool calls of the task
    MaxRetries,   \* policy.max_retries
    Results,      \* what a connector call may come back with
    Faults,       \* which faults happen: crashes, failed writes, turn cancels
    MaxReviews    \* bound on the review log

ASSUME CallsAssumption == Calls \in Nat \ {0} /\ MaxRetries \in Nat
ASSUME ResultsAssumption ==
    Results \subseteq {"ok", "definite_failed", "ambiguous", "panic"}
ASSUME FaultsAssumption == Faults \subseteq {"crash", "write", "cancel"}
ASSUME MaxReviewsAssumption == MaxReviews \in Nat

VARIABLES
    job,       \* per worker: where its trigger stands
    reviews,   \* both logs of the session, one record per review
    wire,      \* requests sent and not yet carried out or refused
    ran,       \* requests the far side carried out
    faulty     \* history: reviews a crash, a failed write or a cancel hit

fireVars == <<job, reviews, wire, ran, faulty>>
vars == <<now, rows, claims, job, reviews, wire, ran, faulty>>

Points == {"idle", "claimed", "next", "fenced", "reviewed", "calling",
           "returned", "auditing", "closing", "panicked", "panic_audit",
           "denying", "done"}

Job == [pc : Points, schedule : Schedules, call : 1..Calls + 1,
        tries : 0..MaxRetries, review : 0..MaxReviews,
        result : Results \cup {"none"}]

Outcomes == {"none", "executed_ok", "executed_failed", "ambiguous", "never_ran"}
Attempts == {"none", "ok", "definite_failed", "ambiguous", "panic", "denied"}

\* A review with what the two logs say of it: `outcome` in the review log,
\* `attempt` in the attempt log.  `generation` is history: the run it is of,
\* 0 for a human.
Review == [schedule : Schedules, generation : Nat,
           decision : {"approved", "denied"}, replaces : 0..MaxReviews,
           outcome : Outcomes, attempt : Attempts]

IsScheduled(i) == reviews[i].generation > 0

Init ==
    /\ now = 0
    /\ rows = [s \in Schedules |-> NoRow]
    /\ claims = NoClaims
    /\ job \in [Workers -> {[pc |-> "idle", schedule |-> s, call |-> 1,
                             tries |-> 0, review |-> 0, result |-> "none"] :
                               s \in Schedules}]
    /\ reviews = <<>>
    /\ wire = {} /\ ran = {} /\ faulty = {}

At(w, pc) == job[w].pc = pc
Goto(w, pc) == job' = [job EXCEPT ![w].pc = pc]

-----------------------------------------------------------------------------
(* The tick: claim, takeover check, release.                                *)

\* The claim of tick.  A lost claim or a store error fires nothing.
TickClaim(w, s) ==
    /\ At(w, "idle")
    /\ StoreClaim(w, s)
    /\ job' = [job EXCEPT ![w] = [pc |-> "claimed", schedule |-> s, call |-> 1,
                                  tries |-> 0, review |-> 0,
                                  result |-> "none"]]
    /\ UNCHANGED <<reviews, wire, ran, faulty>>

\* Every item some review names as replaced, whatever that review decided.
Superseded == {reviews[i].replaces : i \in DOMAIN reviews}

\* Mutant: only ambiguous attempts are uncertain, not reviews without attempt.
UncertainAttempts(s) ==
    {i \in DOMAIN reviews :
        /\ IsScheduled(i)
        /\ reviews[i].schedule = s
        /\ i \notin Superseded
        /\ reviews[i].outcome # "never_ran"
        /\ reviews[i].attempt = "ambiguous"}

\* check_lapsed_run: the reviews of this schedule without a recorded attempt,
\* or with an ambiguous one, that nothing supersedes and that are not known to
\* have never run.  The logs are readable here: an unreadable review log counts
\* as empty and fails open (FireUnread of DurableSchedule has that case).
Uncertain(s) ==
    {i \in DOMAIN reviews :
        /\ IsScheduled(i)
        /\ reviews[i].schedule = s
        /\ i \notin Superseded
        /\ reviews[i].outcome # "never_ran"
        /\ reviews[i].attempt \in {"none", "ambiguous"}}

TookOver(w) == claims[w][job[w].schedule].lapsed_owner # Tombstone

\* Takeover of a lapsed lease with uncertainty left behind: the schedule is
\* held for a human; the lease is neither used nor released.
NeedsReview(w) ==
    /\ At(w, "claimed")
    /\ TookOver(w)
    /\ Uncertain(job[w].schedule) # {}
    /\ StoreHold(w, job[w].schedule)
    /\ Goto(w, "idle")
    /\ UNCHANGED <<reviews, wire, ran, faulty>>

Fire(w) ==
    /\ At(w, "claimed")
    /\ TookOver(w) => Uncertain(job[w].schedule) = {}
    /\ Goto(w, "next")
    /\ UNCHANGED <<now, rows, claims, reviews, wire, ran, faulty>>

\* The run is over: tick releases the lease, which a stale worker cannot.
Finish(w) ==
    /\ At(w, "done")
    /\ StoreRelease(w, job[w].schedule)
    /\ Goto(w, "idle")
    /\ UNCHANGED <<reviews, wire, ran, faulty>>

-----------------------------------------------------------------------------
(* The attempt: run_attempt over the calls, and the retry loop around it.   *)

\* A call that failed for certain ends the attempt; the runner starts the task
\* over while retries are left.
FailAttempt(w) ==
    job' = [job EXCEPT ![w] =
              IF @.tries < MaxRetries
              THEN [@ EXCEPT !.pc = "next", !.call = 1, !.tries = job[w].tries + 1,
                             !.review = 0, !.result = "none"]
              ELSE [@ EXCEPT !.pc = "done", !.review = 0, !.result = "none"]]

\* An uncertain or a stale failure, or a cap, ends the run.
EndRun(w) ==
    job' = [job EXCEPT ![w] = [@ EXCEPT !.pc = "done", !.review = 0,
                                        !.result = "none"]]

NextCall(w) ==
    job' = [job EXCEPT ![w] = [@ EXCEPT !.pc = "next", !.call = job[w].call + 1,
                                        !.review = 0, !.result = "none"]]

\* No call is left.
Completed(w) ==
    /\ At(w, "next")
    /\ job[w].call > Calls
    /\ EndRun(w)
    /\ UNCHANGED <<now, rows, claims, reviews, wire, ran, faulty>>

\* The deadline passed, or the call is refused before any review: an unknown
\* tool, the rate limit, a review that could not be written.
Refused(w) ==
    /\ At(w, "next")
    /\ job[w].call <= Calls
    /\ FailAttempt(w)
    /\ UNCHANGED <<now, rows, claims, reviews, wire, ran, faulty>>

-----------------------------------------------------------------------------
(* The tool call.                                                           *)

ReviewOf(w, decision) ==
    [schedule |-> job[w].schedule,
     generation |-> claims[w][job[w].schedule].generation,
     decision |-> decision, replaces |-> 0,
     outcome |-> "none", attempt |-> "none"]

\* record_attempt_outcome: a review gets one outcome, a second is refused; a
\* failed write leaves the review without one (record_outcome only logs it).
RecordOutcome(i, o) ==
    \/ /\ reviews[i].outcome = "none"
       /\ reviews' = [reviews EXCEPT ![i].outcome = o]
       /\ UNCHANGED faulty
    \/ /\ reviews[i].outcome # "none"
       /\ UNCHANGED <<reviews, faulty>>
    \/ /\ "write" \in Faults
       /\ reviews[i].outcome = "none"
       /\ faulty' = faulty \cup {i}
       /\ UNCHANGED reviews

\* audit_attempt: one line, best effort.
RecordAttempt(i, a) ==
    \/ /\ reviews' = [reviews EXCEPT ![i].attempt = a]
       /\ UNCHANGED faulty
    \/ /\ "write" \in Faults
       /\ faulty' = faulty \cup {i}
       /\ UNCHANGED reviews

\* An Ask tool has no human to answer: a denied review, then a denied attempt.
DenyAsk(w) ==
    /\ At(w, "next")
    /\ job[w].call <= Calls
    /\ Len(reviews) < MaxReviews
    /\ reviews' = Append(reviews, ReviewOf(w, "denied"))
    /\ job' = [job EXCEPT ![w].pc = "denying",
                          ![w].review = Len(reviews) + 1]
    /\ UNCHANGED <<now, rows, claims, wire, ran, faulty>>

AuditDenied(w) ==
    /\ At(w, "denying")
    /\ RecordAttempt(job[w].review, "denied")
    /\ FailAttempt(w)
    /\ UNCHANGED <<now, rows, claims, wire, ran>>

\* The first fence: a worker that lost its lease leaves no trace.  The fence
\* also reads as stale when the database cannot be read.
PassFirstFence(w) ==
    /\ At(w, "next")
    /\ job[w].call <= Calls
    /\ IsCurrent(w, job[w].schedule)
    /\ Goto(w, "fenced")
    /\ UNCHANGED <<now, rows, claims, reviews, wire, ran, faulty>>

StaleAtFirstFence(w) ==
    /\ At(w, "next")
    /\ job[w].call <= Calls
    /\ EndRun(w)
    /\ UNCHANGED <<now, rows, claims, reviews, wire, ran, faulty>>

\* record_review: appended and fsynced before anything is sent.
WriteReview(w) ==
    /\ At(w, "fenced")
    /\ Len(reviews) < MaxReviews
    /\ reviews' = Append(reviews, ReviewOf(w, "approved"))
    /\ job' = [job EXCEPT ![w].pc = "reviewed",
                          ![w].review = Len(reviews) + 1]
    /\ UNCHANGED <<now, rows, claims, wire, ran, faulty>>

\* The line was appended but the fsync failed: the call fails closed and the
\* review stays.
ReviewFailed(w) ==
    /\ At(w, "fenced")
    /\ "write" \in Faults
    /\ Len(reviews) < MaxReviews
    /\ reviews' = Append(reviews, ReviewOf(w, "approved"))
    /\ faulty' = faulty \cup {Len(reviews) + 1}
    /\ FailAttempt(w)
    /\ UNCHANGED <<now, rows, claims, wire, ran>>

\* The before_execute hook rejects, or escalates with no human to ask.
HookRejects(w) ==
    /\ At(w, "reviewed")
    /\ RecordOutcome(job[w].review, "never_ran")
    /\ FailAttempt(w)
    /\ UNCHANGED <<now, rows, claims, wire, ran>>

\* Mutant: the lease is not checked again after the review was written.
SendUnfenced(w) ==
    /\ At(w, "reviewed")
    /\ wire' = wire \cup {job[w].review}
    /\ Goto(w, "calling")
    /\ UNCHANGED <<now, rows, claims, reviews, ran, faulty>>

\* The second fence, then the request leaves.
Send(w) ==
    /\ At(w, "reviewed")
    /\ IsCurrent(w, job[w].schedule)
    /\ wire' = wire \cup {job[w].review}
    /\ Goto(w, "calling")
    /\ UNCHANGED <<now, rows, claims, reviews, ran, faulty>>

\* Mutant: a stale lease leaves the review without an outcome.
StaleSilently(w) ==
    /\ At(w, "reviewed")
    /\ EndRun(w)
    /\ UNCHANGED <<now, rows, claims, reviews, wire, ran, faulty>>

\* Stale at the second fence: the tool provably never ran.
StaleBeforeSend(w) ==
    /\ At(w, "reviewed")
    /\ RecordOutcome(job[w].review, "never_ran")
    /\ EndRun(w)
    /\ UNCHANGED <<now, rows, claims, wire, ran>>

\* The far side carries out a request, whether or not anybody still waits.
CarryOut(i) ==
    /\ i \in wire
    /\ wire' = wire \ {i}
    /\ ran' = ran \cup {i}
    /\ UNCHANGED <<now, rows, claims, job, reviews, faulty>>

\* The connector call comes back.  A success was carried out, a definite failure
\* never will be, and nothing is known after a timeout or a panic.
Return(w, r) ==
    LET i == job[w].review IN
    /\ At(w, "calling")
    /\ r = "ok" => i \in ran
    /\ r = "definite_failed" => i \notin ran
    /\ wire' = IF r = "definite_failed" THEN wire \ {i} ELSE wire
    /\ job' = [job EXCEPT ![w].pc = IF r = "panic" THEN "panicked"
                                                   ELSE "returned",
                          ![w].result = r]
    /\ UNCHANGED <<now, rows, claims, reviews, ran, faulty>>

\* The third fence, before the attempt is written.
PassThirdFence(w) ==
    /\ At(w, "returned")
    /\ IsCurrent(w, job[w].schedule)
    /\ Goto(w, "auditing")
    /\ UNCHANGED <<now, rows, claims, reviews, wire, ran, faulty>>

\* Stale after the call: no attempt is written, and the outcome is what is
\* known, never that the call succeeded.
StaleAfterCall(w) ==
    /\ At(w, "returned")
    /\ RecordOutcome(job[w].review,
                     IF job[w].result = "definite_failed"
                     THEN "never_ran" ELSE "ambiguous")
    /\ EndRun(w)
    /\ UNCHANGED <<now, rows, claims, wire, ran>>

WriteAttempt(w) ==
    /\ At(w, "auditing")
    /\ RecordAttempt(job[w].review, job[w].result)
    /\ Goto(w, "closing")
    /\ UNCHANGED <<now, rows, claims, wire, ran>>

OutcomeOf(result) ==
    CASE result = "ok" -> "executed_ok"
      [] result = "definite_failed" -> "executed_failed"
      [] OTHER -> "ambiguous"

\* The terminal outcome, then the next call, the retry or the end of the run.
\* A success may also hit the output or the step cap, which kills the run.
WriteOutcome(w) ==
    /\ At(w, "closing")
    /\ RecordOutcome(job[w].review, OutcomeOf(job[w].result))
    /\ \/ job[w].result = "ok" /\ (NextCall(w) \/ EndRun(w))
       \/ job[w].result = "definite_failed" /\ FailAttempt(w)
       \/ job[w].result = "ambiguous" /\ EndRun(w)
    /\ UNCHANGED <<now, rows, claims, wire, ran>>

\* A panic in the connector: the outcome first, then the attempt.
PanicOutcome(w) ==
    /\ At(w, "panicked")
    /\ RecordOutcome(job[w].review, "ambiguous")
    /\ Goto(w, "panic_audit")
    /\ UNCHANGED <<now, rows, claims, wire, ran>>

PanicAttempt(w) ==
    /\ At(w, "panic_audit")
    /\ RecordAttempt(job[w].review, "panic")
    /\ EndRun(w)
    /\ UNCHANGED <<now, rows, claims, wire, ran>>

-----------------------------------------------------------------------------
(* The rest of the world.                                                   *)

\* call_tool_replacement: a person is asked to replace an uncertain item; the
\* answer is recorded, an unanswered or declined prompt as a denied review.
Replace(i, decision) ==
    /\ Len(reviews) < MaxReviews
    /\ reviews' = Append(reviews,
                    [schedule |-> reviews[i].schedule, generation |-> 0,
                     decision |-> decision, replaces |-> i,
                     outcome |-> "none", attempt |-> "none"])
    /\ UNCHANGED <<now, rows, claims, job, wire, ran, faulty>>

\* handle_turn_cancel marks an in-flight review; one that got its outcome since
\* it was listed is left alone.
TurnCancel(i) ==
    /\ "cancel" \in Faults
    /\ reviews[i].decision = "approved"
    /\ reviews[i].outcome = "none"
    /\ reviews' = [reviews EXCEPT ![i].outcome = "ambiguous"]
    /\ faulty' = faulty \cup {i}
    /\ UNCHANGED <<now, rows, claims, job, wire, ran>>

\* A worker dies, its requests do not.
Crash(w) ==
    /\ "crash" \in Faults
    /\ ~At(w, "idle")
    /\ StoreCrash(w)
    /\ job' = [job EXCEPT ![w] = [@ EXCEPT !.pc = "idle", !.review = 0,
                                           !.result = "none"]]
    /\ faulty' = faulty \cup ({job[w].review} \ {0})
    /\ UNCHANGED <<reviews, wire, ran>>

Clock == StoreClock /\ UNCHANGED fireVars

WorkerStep(w) ==
    \/ \E s \in Schedules : TickClaim(w, s)
    \/ NeedsReview(w) \/ Fire(w) \/ Finish(w)
    \/ Completed(w) \/ Refused(w)
    \/ DenyAsk(w) \/ AuditDenied(w)
    \/ PassFirstFence(w) \/ StaleAtFirstFence(w)
    \/ WriteReview(w) \/ ReviewFailed(w) \/ HookRejects(w)
    \/ Send(w) \/ StaleBeforeSend(w)
    \/ \E r \in Results : Return(w, r)
    \/ PassThirdFence(w) \/ StaleAfterCall(w)
    \/ WriteAttempt(w) \/ WriteOutcome(w)
    \/ PanicOutcome(w) \/ PanicAttempt(w)

Next ==
    \/ Clock
    \/ \E w \in Workers : WorkerStep(w) \/ Crash(w)
    \/ \E i \in wire : CarryOut(i)
    \/ \E i \in DOMAIN reviews :
          \/ TurnCancel(i)
          \/ \E s \in Schedules, d \in {"approved", "denied"} :
                i \in Uncertain(s) /\ Replace(i, d)

Spec == Init /\ [][Next]_vars

-----------------------------------------------------------------------------

\* Every variable has its type, and a request belongs to a review of the log.
TypeOK ==
    /\ StoreTypeOK
    /\ job \in [Workers -> Job]
    /\ reviews \in Seq(Review) /\ Len(reviews) <= MaxReviews
    /\ wire \subseteq DOMAIN reviews
    /\ ran \subseteq DOMAIN reviews
    /\ faulty \subseteq DOMAIN reviews

\* Two workers are never both inside a tool call of one schedule, however they
\* stall and whatever the clock does, unless a person was asked to replace the
\* call of one of them (check_lapsed_run and the second fence of execute_call).
NoOverlap ==
    \A v, w \in Workers :
        (v # w /\ At(v, "calling") /\ At(w, "calling")
               /\ job[v].schedule = job[w].schedule)
        => {job[v].review, job[w].review} \cap Superseded # {}

\* What a certain attempt is in the attempt log: check_lapsed_run holds only for
\* a missing or an ambiguous one.
Certain == {"ok", "definite_failed", "panic", "denied"}

\* A run that took over a lapsed lease sends nothing while a request of an
\* earlier run may have been, or may yet be, carried out, unless its attempt is
\* on record as certain or a person was asked to replace it.
NoBlindRefire ==
    [][\A w \in Workers :
          At(w, "reviewed") /\ At(w, "calling")' /\ TookOver(w) =>
             \A i \in wire \cup ran :
                \/ reviews[i].schedule # job[w].schedule
                \/ reviews[i].generation
                      >= claims[w][job[w].schedule].generation
                \/ reviews[i].attempt \in Certain
                \/ i \in Superseded]_vars

\* What scheduled.rs says of the takeover check: the schedule stays held until an
\* "explicit human-approved replacement" supersedes the uncertain item.  The
\* code also accepts a replacement that the person declined.
HeldUntilApproved ==
    [][\A w \in Workers :
          At(w, "reviewed") /\ At(w, "calling")' /\ TookOver(w) =>
             \A i \in (wire \cup ran) \cap Superseded :
                \/ reviews[i].attempt \in Certain
                \/ \E j \in DOMAIN reviews :
                      reviews[j].replaces = i
                      /\ reviews[j].decision = "approved"]_vars

\* The takeover check never holds a schedule for a call that provably went
\* nowhere: an uncertain review was sent, or is being worked on, or a crash, a
\* failed write or a cancel hit it.
NoFalseHold ==
    \A s \in Schedules : \A i \in Uncertain(s) :
        \/ i \in wire \cup ran
        \/ i \in faulty
        \/ \E w \in Workers : job[w].review = i
=============================================================================
