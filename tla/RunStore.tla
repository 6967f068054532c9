------------------------------ MODULE RunStore ------------------------------
(***************************************************************************)
(* The durable-runs database (durable_runs.rs): one row per run with its    *)
(* state, and an append-only journal of rows per step.  Every outcome is a  *)
(* new row; the latest row of a step is what counts.                        *)
(*                                                                          *)
(* A row is its outcome.  Its `attempt` column is its position: the i-th    *)
(* row of a step has attempt i - 1, and (run, step, attempt) is the primary *)
(* key, so an insert at a position already taken fails.                     *)
(***************************************************************************)
EXTENDS Integers, Sequences, FiniteSets, FiniteSetsExt

CONSTANTS
    MaxRuns,    \* bound: how many runs are ever created
    Calls,      \* number of steps of a run
    Kind,       \* the kind of each step
    Hinted,     \* steps whose intent carries a usable reconcile hint
    MaxSteps    \* the max_steps budget

Runs == 1..MaxRuns
Steps == 1..Calls

Kinds == {"model", "read_only", "file_write", "idempotent_http",
          "opaque_write", "tool", "subagent"}

ASSUME StoreSizes ==
    /\ MaxRuns \in Nat \ {0}
    /\ Calls \in Nat \ {0}
    /\ MaxSteps \in Nat
    /\ Calls <= MaxSteps
ASSUME StoreKinds == Kind \in [Steps -> Kinds] /\ Hinted \subseteq Steps

VARIABLES
    state,      \* runs.state; ABSENT before create_run
    journal     \* run_steps: the rows of each step of each run

storeVars == <<state, journal>>

RunStates == {"QUEUED", "AWAITING_MODEL", "EXECUTING_TOOLS",
              "AWAITING_APPROVAL", "PAUSED", "DONE", "FAILED", "NEEDS_REVIEW"}
Terminal == {"DONE", "FAILED"}
Decided == {"executed_ok", "executed_failed", "ambiguous", "never_ran"}
Rows == Decided \cup {"started"}

StoreTypeOK ==
    /\ state \in [Runs -> RunStates \cup {"ABSENT"}]
    /\ journal \in [Runs -> [Steps -> Seq(Rows)]]

StoreInit ==
    /\ state = [r \in Runs |-> "ABSENT"]
    /\ journal = [r \in Runs |-> [s \in Steps |-> <<>>]]

-----------------------------------------------------------------------------
(* Reading the journal.                                                     *)

\* The outcome of the latest row of a step; "none" without a row.
Latest(r, s) ==
    IF journal[r][s] = <<>> THEN "none" ELSE journal[r][s][Len(journal[r][s])]

\* Mutant: an orphaned intent is run again, whatever its kind.
VerdictRerun(s, landed) == "rerun"

\* Mutant: a file write is taken as done without looking at the file.
VerdictTrusted(s, landed) ==
    CASE Kind[s] \in {"model", "read_only"} -> "rerun"
      [] Kind[s] = "file_write" /\ s \in Hinted -> "complete"
      [] Kind[s] = "idempotent_http" /\ s \in Hinted -> "rerun"
      [] OTHER -> "review"

\* reconcile_orphan: the fate of a begun step whose worker is gone.  `landed`
\* are the steps whose file probe finds the intended content.
Verdict(s, landed) ==
    CASE Kind[s] \in {"model", "read_only"} -> "rerun"
      [] Kind[s] = "file_write" /\ s \in Hinted ->
            IF s \in landed THEN "complete" ELSE "rerun"
      [] Kind[s] = "idempotent_http" /\ s \in Hinted -> "rerun"
      [] OTHER -> "review"

\* Mutant: any row of a step counts as its completion.
StandingAssumed(r, s, landed) ==
    CASE Latest(r, s) = "none" -> "rerun"
      [] Latest(r, s) = "ambiguous" -> "review"
      [] OTHER -> "complete"

\* What resume_run makes of a step.
Standing(r, s, landed) ==
    CASE Latest(r, s) \in {"executed_ok", "executed_failed"} -> "complete"
      [] Latest(r, s) = "ambiguous" -> "review"
      [] Latest(r, s) = "started" -> Verdict(s, landed)
      [] OTHER -> "rerun"

\* Mutant: a resumed run starts over.
ResumeAtStart(r, landed) == 1

\* Where resume_run stops: the first step that is not complete, or the end.
ResumePoint(r, landed) ==
    Min({s \in Steps : Standing(r, s, landed) # "complete"} \cup {Calls + 1})

\* resume_run stops at a step only a human can settle.
Doubtful(r, landed) ==
    LET s == ResumePoint(r, landed)
    IN  s \in Steps /\ Standing(r, s, landed) = "review"

\* Steps with a decided latest row, which is what budgets count.
StepsUsed(r) == {s \in Steps : Latest(r, s) \in Decided}

\* Mutant: only a run still queued is found.
OrphanQueued ==
    LET open == {r \in Runs : state[r] = "QUEUED"}
    IN  IF open = {} THEN 0 ELSE Max(open)

\* list_runs is newest first: the run a trigger picks up, 0 for none.
Orphan ==
    LET open == {r \in Runs : state[r] \notin Terminal \cup {"ABSENT"}}
    IN  IF open = {} THEN 0 ELSE Max(open)

-----------------------------------------------------------------------------
(* Changing a run.                                                          *)

\* Conditional transition: UPDATE ... WHERE state = from, tried for every
\* state of `from` in turn; a lost race changes nothing.
Transition(r, from, to) ==
    state' = [state EXCEPT ![r] = IF @ \in from THEN to ELSE @]

MarkNeedsReview(r) ==
    Transition(r, RunStates \ (Terminal \cup {"NEEDS_REVIEW"}), "NEEDS_REVIEW")

\* resume_run: closes the file writes the probe found landed, and parks the
\* run when the step it stops at is doubtful.
Resume(r, landed) ==
    /\ journal' = [journal EXCEPT ![r] =
          [s \in Steps |->
              IF s < ResumePoint(r, landed) /\ Latest(r, s) = "started"
              THEN Append(@[s], "executed_ok") ELSE @[s]]]
    /\ IF Doubtful(r, landed) THEN MarkNeedsReview(r) ELSE UNCHANGED state

\* begin_step: the write-ahead row, at the next free attempt.
BeginStep(r, s) == journal' = [journal EXCEPT ![r][s] = Append(@, "started")]

\* complete_step for the intent at position `intent`.  Over budget, the run
\* fails and no row is written; when another row follows the intent already,
\* the insert fails.
CompleteStep(r, s, intent, outcome) ==
    IF Cardinality(StepsUsed(r)) + 1 > MaxSteps
    THEN /\ Transition(r, RunStates, "FAILED")
         /\ UNCHANGED journal
    ELSE /\ journal' = [journal EXCEPT ![r][s] =
                           IF Len(@) = intent THEN Append(@, outcome) ELSE @]
         /\ UNCHANGED state
=============================================================================
