---------------------------- MODULE RunRecovery -----------------------------
(***************************************************************************)
(* One durable run driven by a worker that may be killed at any point and   *)
(* started again: the loop of durable_chaos_helper.rs over RunsDb, with the *)
(* world its steps act on.  Each kind of step has its own way to be         *)
(* reconciled after a kill: a file is probed, a keyed request is sent again *)
(* under the same key, an opaque write is left to a human.                  *)
(*                                                                          *)
(* A begin_step whose checkpoint is blocked returns an error after its row  *)
(* is inserted and the worker exits: that is Begin followed by Kill.        *)
(***************************************************************************)
EXTENDS RunStore

CONSTANT MaxKills      \* bound: how often the worker is killed

ASSUME MaxKillsAssumption == MaxKills \in Nat

VARIABLES
    worker,     \* where the worker stands, its step and its intent
    file,       \* content of the target of each file_write step
    effects,    \* how often each other step took effect outside
    kills

vars == <<state, journal, worker, file, effects, kills>>

run == 1      \* the run the helper is given (--run-id)

FileSteps == {s \in Steps : Kind[s] = "file_write"}
Landed == {s \in FileSteps : file[s] = "new"}

Init ==
    /\ state = [r \in Runs |-> "QUEUED"]
    /\ journal = [r \in Runs |-> [s \in Steps |-> <<>>]]
    /\ worker = [pc |-> "down", step |-> 1, intent |-> 0]
    /\ file = [s \in FileSteps |-> "old"]
    /\ effects = [s \in Steps \ FileSteps |-> 0]
    /\ kills = 0

At(pc) == worker.pc = pc
Goto(pc) == worker' = [worker EXCEPT !.pc = pc]

\* Mutant: only a run still queued is picked up.
StartQueued ==
    /\ At("down")
    /\ state[run] = "QUEUED"
    /\ Transition(run, {"QUEUED"}, "EXECUTING_TOOLS")
    /\ Goto("resuming")
    /\ UNCHANGED <<journal, file, effects, kills>>

\* A worker starts on a run that is neither finished nor parked.
Start ==
    /\ At("down")
    /\ state[run] \notin Terminal \cup {"NEEDS_REVIEW"}
    /\ Transition(run, {"QUEUED"}, "EXECUTING_TOOLS")
    /\ Goto("resuming")
    /\ UNCHANGED <<journal, file, effects, kills>>

\* resume_run, then on from the first incomplete step, or exit when the run
\* needs a human.
Reconcile ==
    /\ At("resuming")
    /\ Resume(run, Landed)
    /\ worker' = [pc |-> IF Doubtful(run, Landed) THEN "down" ELSE "next",
                  step |-> IF Doubtful(run, Landed) THEN 1
                           ELSE ResumePoint(run, Landed),
                  intent |-> 0]
    /\ UNCHANGED <<file, effects, kills>>

Begin ==
    /\ At("next")
    /\ worker.step \in Steps
    /\ BeginStep(run, worker.step)
    /\ worker' = [worker EXCEPT !.pc = "begun",
                                !.intent = Len(journal[run][worker.step]) + 1]
    /\ UNCHANGED <<state, file, effects, kills>>

\* A file write truncates its target first: killed here, it leaves a torn file.
Truncate ==
    /\ At("begun")
    /\ worker.step \in FileSteps
    /\ file' = [file EXCEPT ![worker.step] = "torn"]
    /\ Goto("writing")
    /\ UNCHANGED <<state, journal, effects, kills>>

Write ==
    /\ At("writing")
    /\ file' = [file EXCEPT ![worker.step] = "new"]
    /\ Goto("executed")
    /\ UNCHANGED <<state, journal, effects, kills>>

\* Every other kind of step.  The far side drops a request whose key it has
\* seen; models and reads have no effect to count.
Execute ==
    /\ At("begun")
    /\ worker.step \notin FileSteps
    /\ effects' = [effects EXCEPT ![worker.step] =
          CASE Kind[worker.step] \in {"model", "read_only"} -> 0
            [] Kind[worker.step] = "idempotent_http" -> 1
            [] OTHER -> @ + 1]
    /\ Goto("executed")
    /\ UNCHANGED <<state, journal, file, kills>>

Complete ==
    /\ At("executed")
    /\ CompleteStep(run, worker.step, worker.intent, "executed_ok")
    /\ worker' = [pc |-> "next", step |-> worker.step + 1, intent |-> 0]
    /\ UNCHANGED <<file, effects, kills>>

Finish ==
    /\ At("next")
    /\ worker.step \notin Steps
    /\ Transition(run, {"EXECUTING_TOOLS", "QUEUED"}, "DONE")
    /\ worker' = [worker EXCEPT !.pc = "down", !.step = 1]
    /\ UNCHANGED <<journal, file, effects, kills>>

Kill ==
    /\ ~At("down")
    /\ kills < MaxKills
    /\ kills' = kills + 1
    /\ worker' = [pc |-> "down", step |-> 1, intent |-> 0]
    /\ UNCHANGED <<state, journal, file, effects>>

Work == Start \/ Reconcile \/ Begin \/ Truncate \/ Write \/ Execute
        \/ Complete \/ Finish

Next == Work \/ Kill

\* The supervisor starts the worker again, and a worker that is not killed
\* goes on to its next step.
Spec == Init /\ [][Next]_vars /\ WF_vars(Work)

-----------------------------------------------------------------------------

\* Every variable has its type: the worker never steps past the end of the run
\* it resumed.
TypeOK ==
    /\ StoreTypeOK
    /\ worker \in [pc : {"down", "resuming", "next", "begun", "writing",
                         "executed"},
                   step : 1..Calls + 1, intent : Nat]
    /\ file \in [FileSteps -> {"old", "torn", "new"}]
    /\ effects \in [Steps \ FileSteps -> Nat]
    /\ kills \in 0..MaxKills

\* The effect of a step is in place, exactly once, whole.
InPlace(s) ==
    IF s \in FileSteps THEN file[s] = "new"
    ELSE Kind[s] \in {"model", "read_only"} \/ effects[s] = 1

\* No step takes effect twice, however often the worker is killed and the run
\* resumed: reconcile_orphan replays only what is safe to replay.
EffectOnce == \A s \in Steps \ FileSteps : effects[s] <= 1

\* The journal never claims a step that did not happen: a step whose latest
\* row is executed_ok is in place (no torn file, no lost request), whether the
\* worker recorded it or resume_run's probe did.
JournalTrue ==
    \A s \in Steps : Latest(run, s) = "executed_ok" => InPlace(s)

\* A run that keeps being restarted ends: done with every step in place, or
\* parked for a human; it is not abandoned and not restarted for ever.
Settles == <>(\/ state[run] = "DONE" /\ \A s \in Steps : InPlace(s)
              \/ state[run] = "NEEDS_REVIEW")
=============================================================================
