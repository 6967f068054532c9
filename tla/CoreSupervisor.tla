--------------------------- MODULE CoreSupervisor ----------------------------
(***************************************************************************)
(* The worker that starts, adopts, drains and replaces the PTY core          *)
(* (pty_core_supervisor.rs), with the cores and the launches of PtyCore.     *)
(* The worker may restart, the binary may be updated, a core may be killed,  *)
(* and somebody may ask the core to shut down.                              *)
(***************************************************************************)
EXTENDS PtyCore

CONSTANT MaxRapid    \* MAX_RAPID_FAILURES

ASSUME RapidAssumption == MaxRapid \in Nat \ {0}

VARIABLE
    worker    \* the supervisor of the running worker

vars == <<coreVars, worker>>

\* tried: the core and the build of the last takeover; takeover: whether cores
\* of older builds are taken over in place (SUPERCLI_PTY_CORE_TAKEOVER).
Supervisor == [state : {"boot", "starting", "live", "adopted", "handing_off", "failed"},
               pid : Cores \cup {Nobody}, child : Cores \cup {Nobody},
               rapid : 0..MaxRapid, tried : (Cores \cup {Nobody}) \X (1..2),
               takeover : BOOLEAN]

Worker(takeover) == [state |-> "boot", pid |-> Nobody, child |-> Nobody, rapid |-> 0,
                     tried |-> <<Nobody, 1>>, takeover |-> takeover]

Init == CoreInit /\ \E takeover \in BOOLEAN : worker = Worker(takeover)

In(state) == worker.state = state

\* Process identifiers that nobody knows any more.
Unused == {c \in Cores : /\ ~Alive(c) /\ c \notin {record, worker.pid, worker.child}
                         /\ \A d \in Cores : core[d].to # c}

\* ping: whichever core accepts the connection answers it.
Ping(p) == IF Accepting = {} THEN p = Nobody ELSE p \in Accepting

\* A binary is started.
Start(c, pc) == core' = [core EXCEPT ![c] = Fresh(pc, disk, {})]

\* try_adopt: the core of the record answers.
Adopt(p) ==
    /\ p # Nobody /\ p = record
    /\ worker' = [worker EXCEPT !.state = "adopted", !.pid = p, !.child = Nobody, !.rapid = 0]
    /\ UNCHANGED <<core, faults>>

NotAdoptable(p) == p = Nobody \/ p # record

\* spawn; without a binary the supervisor gives up.
Spawn ==
    \/ \E c \in Unused :
          /\ Start(c, "start")
          /\ worker' = [worker EXCEPT !.state = "starting", !.pid = c, !.child = c,
                                      !.tried = IF @[1] = c THEN <<Nobody, 1>> ELSE @]
          /\ UNCHANGED faults
    \/ /\ Fault("fail")
       /\ worker' = [worker EXCEPT !.state = "failed"]
       /\ UNCHANGED core

\* PtyCoreSupervisor::start, and the respawn of a core that is gone.
AdoptOrSpawn ==
    /\ In("boot") \/ (In("starting") /\ worker.child = Nobody)
    /\ \E p \in Cores \cup {Nobody} :
          Ping(p) /\ (Adopt(p) \/ (NotAdoptable(p) /\ Spawn))
    /\ UNCHANGED <<home, launches, history>>

\* poll_starting: the record names the core that was started, and it answers.
PollStarting ==
    /\ In("starting") /\ worker.child # Nobody /\ Alive(worker.child)
    /\ record = worker.pid /\ Accepting # {}
    /\ worker' = [worker EXCEPT !.state = "live", !.rapid = 0]
    /\ UNCHANGED coreVars

\* reap_own_child: adopt the core that runs, else count an exit that came soon
\* after the start.
Reap ==
    /\ In("starting") \/ In("live")
    /\ worker.child # Nobody /\ ~Alive(worker.child)
    /\ \E p \in Cores \cup {Nobody} :
          /\ Ping(p)
          /\ \/ Adopt(p)
             \/ /\ NotAdoptable(p)
                /\ \E n \in {0, worker.rapid + 1} :
                      worker' = [worker EXCEPT
                                    !.state = IF n >= MaxRapid THEN "failed" ELSE "starting",
                                    !.pid = Nobody, !.child = Nobody, !.rapid = n]
                /\ UNCHANGED <<core, faults>>
    /\ UNCHANGED <<home, launches, history>>

\* check_build_skew, drain_older_core: a core of another build is taken over,
\* once, or asked to exit when it holds no session.
Skewed(q) == core[q].build # disk

TakeOver(q) ==
    /\ worker.takeover /\ worker.tried # <<q, disk>>
    /\ \/ \E t \in Unused :
             /\ Start(t, "connect")
             /\ worker' = [worker EXCEPT !.state = "handing_off", !.child = t,
                                         !.tried = <<q, disk>>]
             /\ UNCHANGED faults
       \/ /\ Fault("fail")
          /\ worker' = [worker EXCEPT !.tried = <<q, disk>>]
          /\ UNCHANGED core

Drain(q) ==
    /\ ~worker.takeover /\ core[q].live = {}
    /\ \E c \in Accepting : AskShutdown(c)
    /\ UNCHANGED <<worker, faults>>

\* poll_adopted, when the core answers.
PollAdopted ==
    /\ In("adopted") /\ worker.pid = record /\ record \in Accepting
    /\ Skewed(record)
    /\ TakeOver(record) \/ Drain(record)
    /\ UNCHANGED <<home, launches, history>>

\* Mutant: a core counts as alive as long as the record names it.
LostByRecord ==
    /\ In("adopted")
    /\ record # worker.pid
    /\ worker' = [worker EXCEPT !.state = "starting", !.pid = Nobody]
    /\ UNCHANGED coreVars

\* poll_adopted, when it does not and its process is gone.
Lost ==
    /\ In("adopted")
    /\ ~Alive(worker.pid)
    /\ worker' = [worker EXCEPT !.state = "starting", !.pid = Nobody]
    /\ UNCHANGED coreVars

\* The same when the process is there and the record names another one: its start
\* time is compared with that of the record.  Within PID_START_TOLERANCE_MS the
\* two count as one process and nothing happens, so this step is not bound to come.
Mistaken ==
    /\ In("adopted")
    /\ Alive(worker.pid) /\ record \notin {Nobody, worker.pid}
    /\ worker' = [worker EXCEPT !.state = "starting", !.pid = Nobody]
    /\ UNCHANGED coreVars

\* Mutant: the supervisor keeps the old core in mind.
PollHandingOffOld ==
    /\ In("handing_off")
    /\ IF ~Alive(worker.child)
       THEN /\ worker' = [worker EXCEPT !.state = "adopted", !.child = Nobody]
            /\ UNCHANGED faults
       ELSE \/ /\ record = worker.child /\ Accepting # {}
               /\ worker' = [worker EXCEPT !.state = "live", !.rapid = 0]
               /\ UNCHANGED faults
            \/ /\ Fault("slow")
               /\ worker' = [worker EXCEPT !.state = "adopted"]
    /\ UNCHANGED <<home, core, launches, history>>

\* poll_handing_off: the new core is gone, or is in the record and answers, or
\* has had 30 seconds.
PollHandingOff ==
    /\ In("handing_off")
    /\ IF ~Alive(worker.child)
       THEN /\ worker' = [worker EXCEPT !.state = "adopted", !.child = Nobody]
            /\ UNCHANGED faults
       ELSE \/ /\ record = worker.child /\ Accepting # {}
               /\ worker' = [worker EXCEPT !.state = "live", !.pid = worker.child, !.rapid = 0]
               /\ UNCHANGED faults
            \/ /\ Fault("slow")
               /\ worker' = [worker EXCEPT !.state = "adopted"]
    /\ UNCHANGED <<home, core, launches, history>>

\* The worker restarts; the core does not notice.
Restart ==
    /\ Fault("worker")
    /\ worker' = Worker(worker.takeover)
    /\ UNCHANGED <<home, core, launches, history>>

\* A new binary is installed.
Update ==
    /\ disk = 1 /\ disk' = 2
    /\ Fault("update")
    /\ UNCHANGED <<record, socket, locks, core, launches, history, worker>>

\* Somebody asks the core to exit.
Shutdown ==
    /\ Fault("shutdown")
    /\ \E c \in Accepting : AskShutdown(c)
    /\ UNCHANGED <<home, launches, history, worker>>

-----------------------------------------------------------------------------
Client(s) == Route(s) \/ Connect(s) \/ NoAnswer(s) \/ Fallback(s)
Request(s) == Gate(s) \/ Insert(s) \/ Take(s) \/ Count(s) \/ Register(s)
Serve(c) == \/ Boot(c) \/ WriteRecord(c)
            \/ DecideShutdown(c) \/ Close(c) \/ Leave(c) \/ Exit(c)
OldCore(c) == Export(c) \/ RefuseHandoff(c) \/ Forget(c) \/ Resume(c)
NewCore(t) == \/ TakeoverRefused(t) \/ Publish(t) \/ Commit(t)
              \/ \E c \in Cores : BeginHandoff(c, t)
Supervise == \/ AdoptOrSpawn \/ PollStarting \/ Reap \/ PollAdopted \/ Lost
             \/ PollHandingOff

Next ==
    \/ \E s \in Sessions :
          (Client(s) \/ Request(s) \/ Reply(s) \/ SetupFails(s)) /\ UNCHANGED worker
    \/ \E c \in Cores :
          /\ \/ Serve(c) \/ OldCore(c) \/ NewCore(c) \/ TakeoverFails(c) \/ TimeOut(c) \/ Kill(c)
             \/ \E s \in Sessions : SessionEnds(c, s)
          /\ UNCHANGED worker
    \/ Supervise \/ Mistaken \/ Restart \/ Update \/ Shutdown

\* Every process that runs goes on, and the worker polls; nothing need fail,
\* end, be launched or be asked for.
Fairness ==
    /\ \A s \in Sessions :
          /\ WF_vars((Connect(s) \/ NoAnswer(s) \/ Fallback(s)) /\ UNCHANGED worker)
          /\ WF_vars(Request(s) /\ UNCHANGED worker)
    /\ \A c \in Cores : /\ WF_vars(Serve(c) /\ UNCHANGED worker)
                        /\ WF_vars(OldCore(c) /\ UNCHANGED worker)
                        /\ WF_vars(NewCore(c) /\ UNCHANGED worker)
    /\ WF_vars(Supervise)

Spec == Init /\ [][Next]_vars /\ Fairness

-----------------------------------------------------------------------------
(* Properties.                                                              *)

\* Every variable has its type (CoreState, PtyCoreSupervisor).
TypeOK ==
    /\ disk \in 1..2
    /\ core \in [Cores -> Process]
    /\ record \in Cores \cup {Nobody} /\ socket \subseteq Cores /\ locks \subseteq Cores
    /\ request \in [Sessions -> [pc : {"none", "gate", "insert", "take", "count", "setup"},
                                 core : Cores \cup {Nobody}]]
    /\ client \in [Sessions -> {"idle", "routed", "waiting", "fallback", "done"}]
    /\ files \subseteq Sessions /\ solo \subseteq Sessions
    /\ lost \subseteq Sessions /\ straddled \subseteq Sessions /\ twice \subseteq Sessions
    /\ widowed \subseteq Sessions /\ dropped \subseteq Sessions
    /\ split \in BOOLEAN
    /\ worker \in Supervisor
    /\ faults \in 0..MaxFaults

\* No session is served by two processes, through any fallback, handoff and
\* recovery, unless a client or a handoff timed out.
HostedOnce ==
    split \/ \A s \in Sessions \ twice :
        Cardinality({c \in Cores : s \in core[c].hosted /\ Active(c)})
            + Cardinality({s} \cap solo) <= 1

\* No core exits with a session, whether it is shut down or replaced, except one
\* whose launch had passed the gate and was not counted yet when the core exported;
\* and a new core that gives up, before or at its commit, has no session that
\* nobody else has, unless the old core was killed meanwhile or a handoff timed out.
NoneTaken ==
    /\ lost \subseteq straddled
    /\ split \/ dropped \subseteq widowed

\* A core that opens its doors is alone, unless a handoff timed out: the lock
\* and the handoff see to it.
OneCore ==
    split \/ \A c, d \in Cores :
        c # d /\ core[c].pc \in {"bound", "serving"} /\ core[d].pc \in {"bound", "serving"}
            => core[c].stage = "exported" \/ core[d].stage = "exported"

\* A home without a core gets one, unless the supervisor has given up.
CoreReturns ==
    (\A c \in Cores : ~Alive(c))
        ~> (In("failed") \/ \E c \in Cores : core[c].pc = "serving")

\* The core that is in the record serves, and the socket leads to no other.
Named(c) == record = c /\ core[c].pc = "serving" /\ socket = {c}

\* The supervisor finds that core, whoever started it, or gives up, unless it
\* is a takeover that the supervisor has given up waiting for.
Found ==
    \A c \in Cores :
        Named(c) ~> \/ worker.state \in {"live", "adopted"} /\ worker.pid = c
                    \/ In("failed") \/ ~Named(c)
                    \/ In("starting") /\ worker.child = c /\ worker.pid = Nobody

\* A paused session is served again.
Resumed ==
    \A c \in Cores : core[c].stage \in {"exported", "late"} ~> Active(c)
=============================================================================
