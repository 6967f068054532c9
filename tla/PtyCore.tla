------------------------------ MODULE PtyCore --------------------------------
(***************************************************************************)
(* The PTY core (pty_core.rs, core_reactor.rs): one process hosts the       *)
(* sessions of a home, launches reach it over a socket, a client that       *)
(* cannot use it starts a process for its session, a core of a newer build  *)
(* takes the sessions over with the lock and the listening socket, and a    *)
(* core without sessions can be shut down.  CoreSupervisor adds the worker  *)
(* that starts the cores.                                                   *)
(*                                                                          *)
(* The socket is the set of the cores that accept what connects to its path *)
(* now; a process that is gone has the pc "off", and its name may be used   *)
(* again once neither the record nor the worker knows it.  Session payloads, *)
(* manifests and messages are left out.                                     *)
(***************************************************************************)
EXTENDS Naturals, FiniteSets

CONSTANTS
    Cores,      \* core processes
    First,      \* the one that runs at first
    Sessions,   \* sessions
    Hosted,     \* the sessions First hosts at first
    Nobody,     \* no core
    Faults,     \* which faults and events happen
    MaxFaults   \* bound on them

ASSUME CoresAssumption ==
    First \in Cores /\ Nobody \notin Cores /\ Hosted \subseteq Sessions
ASSUME FaultsAssumption == MaxFaults \in Nat

VARIABLES
    disk,      \* build of the installed binary
    core,      \* per core: the process
    record,    \* the core pty-core.json names
    socket,    \* the cores that accept connections to pty-core.sock
    locks,     \* the cores with a descriptor of the locked pty-core.lock
    request,   \* per session: the launch request a core works on
    client,    \* per session: who launches it
    files,     \* sessions whose launch file exists
    solo,      \* sessions with a process of their own
    lost,      \* history: sessions that a core took along when it exited
    straddled, \* history: sessions whose launch was past the gate and not counted
               \* when their core exported
    widowed,   \* history: sessions of a core that was killed
    dropped,   \* history: sessions that only a new core had, which gave up
    twice,     \* history: sessions whose client gave up on the core too early
    split,     \* history: a handoff timed out
    faults

home == <<disk, record, socket, locks>>
launches == <<request, client, files, solo>>
history == <<lost, straddled, widowed, dropped, twice, split>>
coreVars == <<home, core, launches, history, faults>>

\* "start", "bound": run_core_unix before the lock and before the record;
\* "connect", "linked", "adopting", "published": run_takeover before it reaches
\* the old core, before the header, the record and the commit; "handed": the
\* sessions have moved; "draining", "closing": after the accept loop.
CorePc == {"off", "start", "bound", "serving", "handed", "draining", "closing",
           "connect", "linked", "adopting", "published"}

\* live: the set the core accounts for; hosted: those its reactor serves;
\* stage: its part as the old core of a handoff ("none" is handing_off = FALSE);
\* to: the new core; ok: the commit has arrived; asked: a shutdown request has
\* found no handoff; shutting: shutting_down.
Process == [pc : CorePc, build : 1..2, live : SUBSET Sessions, hosted : SUBSET Sessions,
            stage : {"none", "wait", "exported", "late", "moved"}, to : Cores \cup {Nobody},
            ok : BOOLEAN, asked : BOOLEAN, shutting : BOOLEAN]

Fresh(pc, build, sessions) ==
    [pc |-> pc, build |-> build, live |-> sessions, hosted |-> sessions,
     stage |-> "none", to |-> Nobody, ok |-> FALSE, asked |-> FALSE, shutting |-> FALSE]
NoRequest == [pc |-> "none", core |-> Nobody]

\* First serves the sessions it has; the binary may have been updated.
CoreInit ==
    /\ disk \in 1..2
    /\ core = [c \in Cores |-> IF c = First THEN Fresh("serving", 1, Hosted) ELSE Fresh("off", 1, {})]
    /\ record = First /\ socket = {First} /\ locks = {First}
    /\ request = [s \in Sessions |-> NoRequest]
    /\ client = [s \in Sessions |-> IF s \in Hosted THEN "done" ELSE "idle"]
    /\ files = {} /\ solo = {}
    /\ lost = {} /\ straddled = {} /\ widowed = {} /\ dropped = {}
    /\ twice = {} /\ split = FALSE
    /\ faults = 0

Fault(kind) == kind \in Faults /\ faults < MaxFaults /\ faults' = faults + 1
Alive(c) == core[c].pc # "off"
Accepting == {c \in socket : core[c].pc \in {"serving", "handed"}}
Working(s, pc) == request[s].pc = pc
\* The launches that the core counts (launching).
Launching(c) == {s \in Sessions : Working(s, "setup") /\ request[s].core = c}

\* Those that have passed the gate and that it does not count yet.
Uncounted(c) == {s \in Sessions : request[s].pc \in {"insert", "take", "count"}
                                  /\ request[s].core = c}

Gone(c) == Fresh("off", core[c].build, {})

\* The process c ends: its descriptors close and its threads are gone.
Ended(c) ==
    /\ core' = [core EXCEPT ![c] = Gone(c)]
    /\ locks' = locks \ {c}
    /\ request' = [s \in Sessions |-> IF request[s].core = c THEN NoRequest ELSE request[s]]

-----------------------------------------------------------------------------
(* The client: spawn_host_process_from_launch_file, try_launch_via_core.     *)

\* A core of another build than the installed one gets no new session.
Route(s) ==
    /\ client[s] = "idle"
    /\ files' = files \cup {s}
    /\ client' = [client EXCEPT ![s] =
          IF record # Nobody /\ core[record].build # disk THEN "fallback" ELSE "routed"]
    /\ UNCHANGED <<home, core, request, solo, history, faults>>

Connect(s) ==
    /\ client[s] = "routed"
    /\ \/ \E c \in Accepting :
             /\ client' = [client EXCEPT ![s] = "waiting"]
             /\ request' = [request EXCEPT ![s] = [pc |-> "gate", core |-> c]]
       \/ socket = {} /\ client' = [client EXCEPT ![s] = "fallback"] /\ UNCHANGED request
    /\ UNCHANGED <<home, core, files, solo, history, faults>>

\* The answer to a client that still waits.
Answered(s, verdict) ==
    client' = [client EXCEPT ![s] = IF @ = "waiting" THEN verdict ELSE @]

\* No answer: the request died with its core, or ten seconds have passed.  If
\* the launch file is gone, the core has taken the session.
NoAnswer(s) ==
    /\ client[s] = "waiting"
    /\ \/ Working(s, "none") /\ UNCHANGED <<faults, twice>>
       \/ /\ ~Working(s, "none") /\ Fault("slow")
          /\ twice' = IF s \in files THEN twice \cup {s} ELSE twice
    /\ client' = [client EXCEPT ![s] = IF s \in files THEN "fallback" ELSE "done"]
    /\ UNCHANGED <<home, core, request, files, solo, lost, straddled, widowed, dropped, split>>

\* A process for the session, which takes the launch file, if there is one.
Fallback(s) ==
    /\ client[s] = "fallback"
    /\ solo' = solo \cup ({s} \cap files)
    /\ files' = files \ {s}
    /\ client' = [client EXCEPT ![s] = "done"]
    /\ UNCHANGED <<home, core, request, history, faults>>

-----------------------------------------------------------------------------
(* The launch in the core: serve_connection, launch_session.                *)

Open(c) == core[c].stage = "none" /\ ~core[c].shutting

\* The flags are looked at and the launch file is read.
Gate(s) ==
    LET c == request[s].core IN
    /\ Working(s, "gate")
    /\ IF Open(c) /\ s \in files
       THEN request' = [request EXCEPT ![s].pc = "insert"] /\ UNCHANGED client
       ELSE request' = [request EXCEPT ![s] = NoRequest] /\ Answered(s, "fallback")
    /\ UNCHANGED <<home, core, files, solo, history, faults>>

\* Mutant: shutting_down is not looked at again under the lock of the live set.
InsertBlind(s) ==
    LET c == request[s].core IN
    /\ Working(s, "insert")
    /\ core' = [core EXCEPT ![c].live = @ \cup {s}]
    /\ request' = [request EXCEPT ![s].pc = "take"]
    /\ UNCHANGED <<home, client, files, solo, history, faults>>

\* The session enters the live set, unless the core shuts down.  Whether a
\* handoff has begun is not looked at again.
Insert(s) ==
    LET c == request[s].core IN
    /\ Working(s, "insert")
    /\ IF core[c].shutting
       THEN /\ request' = [request EXCEPT ![s] = NoRequest]
            /\ Answered(s, "fallback")
            /\ UNCHANGED core
       ELSE /\ core' = [core EXCEPT ![c].live = @ \cup {s}]
            /\ request' = [request EXCEPT ![s].pc = "take"]
            /\ UNCHANGED client
    /\ UNCHANGED <<home, files, solo, history, faults>>

\* The core takes the launch file.
Take(s) ==
    /\ Working(s, "take")
    /\ files' = files \ {s}
    /\ request' = [request EXCEPT ![s].pc = "count"]
    /\ UNCHANGED <<home, core, client, solo, history, faults>>

\* The launch is counted and its setup thread starts.
Count(s) ==
    /\ Working(s, "count")
    /\ request' = [request EXCEPT ![s].pc = "setup"]
    /\ UNCHANGED <<home, core, client, files, solo, history, faults>>

\* The setup thread registers the session; the reactor does nothing else
\* during a handoff.
Register(s) ==
    LET c == request[s].core IN
    /\ Working(s, "setup")
    /\ core[c].stage \notin {"exported", "late"}
    /\ core' = [core EXCEPT ![c].hosted = @ \cup {s}]
    /\ request' = [request EXCEPT ![s] = NoRequest]
    /\ Answered(s, "done")
    /\ UNCHANGED <<home, files, solo, history, faults>>

\* The manifest is there before the session is registered.
Reply(s) ==
    /\ Working(s, "setup") /\ client[s] = "waiting"
    /\ Answered(s, "done")
    /\ UNCHANGED <<home, core, request, files, solo, history, faults>>

SetupFails(s) ==
    /\ Working(s, "setup")
    /\ Fault("fail")
    /\ core' = [core EXCEPT ![request[s].core].live = @ \ {s}]
    /\ request' = [request EXCEPT ![s] = NoRequest]
    /\ Answered(s, "fallback")
    /\ UNCHANGED <<home, files, solo, history>>

\* The reactor of c reads and types for its sessions.
Active(c) == core[c].stage \notin {"exported", "late"} /\ core[c].pc # "adopting"

SessionEnds(c, s) ==
    /\ s \in core[c].hosted /\ Active(c)
    /\ Fault("end")
    /\ core' = [core EXCEPT ![c].live = @ \ {s}, ![c].hosted = @ \ {s}]
    /\ UNCHANGED <<home, launches, history>>

-----------------------------------------------------------------------------
(* A core starts: run_core_unix.                                            *)

\* Mutant: the lock is not tried.
BootUnlocked(c) ==
    /\ core[c].pc = "start"
    /\ core' = [core EXCEPT ![c].pc = "bound"]
    /\ locks' = {c} /\ socket' = {c}
    /\ UNCHANGED <<disk, record, launches, history, faults>>

\* Another core has the lock: this one is not needed.
Boot(c) ==
    /\ core[c].pc = "start"
    /\ IF locks = {}
       THEN /\ core' = [core EXCEPT ![c].pc = "bound"]
            /\ locks' = {c} /\ socket' = {c}
            /\ UNCHANGED request
       ELSE Ended(c) /\ UNCHANGED socket
    /\ UNCHANGED <<disk, record, client, files, solo, history, faults>>

WriteRecord(c) ==
    /\ core[c].pc = "bound"
    /\ record' = c
    /\ core' = [core EXCEPT ![c].pc = "serving"]
    /\ UNCHANGED <<disk, socket, locks, launches, history, faults>>

-----------------------------------------------------------------------------
(* The shutdown request, the end of the accept loop.                        *)

AskShutdown(c) == core' = [core EXCEPT ![c].asked = (core[c].stage = "none")]

\* Under the lock of the live set.
DecideShutdown(c) ==
    /\ core[c].asked
    /\ core' = [core EXCEPT ![c].asked = FALSE, ![c].shutting = @ \/ core[c].live = {}]
    /\ UNCHANGED <<home, launches, history, faults>>

\* The accept loop sees the flag; the socket and the record are removed.
Close(c) ==
    /\ core[c].pc = "serving" /\ core[c].shutting
    /\ core' = [core EXCEPT ![c].pc = "closing"]
    /\ socket' = {} /\ record' = Nobody
    /\ UNCHANGED <<disk, locks, launches, history, faults>>

\* The accept loop sees that the sessions have moved; nothing is removed.
Leave(c) ==
    /\ core[c].pc = "handed"
    /\ core' = [core EXCEPT ![c].pc = "draining"]
    /\ socket' = socket \ {c}
    /\ UNCHANGED <<disk, record, locks, launches, history, faults>>

\* After a handoff the core waits for sessions that are ending, but no longer
\* than 30 seconds.
Exit(c) ==
    /\ core[c].pc \in {"closing", "draining"}
    /\ lost' = lost \cup core[c].live
    /\ Ended(c)
    /\ UNCHANGED <<disk, record, socket, client, files, solo, straddled, widowed, dropped,
                   twice, split, faults>>

Kill(c) ==
    /\ Alive(c)
    /\ Fault("kill")
    /\ Ended(c)
    /\ socket' = socket \ {c}
    /\ widowed' = widowed \cup core[c].live
    /\ UNCHANGED <<disk, record, client, files, solo, lost, straddled, dropped, twice, split>>

-----------------------------------------------------------------------------
(* The handoff: handle_handoff and Reactor::handoff in the old core c,       *)
(* run_takeover in the new core t.                                          *)

\* t finds no core, or one that hands off already, shuts down or ends.
TakeoverRefused(t) ==
    /\ \/ core[t].pc = "connect" /\ (socket = {} \/ \E c \in Accepting : ~Open(c))
       \/ core[t].pc = "linked" /\ \A c \in Cores : core[c].to # t
    /\ Ended(t)
    /\ UNCHANGED <<disk, record, socket, client, files, solo, history, faults>>

BeginHandoff(c, t) ==
    /\ core[t].pc = "connect"
    /\ c \in Accepting /\ Open(c)
    /\ core' = [core EXCEPT ![c].stage = "wait", ![c].to = t, ![t].pc = "linked"]
    /\ UNCHANGED <<home, launches, history, faults>>

\* No launch is counted: the reactor pauses its sessions and sends them with the
\* lock and the listening socket.
Export(c) ==
    LET t == core[c].to IN
    /\ core[c].stage = "wait"
    /\ core[t].pc = "linked"
    /\ Launching(c) = {}
    /\ core' = [core EXCEPT ![c].stage = "exported",
                            ![t].pc = "adopting",
                            ![t].live = core[c].hosted, ![t].hosted = core[c].hosted]
    /\ locks' = locks \cup {t}
    /\ socket' = IF c \in socket THEN socket \cup {t} ELSE socket
    /\ straddled' = straddled \cup Uncounted(c)
    /\ UNCHANGED <<disk, record, launches, lost, widowed, dropped, twice, split, faults>>

\* A launch took longer than 15 seconds, a flush failed, or t is gone.
RefuseHandoff(c) ==
    LET t == core[c].to IN
    /\ core[c].stage = "wait"
    /\ \/ Launching(c) # {} /\ UNCHANGED faults
       \/ ~Alive(t) /\ UNCHANGED faults
       \/ Fault("fail")
    /\ core' = [core EXCEPT ![c].stage = "none", ![c].to = Nobody, ![t] = Gone(t)]
    /\ UNCHANGED <<home, launches, history>>

\* t hosts the sessions and names itself in the record.
Publish(t) ==
    /\ core[t].pc = "adopting"
    /\ core' = [core EXCEPT ![t].pc = "published"]
    /\ record' = t
    /\ UNCHANGED <<disk, socket, locks, launches, history, faults>>

\* t exits before it serves, with the sessions that nobody else has.
GivesUpTakeover(t) ==
    /\ Ended(t)
    /\ socket' = socket \ {t}
    /\ dropped' = dropped \cup
          (core[t].live \ UNION {core[c].live : c \in Cores \ {t}})

\* A session cannot be rebuilt.
TakeoverFails(t) ==
    /\ core[t].pc = "adopting"
    /\ Fault("fail")
    /\ GivesUpTakeover(t)
    /\ UNCHANGED <<disk, record, client, files, solo, lost, straddled, widowed, twice, split>>

\* The commit; t ends when nobody listens to it.
Commit(t) ==
    /\ core[t].pc = "published"
    /\ IF \E c \in Cores : core[c].to = t
       THEN /\ core' = [c \in Cores |->
                          IF c = t THEN [core[t] EXCEPT !.pc = "serving"]
                          ELSE IF core[c].to = t THEN [core[c] EXCEPT !.ok = TRUE]
                          ELSE core[c]]
            /\ UNCHANGED <<locks, socket, request, dropped>>
       ELSE GivesUpTakeover(t)
    /\ UNCHANGED <<disk, record, client, files, solo, lost, straddled, widowed, twice, split,
                   faults>>

\* Mutant: the reactor keeps what it has handed over.
ForgetNothing(c) ==
    /\ core[c].stage = "exported" /\ core[c].ok
    /\ core' = [core EXCEPT ![c].stage = "moved", ![c].to = Nobody,
                            ![c].pc = IF @ = "serving" THEN "handed" ELSE @,
                            ![c].live = @ \ core[c].hosted]
    /\ UNCHANGED <<home, launches, history, faults>>

\* forget_after_handoff: what was handed over leaves the live set.
Forget(c) ==
    /\ core[c].stage = "exported" /\ core[c].ok
    /\ core' = [core EXCEPT ![c].stage = "moved", ![c].to = Nobody,
                            ![c].pc = IF @ = "serving" THEN "handed" ELSE @,
                            ![c].live = @ \ core[c].hosted, ![c].hosted = {}]
    /\ UNCHANGED <<home, launches, history, faults>>

\* No commit within 30 seconds; the connection is still open.
TimeOut(c) ==
    /\ core[c].stage = "exported" /\ ~core[c].ok
    /\ Alive(core[c].to)
    /\ Fault("slow")
    /\ core' = [core EXCEPT ![c].stage = "late"]
    /\ split' = TRUE
    /\ UNCHANGED <<home, launches, lost, straddled, widowed, dropped, twice>>

\* Mutant: only a time-out ends the wait for a new core that is gone.
ResumeLate(c) ==
    /\ core[c].stage = "late"
    /\ core' = [core EXCEPT ![c].stage = "none", ![c].to = Nobody, ![c].ok = FALSE]
    /\ UNCHANGED <<home, launches, history, faults>>

\* t is gone without a commit, or too late: c serves its sessions again.
Resume(c) ==
    /\ \/ core[c].stage = "exported" /\ ~core[c].ok /\ ~Alive(core[c].to)
       \/ core[c].stage = "late"
    /\ core' = [core EXCEPT ![c].stage = "none", ![c].to = Nobody, ![c].ok = FALSE]
    /\ UNCHANGED <<home, launches, history, faults>>
=============================================================================
