------------------------ MODULE CoreSupervisorProofs ------------------------
(***************************************************************************)
(* The PTY cores and their supervisor for any number of cores, sessions,    *)
(* faults and restarts: one core opens its doors, no session is served by   *)
(* two processes, and no core exits with a session.                         *)
(***************************************************************************)
EXTENDS CoreSupervisor, FiniteSetTheorems, TLAPS

\* A process that has not opened its doors, or that is gone.
Outside == {"off", "start", "bound", "connect", "linked"}

\* How the two ends of a handoff fit together.  The old core waits for a new one
\* that has connected; once it has exported, the new one is adopting until the
\* commit; whoever has nothing to hand over names nobody.
StageFits(c) ==
    /\ core[c].stage \in {"none", "moved"} => core[c].to = Nobody
    /\ core[c].stage \in {"none", "wait"} => ~core[c].ok
    /\ core[c].stage \notin {"none", "moved"} =>
          /\ core[c].to \in Cores \ {c}
          /\ core[c].pc \in {"serving", "closing"}
          /\ core[core[c].to].pc \notin {"start", "connect"}
    /\ core[c].stage = "wait" => core[core[c].to].pc \in {"linked", "off"}
    /\ core[c].stage \in {"exported", "late"} /\ ~core[c].ok =>
          core[core[c].to].pc \in {"adopting", "published", "off"}
    /\ core[c].stage = "moved" => core[c].pc \in {"handed", "draining", "closing"}
    /\ core[c].pc \in {"handed", "draining"} => core[c].stage = "moved"
    /\ core[c].stage = "late" => split
StagesFit == \A c \in Cores : StageFits(c)

\* No two old cores hand over to the same new one.
OneHeir ==
    \A c, d \in Cores : core[c].to # Nobody /\ core[c].to = core[d].to => c = d

\* Whoever has opened its doors, or is about to take over, has the lock.
Locked ==
    \A c \in Cores : core[c].pc \notin {"off", "start", "connect", "linked"} => c \in locks

\* c has the sessions of the home, or may get them back.
Holds(c) ==
    /\ core[c].pc \in {"bound", "serving", "closing", "adopting", "published"}
    /\ core[c].stage # "moved" /\ ~core[c].ok

\* c has handed over to d, which has not committed yet.
HandsTo(c, d) == core[c].stage = "exported" /\ core[c].to = d

\* Two cores hold the sessions only between the export and the commit.
OneHolder ==
    split \/ \A c, d \in Cores : c # d /\ Holds(c) /\ Holds(d) =>
        \/ HandsTo(c, d) /\ core[d].pc \in {"adopting", "published"}
        \/ HandsTo(d, c) /\ core[c].pc \in {"adopting", "published"}

\* The launches that c has let into its live set, and those past its gate.
Entering(c) ==
    {s \in Sessions : request[s].pc \in {"take", "count", "setup"} /\ request[s].core = c}
Underway(c) ==
    {s \in Sessions : request[s].pc \in {"insert", "take", "count", "setup"}
                      /\ request[s].core = c}

\* What a core accounts for in each phase: a core that shuts down has nothing,
\* what it accounts for and does not serve is being launched, and once it has
\* exported, such a session passed the gate before the handoff.
Accounts(c) ==
    /\ core[c].pc \in Outside => core[c].live = {} /\ core[c].hosted = {}
    /\ core[c].pc \in Outside \cup {"adopting", "published"} =>
          ~core[c].shutting /\ ~core[c].asked
    /\ core[c].pc = "closing" => core[c].shutting
    /\ core[c].shutting => core[c].live = {}
    /\ core[c].live = core[c].hosted \cup Entering(c)
    /\ core[c].stage \in {"exported", "late", "moved"} => Underway(c) \subseteq straddled
    /\ core[c].stage = "moved" => core[c].hosted \subseteq straddled
LiveFits == \A c \in Cores : Accounts(c)

Anywhere(s) == \E c \in Cores : s \in core[c].hosted

\* A launch goes one way: a request is worked on by a core that accepted it, a
\* session that is being launched is served nowhere yet.
LaunchFits ==
    \A s \in Sessions :
        /\ request[s].pc = "none" <=> request[s].core = Nobody
        /\ ~Working(s, "none") =>
              /\ core[request[s].core].pc \in {"serving", "handed", "draining", "closing"}
              /\ ~Anywhere(s)
        /\ client[s] \in {"idle", "routed"} => Working(s, "none") /\ ~Anywhere(s)
        /\ client[s] = "idle" => s \notin files
        /\ client[s] = "routed" => s \in files
        /\ s \in solo => client[s] = "done"

\* The launch file is the token: while it exists the session is nowhere, and one
\* process takes it, unless the client gave up on a core too early.
OneToken ==
    \A s \in Sessions \ twice :
        /\ s \in files => ~Anywhere(s) /\ s \notin solo /\ request[s].pc \notin {"count", "setup"}
        /\ request[s].pc \in {"gate", "insert", "take"} => client[s] = "waiting" /\ s \in files
        /\ s \in solo => Working(s, "none") /\ ~Anywhere(s)

\* Two cores know a session only when one has handed it over to the other, or
\* has been told that somebody serves it.
OneHost ==
    split \/ \A c, d \in Cores, s \in Sessions :
        c # d /\ s \in core[c].hosted /\ s \in core[d].hosted =>
            \/ core[c].stage = "exported" /\ core[c].ok
            \/ core[d].stage = "exported" /\ core[d].ok
            \/ HandsTo(c, d) \/ HandsTo(d, c)

\* What a new core has before its commit, the old core has kept, unless it was
\* killed or has stopped waiting.
Backs(c, t, s) == HandsTo(c, t) /\ ~core[c].ok /\ s \in core[c].hosted
Backed ==
    split \/ \A t \in Cores : core[t].pc \in {"adopting", "published"} =>
        \A s \in core[t].live : s \in widowed \/ \E c \in Cores : Backs(c, t, s)

CoresFit == StagesFit /\ OneHeir /\ Locked /\ OneHolder
SessionsFit == LiveFits /\ LaunchFits /\ OneToken /\ OneHost
IInv == TypeOK /\ CoresFit /\ SessionsFit /\ Backed /\ NoneTaken

-----------------------------------------------------------------------------
(* Types.                                                                   *)

LEMMA InitTyped == Init => TypeOK
<1> SUFFICES ASSUME Init PROVE TypeOK
  OBVIOUS
<1>1. CoreInit /\ \E takeover \in BOOLEAN : worker = Worker(takeover)
  BY DEF Init
<1>2. Fresh("serving", 1, Hosted) \in Process /\ Fresh("off", 1, {}) \in Process
  BY CoresAssumption DEF Fresh, Process, CorePc
<1>3. core \in [Cores -> Process]
  BY <1>1, <1>2 DEF CoreInit
<1>4. worker \in Supervisor
  BY <1>1, RapidAssumption DEF Worker, Supervisor
<1>5. request \in [Sessions -> [pc : {"none", "gate", "insert", "take", "count", "setup"},
                                core : Cores \cup {Nobody}]]
  BY <1>1 DEF CoreInit, NoRequest
<1>6. faults \in 0..MaxFaults /\ disk \in 1..2
  BY <1>1, FaultsAssumption DEF CoreInit
<1>7. client \in [Sessions -> {"idle", "routed", "waiting", "fallback", "done"}]
  BY <1>1 DEF CoreInit
<1>8. split \in BOOLEAN
  BY <1>1 DEF CoreInit
<1>9. record \in Cores \cup {Nobody} /\ socket \subseteq Cores /\ locks \subseteq Cores
  BY <1>1, CoresAssumption DEF CoreInit
<1>10. /\ files \subseteq Sessions /\ solo \subseteq Sessions
       /\ lost \subseteq Sessions /\ straddled \subseteq Sessions /\ twice \subseteq Sessions
       /\ widowed \subseteq Sessions /\ dropped \subseteq Sessions
  BY <1>1 DEF CoreInit
<1>11. QED
  BY <1>3, <1>4, <1>5, <1>6, <1>7, <1>8, <1>9, <1>10, Zenon DEF TypeOK

\* One core changes in its sessions, the request flags or its phase.
LEMMA CoreTyped ==
    ASSUME core \in [Cores -> Process], NEW c \in Cores
    PROVE  /\ \A S \in SUBSET Sessions : [core EXCEPT ![c].live = S] \in [Cores -> Process]
           /\ \A S \in SUBSET Sessions : [core EXCEPT ![c].hosted = S] \in [Cores -> Process]
           /\ \A p \in CorePc : [core EXCEPT ![c].pc = p] \in [Cores -> Process]
           /\ \A b \in BOOLEAN : [core EXCEPT ![c].asked = b] \in [Cores -> Process]
  BY DEF Process

LEMMA ShuttingTyped ==
    ASSUME NEW f \in [Cores -> Process], NEW c \in Cores, NEW b \in BOOLEAN
    PROVE  [f EXCEPT ![c].shutting = b] \in [Cores -> Process]
  BY DEF Process

\* The launch of a session, from the client and in the core, keeps the types.
LEMMA LaunchTyped ==
    ASSUME IInv, NEW s \in Sessions,
           Client(s) \/ Request(s) \/ Reply(s) \/ SetupFails(s), UNCHANGED worker
    PROVE  TypeOK'
<1> USE DEF home, launches, history
<1> DEFINE c == request[s].core
<1>0. TypeOK /\ (~Working(s, "none") => c \in Cores)
  BY DEF IInv, TypeOK, SessionsFit, LaunchFits, Working
<1>1. CASE Route(s)
  BY <1>0, <1>1 DEF Route, TypeOK
<1>2. CASE Connect(s)
  BY <1>0, <1>2 DEF Connect, TypeOK, Accepting
<1>3. CASE NoAnswer(s)
  BY <1>0, <1>3, FaultsAssumption DEF NoAnswer, TypeOK, Fault
<1>4. CASE Fallback(s)
  BY <1>0, <1>4 DEF Fallback, TypeOK
<1>5. CASE Gate(s)
  BY <1>0, <1>5 DEF Gate, TypeOK, NoRequest, Answered
<1>6. CASE Insert(s)
  <2>1. c \in Cores
    BY <1>0, <1>6 DEF Insert, Working
  <2>2. core[c].live \cup {s} \in SUBSET Sessions
    BY <1>0, <2>1 DEF TypeOK, Process
  <2>3. core' \in [Cores -> Process]
    <3>1. core \in [Cores -> Process]
      BY <1>0 DEF TypeOK
    <3>2. core' = core \/ core' = [core EXCEPT ![c].live = @ \cup {s}]
      BY <1>6 DEF Insert
    <3>3. [core EXCEPT ![c].live = core[c].live \cup {s}] \in [Cores -> Process]
      BY <3>1, <2>1, <2>2, CoreTyped
    <3>4. QED
      BY <3>1, <3>2, <3>3
  <2>4. /\ request' \in [Sessions -> [pc : {"none", "gate", "insert", "take", "count", "setup"},
                                      core : Cores \cup {Nobody}]]
        /\ client' \in [Sessions -> {"idle", "routed", "waiting", "fallback", "done"}]
    BY <1>0, <1>6 DEF Insert, TypeOK, NoRequest, Answered
  <2>5. QED
    BY <1>0, <1>6, <2>3, <2>4 DEF Insert, TypeOK
<1>7. CASE Register(s)
  <2>1. c \in Cores
    BY <1>0, <1>7 DEF Register, Working
  <2>2. core[c].hosted \cup {s} \in SUBSET Sessions
    BY <1>0, <2>1 DEF TypeOK, Process
  <2>3. core' \in [Cores -> Process]
    BY <1>0, <1>7, <2>1, <2>2, CoreTyped DEF Register, TypeOK
  <2>4. QED
    BY <1>0, <1>7, <2>3 DEF Register, TypeOK, NoRequest, Answered
<1>8. CASE Reply(s)
  BY <1>0, <1>8 DEF Reply, TypeOK, Answered
<1>9. CASE SetupFails(s)
  <2>1. c \in Cores
    BY <1>0, <1>9 DEF SetupFails, Working
  <2>2. core[c].live \ {s} \in SUBSET Sessions
    BY <1>0, <2>1 DEF TypeOK, Process
  <2>3. core' \in [Cores -> Process]
    BY <1>0, <1>9, <2>1, <2>2, CoreTyped DEF SetupFails, TypeOK
  <2>4. faults' \in 0..MaxFaults
    BY <1>0, <1>9, FaultsAssumption DEF SetupFails, TypeOK, Fault
  <2>5. QED
    BY <1>0, <1>9, <2>3, <2>4 DEF SetupFails, TypeOK, NoRequest, Answered
<1>10. CASE Take(s)
  BY <1>0, <1>10 DEF Take, TypeOK
<1>11. CASE Count(s)
  BY <1>0, <1>11 DEF Count, TypeOK
<1>12. QED
  BY <1>1, <1>2, <1>3, <1>4, <1>5, <1>6, <1>7, <1>8, <1>9, <1>10, <1>11 DEF Client, Request

-----------------------------------------------------------------------------
(* What a step has to leave alone, so that a part of the invariant stays.   *)

\* The phases of the cores and their handoffs stay.
LEMMA SameCores ==
    ASSUME CoresFit, locks' = locks, split' = split,
           \A c \in Cores : /\ core'[c].pc = core[c].pc
                            /\ core'[c].stage = core[c].stage
                            /\ core'[c].to = core[c].to
                            /\ core'[c].ok <=> core[c].ok
    PROVE  CoresFit'
<1>1. StagesFit'
  BY DEF CoresFit, StagesFit, StageFits
<1>2. OneHeir' /\ Locked'
  BY DEF CoresFit, OneHeir, Locked
<1>3. OneHolder'
  BY DEF CoresFit, OneHolder, Holds, HandsTo
<1>4. QED
  BY <1>1, <1>2, <1>3 DEF CoresFit

\* The launches stay or are abandoned, and no session turns up anew.
LEMMA SameLaunches ==
    ASSUME TypeOK, LaunchFits, OneToken, client' = client, files' = files, solo' = solo,
           twice' = twice,
           \A s \in Sessions : Anywhere(s)' => Anywhere(s),
           \A s \in Sessions :
              \/ request'[s] = NoRequest
              \/ /\ request'[s] = request[s]
                 /\ request[s].core \in Cores =>
                       core'[request[s].core].pc = core[request[s].core].pc
                       \/ core'[request[s].core].pc \in
                             {"serving", "handed", "draining", "closing"}
    PROVE  LaunchFits' /\ OneToken'
<1>1. NoRequest.pc = "none" /\ NoRequest.core = Nobody
  BY DEF NoRequest
<1>2. LaunchFits'
  BY <1>1, CoresAssumption DEF LaunchFits, Working, TypeOK
<1>3. OneToken'
  BY <1>1 DEF OneToken, Working
<1>4. QED
  BY <1>2, <1>3

\* The cores know no more sessions than before, and hand over as before.
LEMMA SameHosts ==
    ASSUME OneHost, split' = split,
           \A c \in Cores : core'[c].hosted \subseteq core[c].hosted,
           \A c \in Cores : core'[c].hosted # {} =>
              /\ core'[c].stage = core[c].stage
              /\ core'[c].to = core[c].to
              /\ core'[c].ok <=> core[c].ok
    PROVE  OneHost'
<1> SUFFICES ASSUME ~split, NEW c \in Cores, NEW d \in Cores, NEW s \in Sessions,
                    c # d, s \in core'[c].hosted, s \in core'[d].hosted
             PROVE  \/ core'[c].stage = "exported" /\ core'[c].ok
                    \/ core'[d].stage = "exported" /\ core'[d].ok
                    \/ HandsTo(c, d)' \/ HandsTo(d, c)'
  BY DEF OneHost
<1>0. core'[c].hosted # {} /\ core'[d].hosted # {}
  OBVIOUS
<1>1. /\ core'[c].stage = core[c].stage /\ core'[c].to = core[c].to
      /\ core'[c].ok <=> core[c].ok
  BY <1>0
<1>2. /\ core'[d].stage = core[d].stage /\ core'[d].to = core[d].to
      /\ core'[d].ok <=> core[d].ok
  BY <1>0
<1>3. s \in core[c].hosted /\ s \in core[d].hosted
  OBVIOUS
<1>4. \/ core[c].stage = "exported" /\ core[c].ok
      \/ core[d].stage = "exported" /\ core[d].ok
      \/ HandsTo(c, d) \/ HandsTo(d, c)
  BY <1>3 DEF OneHost
<1>5. QED
  BY <1>1, <1>2, <1>4 DEF HandsTo

\* The new cores before their commit have no more sessions than before, and the
\* old ones still wait for them.
LEMMA SameBacked ==
    ASSUME Backed, split' = split, widowed \subseteq widowed',
           \A t \in Cores : core'[t].pc \in {"adopting", "published"} =>
              core[t].pc \in {"adopting", "published"} /\ core'[t].live \subseteq core[t].live,
           \A c, t \in Cores :
              HandsTo(c, t) /\ ~core[c].ok /\ core'[t].pc \in {"adopting", "published"} =>
                 /\ HandsTo(c, t)' /\ ~core'[c].ok
                 /\ core[c].hosted \subseteq core'[c].hosted \cup widowed'
    PROVE  Backed'
<1> SUFFICES ASSUME ~split, NEW t \in Cores, core'[t].pc \in {"adopting", "published"},
                    NEW s \in core'[t].live, s \notin widowed'
             PROVE  \E c \in Cores : Backs(c, t, s)'
  BY DEF Backed
<1>1. PICK c \in Cores : Backs(c, t, s)
  BY DEF Backed
<1>2. Backs(c, t, s)'
  BY <1>1 DEF Backs
<1>3. QED
  BY <1>2

-----------------------------------------------------------------------------
(* A process ends.                                                          *)

LEMMA GoneFacts ==
    ASSUME TypeOK, NEW c \in Cores
    PROVE  /\ Gone(c) \in Process /\ Gone(c).pc = "off" /\ Gone(c).live = {}
           /\ Gone(c).hosted = {} /\ Gone(c).stage = "none" /\ Gone(c).to = Nobody
           /\ ~Gone(c).ok /\ ~Gone(c).shutting /\ ~Gone(c).asked
<1>1. core[c].build \in 1..2
  BY DEF TypeOK, Process
<1>2. QED
  BY <1>1 DEF Gone, Fresh, Process, CorePc

LEMMA EndedInv ==
    ASSUME IInv, TypeOK', NEW c \in Cores, Ended(c),
           UNCHANGED <<client, files, solo, straddled, twice, split>>,
           lost' \subseteq straddled, widowed \subseteq widowed',
           split \/ dropped' \subseteq widowed',
           core[c].stage = "exported" /\ ~core[c].ok => core[c].hosted \subseteq widowed'
    PROVE  IInv'
<1>1. TypeOK /\ CoresFit /\ SessionsFit /\ Backed
  BY DEF IInv
<1>2. /\ core'[c].pc = "off" /\ core'[c].live = {}
      /\ core'[c].hosted = {} /\ core'[c].stage = "none" /\ core'[c].to = Nobody
      /\ ~core'[c].ok /\ ~core'[c].shutting /\ ~core'[c].asked
      /\ \A d \in Cores : d # c => core'[d] = core[d]
  <2>1. core'[c] = Gone(c) /\ \A d \in Cores : d # c => core'[d] = core[d]
    BY <1>1 DEF Ended, TypeOK
  <2>2. QED
    BY <2>1, <1>1, GoneFacts
<1>3. /\ locks' = locks \ {c}
      /\ request' = [s \in Sessions |-> IF request[s].core = c THEN NoRequest ELSE request[s]]
  BY DEF Ended
<1>4. CoresFit'
  <2>1. StagesFit'
    BY <1>1, <1>2, CoresAssumption DEF CoresFit, StagesFit, StageFits
  <2>2. OneHeir' /\ Locked'
    BY <1>1, <1>2, <1>3 DEF CoresFit, OneHeir, Locked
  <2>3. OneHolder'
    BY <1>1, <1>2 DEF CoresFit, OneHolder, Holds, HandsTo
  <2>4. QED
    BY <2>1, <2>2, <2>3 DEF CoresFit
<1>5. LiveFits'
  <2> SUFFICES ASSUME NEW d \in Cores
               PROVE  Accounts(d)'
    BY DEF LiveFits
  <2>1. c # Nobody /\ Nobody \notin Cores
    BY CoresAssumption
  <2>2. CASE d = c
    <3>1. Entering(c)' = {} /\ Underway(c)' = {}
      BY <1>3, <2>1 DEF Entering, Underway, NoRequest
    <3>2. QED
      BY <1>2, <2>2, <3>1 DEF Accounts, Outside
  <2>3. CASE d # c
    <3>1. Entering(d)' = Entering(d) /\ Underway(d)' = Underway(d)
      BY <1>3, <2>1, <2>3 DEF Entering, Underway, NoRequest
    <3>2. Accounts(d) /\ core'[d] = core[d]
      BY <1>1, <1>2, <2>3 DEF SessionsFit, LiveFits
    <3>3. QED
      BY <3>1, <3>2 DEF Accounts
  <2>4. QED
    BY <2>2, <2>3
<1>6. LaunchFits' /\ OneToken'
  <2>1. \A s \in Sessions : Anywhere(s)' => Anywhere(s)
    BY <1>2 DEF Anywhere
  <2>2. \A s \in Sessions :
          \/ request'[s] = NoRequest
          \/ /\ request'[s] = request[s]
             /\ request[s].core \in Cores =>
                   core'[request[s].core].pc = core[request[s].core].pc
    BY <1>2, <1>3
  <2>3. QED
    BY <1>1, <2>1, <2>2, SameLaunches DEF SessionsFit
<1>7. OneHost'
  BY <1>1, <1>2, SameHosts DEF SessionsFit
<1>8. Backed'
  <2> SUFFICES ASSUME ~split, NEW t \in Cores, core'[t].pc \in {"adopting", "published"},
                      NEW s \in core'[t].live, s \notin widowed'
               PROVE  \E d \in Cores : Backs(d, t, s)'
    BY DEF Backed
  <2>1. t # c /\ core'[t] = core[t]
    BY <1>2
  <2>2. PICK d \in Cores : Backs(d, t, s)
    BY <1>1, <2>1 DEF Backed
  <2>3. d # c
    BY <2>2 DEF Backs, HandsTo
  <2>4. QED
    BY <1>2, <2>2, <2>3 DEF Backs, HandsTo
<1>9. NoneTaken'
  BY DEF NoneTaken
<1>10. QED
  BY <1>4, <1>5, <1>6, <1>7, <1>8, <1>9 DEF IInv, SessionsFit

LEMMA EndedTyped ==
    ASSUME TypeOK, NEW c \in Cores, Ended(c)
    PROVE  /\ core' \in [Cores -> Process] /\ locks' \subseteq Cores
           /\ request' \in [Sessions -> [pc : {"none", "gate", "insert", "take", "count", "setup"},
                                         core : Cores \cup {Nobody}]]
<1>1. core' \in [Cores -> Process]
  BY GoneFacts DEF Ended, TypeOK
<1>2. NoRequest \in [pc : {"none", "gate", "insert", "take", "count", "setup"}, core : Cores \cup {Nobody}]
  BY DEF NoRequest
<1>3. QED
  BY <1>1, <1>2 DEF Ended, TypeOK

-----------------------------------------------------------------------------
(* A launch goes on.                                                        *)

\* The cores stay, and nothing enters or leaves a live set.
LEMMA ClientStep ==
    ASSUME IInv, TypeOK', core' = core, locks' = locks,
           UNCHANGED <<lost, straddled, widowed, dropped, split>>,
           \A c \in Cores : /\ Entering(c)' = Entering(c)
                            /\ Underway(c)' \subseteq Underway(c) \/ core[c].stage = "none",
           LaunchFits', OneToken'
    PROVE  IInv'
<1>1. TypeOK /\ CoresFit /\ SessionsFit /\ Backed
  BY DEF IInv
<1>2. CoresFit'
  BY <1>1, SameCores
<1>4. LiveFits'
  BY <1>1 DEF SessionsFit, LiveFits, Accounts
<1>5. OneHost'
  BY <1>1 DEF SessionsFit, OneHost, HandsTo
<1>6. Backed'
  BY <1>1, SameBacked DEF HandsTo
<1>7. NoneTaken'
  BY DEF IInv, NoneTaken
<1>8. QED
  BY <1>2, <1>4, <1>5, <1>6, <1>7 DEF IInv, SessionsFit

\* The launch of s leaves the gate, or comes to an end before the core has let the
\* session in, or goes on inside.
LEMMA OneLaunch ==
    ASSUME TypeOK, NEW s \in Sessions, \A q \in Sessions : q # s => request'[q] = request[q],
           request'[s].core = request[s].core \/ request'[s].pc \in {"none", "gate"}
    PROVE  /\ request'[s].pc \in {"none", "gate", "insert"}
                 /\ request[s].pc \in {"none", "gate", "insert"} =>
                 \A c \in Cores : Entering(c)' = Entering(c)
           /\ request'[s].pc \in {"take", "count", "setup"}
                 /\ request[s].pc \in {"take", "count", "setup"} =>
                 \A c \in Cores : Entering(c)' = Entering(c)
           /\ request'[s].pc \in {"none", "gate"} \/ request[s].pc \notin {"none", "gate"} =>
                 \A c \in Cores : Underway(c)' \subseteq Underway(c)
           /\ \A c \in Cores : c # request'[s].core => Underway(c)' \subseteq Underway(c)
<1>1. request[s].pc \in {"none", "gate", "insert", "take", "count", "setup"}
  BY DEF TypeOK
<1>2. ASSUME \/ /\ request'[s].pc \in {"none", "gate", "insert"}
                /\ request[s].pc \in {"none", "gate", "insert"}
             \/ /\ request'[s].pc \in {"take", "count", "setup"}
                /\ request[s].pc \in {"take", "count", "setup"}
      PROVE  \A c \in Cores : Entering(c)' = Entering(c)
  BY <1>2 DEF Entering
<1>3. ASSUME NEW c \in Cores,
             \/ request'[s].pc \in {"none", "gate"} \/ request[s].pc \notin {"none", "gate"}
             \/ c # request'[s].core
      PROVE  Underway(c)' \subseteq Underway(c)
  BY <1>1, <1>3 DEF Underway
<1>4. QED
  BY <1>2, <1>3

LEMMA ClientInv ==
    ASSUME IInv, TypeOK', NEW s \in Sessions, Client(s) \/ Gate(s) \/ Reply(s)
    PROVE  IInv'
<1> USE DEF home, launches, history
<1>1. TypeOK /\ LaunchFits /\ OneToken
  BY DEF IInv, SessionsFit
<1>2. core' = core /\ locks' = locks /\ UNCHANGED <<lost, straddled, widowed, dropped, split>>
  BY DEF Client, Route, Connect, NoAnswer, Fallback, Gate, Reply
<1>0. request' = request => \A c \in Cores : Entering(c)' = Entering(c) /\ Underway(c)' = Underway(c)
  BY DEF Entering, Underway
<1>3. \A q \in Sessions : Anywhere(q)' = Anywhere(q)
  BY <1>2 DEF Anywhere
<1>4. CASE Route(s)
  <2>1. LaunchFits'
    BY <1>1, <1>2, <1>3, <1>4 DEF Route, LaunchFits, Working, TypeOK
  <2>2. OneToken'
    BY <1>1, <1>2, <1>3, <1>4 DEF Route, LaunchFits, OneToken, Working, TypeOK
  <2>3. QED
    BY <2>1, <2>2, <1>0, <1>2, <1>4, ClientStep DEF Route
<1>5. CASE Connect(s)
  <2>1. CASE \E c \in Accepting : request' = [request EXCEPT ![s] = [pc |-> "gate", core |-> c]]
                                  /\ client' = [client EXCEPT ![s] = "waiting"]
    <3>1. PICK c \in Accepting : request' = [request EXCEPT ![s] = [pc |-> "gate", core |-> c]]
      BY <2>1
    <3>2. c \in Cores /\ core[c].pc \in {"serving", "handed"} /\ c # Nobody
      BY <1>1, CoresAssumption DEF Accepting, TypeOK
    <3>3. request'[s].pc = "gate" /\ request'[s].core = c /\ client'[s] = "waiting"
          /\ \A q \in Sessions : q # s => request'[q] = request[q] /\ client'[q] = client[q]
      BY <1>1, <2>1, <3>1 DEF TypeOK
    <3>4. client[s] = "routed" /\ UNCHANGED <<files, solo, twice>>
      BY <1>5 DEF Connect
    <3>5. LaunchFits'
      BY <1>1, <1>2, <1>3, <3>2, <3>3, <3>4 DEF LaunchFits, Working
    <3>6. OneToken'
      BY <1>1, <1>3, <3>3, <3>4 DEF LaunchFits, OneToken, Working
    <3>7. request[s].pc = "none"
      BY <1>1, <3>4 DEF LaunchFits, Working
    <3>8. \A d \in Cores : Entering(d)' = Entering(d) /\ Underway(d)' \subseteq Underway(d)
      BY <3>3, <3>7, <1>1, OneLaunch
    <3>9. QED
      BY <3>5, <3>6, <3>8, <1>2, ClientStep
  <2>2. CASE request' = request /\ client' = [client EXCEPT ![s] = "fallback"]
    <3>1. client[s] = "routed" /\ UNCHANGED <<files, solo, twice>>
      BY <1>5 DEF Connect
    <3>2. LaunchFits' /\ OneToken'
      BY <1>1, <1>2, <1>3, <2>2, <3>1 DEF LaunchFits, OneToken, Working, TypeOK
    <3>3. QED
      BY <2>2, <3>2, <1>0, <1>2, ClientStep
  <2>3. QED
    BY <1>5, <2>1, <2>2 DEF Connect
<1>6. CASE NoAnswer(s)
  <2>1. /\ client[s] = "waiting" /\ UNCHANGED <<request, files, solo>>
        /\ client' = [client EXCEPT ![s] = IF s \in files THEN "fallback" ELSE "done"]
        /\ twice \subseteq twice'
        /\ Working(s, "none") \/ s \notin files \/ s \in twice'
    BY <1>6 DEF NoAnswer
  <2>2. LaunchFits'
    BY <1>1, <1>2, <1>3, <2>1 DEF LaunchFits, Working, TypeOK
  <2>3. OneToken'
    BY <1>1, <1>3, <2>1 DEF LaunchFits, OneToken, Working, TypeOK
  <2>4. QED
    BY <2>1, <2>2, <2>3, <1>0, <1>2, ClientStep
<1>7. CASE Fallback(s)
  <2>1. /\ client[s] = "fallback" /\ UNCHANGED <<request, twice>>
        /\ client' = [client EXCEPT ![s] = "done"]
        /\ solo' = solo \cup ({s} \cap files) /\ files' = files \ {s}
    BY <1>7 DEF Fallback
  <2>2. LaunchFits'
    BY <1>1, <1>2, <1>3, <2>1 DEF LaunchFits, Working, TypeOK
  <2>3. ASSUME NEW q \in Sessions \ twice
        PROVE  /\ q \in files' => ~Anywhere(q)' /\ q \notin solo'
                                    /\ request'[q].pc \notin {"count", "setup"}
               /\ request'[q].pc \in {"gate", "insert", "take"} => client'[q] = "waiting" /\ q \in files'
               /\ q \in solo' => Working(q, "none")' /\ ~Anywhere(q)'
    <3>1. CASE q # s
      BY <3>1, <1>1, <1>3, <2>1 DEF OneToken, Working, TypeOK
    <3>2. CASE q = s
      <4>1. request[s].pc \in {"none", "gate", "insert", "take", "count", "setup"}
        BY <1>1 DEF TypeOK
      <4>2. s \in files => request[s].pc = "none" /\ ~Anywhere(s)
        BY <3>2, <4>1, <1>1, <2>1 DEF OneToken, Working
      <4>3. request[s].pc \notin {"gate", "insert", "take"}
        BY <3>2, <1>1, <2>1 DEF OneToken
      <4>4. QED
        BY <3>2, <4>2, <4>3, <1>1, <1>3, <2>1 DEF OneToken, Working
    <3>3. QED
      BY <3>1, <3>2
  <2>4. OneToken'
    BY <2>1, <2>3 DEF OneToken
  <2>5. QED
    BY <2>1, <2>2, <2>4, <1>0, <1>2, ClientStep
<1>8. CASE Gate(s)
  <2>1. /\ Working(s, "gate") /\ UNCHANGED <<files, solo, twice>>
    BY <1>8 DEF Gate
  <2>2. CASE /\ Open(request[s].core) /\ s \in files
             /\ request' = [request EXCEPT ![s].pc = "insert"] /\ UNCHANGED client
    <3>1. request'[s].pc = "insert" /\ request'[s].core = request[s].core
          /\ \A q \in Sessions : q # s => request'[q] = request[q]
      BY <1>1, <2>2 DEF TypeOK
    <3>2. LaunchFits'
      BY <1>1, <1>2, <1>3, <2>1, <2>2, <3>1 DEF LaunchFits, Working
    <3>3. OneToken'
      BY <1>1, <1>3, <2>1, <2>2, <3>1 DEF OneToken, Working
    <3>4. \A d \in Cores : /\ Entering(d)' = Entering(d)
                           /\ Underway(d)' \subseteq Underway(d) \/ core[d].stage = "none"
      BY <2>1, <2>2, <3>1, <1>1, OneLaunch DEF Working, Open
    <3>5. QED
      BY <3>2, <3>3, <3>4, <1>2, ClientStep
  <2>3. CASE request' = [request EXCEPT ![s] = NoRequest] /\ Answered(s, "fallback")
    <3>1. /\ request'[s].pc = "none" /\ request'[s].core = Nobody
          /\ \A q \in Sessions : q # s => request'[q] = request[q] /\ client'[q] = client[q]
          /\ client'[s] = IF client[s] = "waiting" THEN "fallback" ELSE client[s]
      BY <1>1, <2>3 DEF TypeOK, NoRequest, Answered
    <3>2. LaunchFits'
      BY <1>1, <1>2, <1>3, <2>1, <3>1 DEF LaunchFits, Working
    <3>3. OneToken'
      BY <1>1, <1>3, <2>1, <3>1 DEF OneToken, Working
    <3>4. \A d \in Cores : Entering(d)' = Entering(d) /\ Underway(d)' \subseteq Underway(d)
      BY <2>1, <3>1, <1>1, OneLaunch DEF Working
    <3>5. QED
      BY <3>2, <3>3, <3>4, <1>2, ClientStep
  <2>4. QED
    BY <1>8, <2>2, <2>3 DEF Gate
<1>9. CASE Reply(s)
  <2>1. /\ UNCHANGED <<request, files, solo, twice>>
        /\ Working(s, "setup") /\ client[s] = "waiting"
        /\ client' = [client EXCEPT ![s] = "done"]
    BY <1>9, <1>1 DEF Reply, Answered, TypeOK
  <2>2. LaunchFits' /\ OneToken'
    BY <1>1, <1>2, <1>3, <2>1 DEF LaunchFits, OneToken, Working, TypeOK
  <2>3. QED
    BY <2>1, <2>2, <1>0, <1>2, ClientStep
<1>10. QED
  BY <1>4, <1>5, <1>6, <1>7, <1>8, <1>9 DEF Client

\* A launch that the core has let in goes on: the file, the count.
LEMMA InsideInv ==
    ASSUME IInv, TypeOK', NEW s \in Sessions, Take(s) \/ Count(s)
    PROVE  IInv'
<1> USE DEF home, launches, history
<1>1. TypeOK /\ LaunchFits /\ OneToken
  BY DEF IInv, SessionsFit
<1>2. /\ core' = core /\ locks' = locks
      /\ UNCHANGED <<client, solo, lost, straddled, widowed, dropped, twice, split>>
      /\ files' \subseteq files /\ \A q \in Sessions : q # s => (q \in files' <=> q \in files)
      /\ request[s].pc \in {"take", "count"} /\ (Take(s) => s \notin files')
      /\ (~Take(s) => request[s].pc = "count" /\ files' = files)
  BY DEF Take, Count, Working
<1>3. /\ request'[s].pc \in {"count", "setup"} /\ request'[s].core = request[s].core
      /\ \A q \in Sessions : q # s => request'[q] = request[q]
  BY <1>1 DEF Take, Count, TypeOK
<1>4. \A q \in Sessions : Anywhere(q)' = Anywhere(q)
  BY <1>2 DEF Anywhere
<1>5. client[s] \notin {"idle", "routed"}
  BY <1>1, <1>2 DEF LaunchFits, Working
<1>6. LaunchFits'
  BY <1>1, <1>2, <1>3, <1>4, <1>5 DEF LaunchFits, Working
<1>7. OneToken'
  BY <1>1, <1>2, <1>3, <1>4 DEF OneToken, Working
<1>8. \A d \in Cores : Entering(d)' = Entering(d) /\ Underway(d)' \subseteq Underway(d)
  BY <1>2, <1>3, <1>1, OneLaunch
<1>9. QED
  BY <1>2, <1>6, <1>7, <1>8, ClientStep

LEMMA InsertInv ==
    ASSUME IInv, TypeOK', NEW s \in Sessions, Insert(s)
    PROVE  IInv'
<1> USE DEF home, launches, history
<1>1. TypeOK /\ CoresFit /\ LiveFits /\ LaunchFits /\ OneToken /\ OneHost /\ Backed
  BY DEF IInv, SessionsFit
<1>2. PICK c \in Cores : c = request[s].core
  BY <1>1 DEF Insert, LaunchFits, Working, TypeOK
<1>3. /\ request[s].pc = "insert" /\ locks' = locks
      /\ UNCHANGED <<files, solo, lost, straddled, widowed, dropped, twice, split>>
  BY DEF Insert, Working
<1>4. /\ core[c].pc \in {"serving", "handed", "draining", "closing"}
      /\ ~Anywhere(s) /\ client[s] \notin {"idle", "routed"}
  BY <1>1, <1>2, <1>3 DEF LaunchFits, Working
<1>5. CASE core[c].shutting
  <2>1. /\ request' = [request EXCEPT ![s] = NoRequest] /\ Answered(s, "fallback")
        /\ UNCHANGED core
    BY <1>2, <1>5 DEF Insert
  <2>2. /\ request'[s].pc = "none" /\ request'[s].core = Nobody
        /\ \A q \in Sessions : q # s => request'[q] = request[q] /\ client'[q] = client[q]
    BY <1>1, <2>1 DEF TypeOK, NoRequest, Answered
  <2>3. client'[s] = IF client[s] = "waiting" THEN "fallback" ELSE client[s]
    BY <1>1, <2>1 DEF TypeOK, Answered
  <2>4. \A q \in Sessions : Anywhere(q)' = Anywhere(q)
    BY <2>1 DEF Anywhere
  <2>5. LaunchFits'
    BY <1>1, <1>3, <1>4, <2>1, <2>2, <2>3, <2>4 DEF LaunchFits, Working
  <2>6. OneToken'
    BY <1>1, <1>3, <2>1, <2>2, <2>4 DEF OneToken, Working
  <2>7. \A d \in Cores : Entering(d)' = Entering(d) /\ Underway(d)' \subseteq Underway(d)
    BY <1>3, <2>2, <1>1, OneLaunch
  <2>8. QED
    BY <1>3, <2>1, <2>5, <2>6, <2>7, ClientStep
<1>6. CASE ~core[c].shutting
  <2>1. /\ core' = [core EXCEPT ![c].live = @ \cup {s}]
        /\ request' = [request EXCEPT ![s].pc = "take"] /\ client' = client
    BY <1>2, <1>6 DEF Insert
  <2>2. /\ core'[c].live = core[c].live \cup {s}
        /\ \A d \in Cores : d # c => core'[d].live = core[d].live
    BY <1>1, <2>1 DEF TypeOK, Process
  <2>3. \A d \in Cores : /\ core'[d].pc = core[d].pc /\ core'[d].stage = core[d].stage
                         /\ core'[d].to = core[d].to /\ core'[d].hosted = core[d].hosted
                         /\ (core'[d].ok <=> core[d].ok)
                         /\ (core'[d].shutting <=> core[d].shutting)
                         /\ (core'[d].asked <=> core[d].asked)
    BY <1>1, <2>1 DEF TypeOK, Process
  <2>4. /\ request'[s].pc = "take" /\ request'[s].core = c
        /\ \A q \in Sessions : q # s => request'[q] = request[q]
    BY <1>1, <1>2, <2>1 DEF TypeOK
  <2>5. CoresFit'
    BY <1>1, <1>3, <2>3, SameCores
  <2>6. \A q \in Sessions : Anywhere(q)' = Anywhere(q)
    BY <2>3 DEF Anywhere
  <2>7. LiveFits'
    <3>1. /\ \A d \in Cores : Underway(d)' = Underway(d)
          /\ \A d \in Cores : d # c => Entering(d)' = Entering(d)
          /\ Entering(c)' = Entering(c) \cup {s}
      BY <1>2, <1>3, <2>4 DEF Entering, Underway
    <3>2. ASSUME NEW d \in Cores, d # c
          PROVE  Accounts(d)'
      BY <1>1, <1>3, <2>2, <2>3, <3>1, <3>2 DEF LiveFits, Accounts
    <3>3. /\ core'[c].pc \notin Outside \cup {"adopting", "published"}
          /\ ~core'[c].shutting /\ core'[c].pc # "closing"
      BY <1>1, <1>4, <1>6, <2>3 DEF LiveFits, Accounts, Outside
    <3>4. /\ core'[c].live = core'[c].hosted \cup Entering(c)'
          /\ core'[c].stage \in {"exported", "late", "moved"} => Underway(c)' \subseteq straddled'
          /\ core'[c].stage = "moved" => core'[c].hosted \subseteq straddled'
      BY <1>1, <1>3, <2>2, <2>3, <3>1 DEF LiveFits, Accounts
    <3>5. QED
      BY <3>2, <3>3, <3>4 DEF LiveFits, Accounts
  <2>8. LaunchFits'
    BY <1>1, <1>2, <1>3, <1>4, <2>1, <2>3, <2>4, <2>6, CoresAssumption DEF LaunchFits, Working
  <2>9. OneToken'
    BY <1>1, <1>3, <1>4, <2>1, <2>4, <2>6 DEF OneToken, Working
  <2>10. OneHost'
    BY <1>1, <1>3, <2>3, SameHosts
  <2>11. Backed'
    <3>1. core[c].pc \notin {"adopting", "published"}
      BY <1>4
    <3>2. QED
      BY <1>1, <1>3, <2>2, <2>3, <3>1, SameBacked DEF HandsTo
  <2>12. NoneTaken'
    BY <1>3, <2>1 DEF IInv, NoneTaken
  <2>13. QED
    BY <2>5, <2>7, <2>8, <2>9, <2>10, <2>11, <2>12 DEF IInv, SessionsFit
<1>7. QED
  BY <1>5, <1>6

\* The setup is over: the session is served by its core, or has failed.
LEMMA SetupInv ==
    ASSUME IInv, TypeOK', NEW s \in Sessions, Register(s) \/ SetupFails(s)
    PROVE  IInv'
<1> USE DEF home, launches, history
<1>1. TypeOK /\ CoresFit /\ LiveFits /\ LaunchFits /\ OneToken /\ OneHost /\ Backed
  BY DEF IInv, SessionsFit
<1>2. /\ request[s].pc = "setup" /\ locks' = locks
      /\ request' = [request EXCEPT ![s] = NoRequest]
      /\ UNCHANGED <<files, solo, lost, twice, split, straddled, widowed, dropped>>
  BY DEF Register, SetupFails, Working
<1>3. PICK c \in Cores : c = request[s].core
  BY <1>1, <1>2 DEF LaunchFits, Working, TypeOK
<1>4. /\ core[c].pc \in {"serving", "handed", "draining", "closing"}
      /\ ~Anywhere(s) /\ client[s] \notin {"idle", "routed"}
  BY <1>1, <1>2, <1>3 DEF LaunchFits, Working
<1>5. /\ request'[s].pc = "none" /\ request'[s].core = Nobody
      /\ \A q \in Sessions : q # s => request'[q] = request[q]
  BY <1>1, <1>2 DEF TypeOK, NoRequest
<1>6. /\ client'[s] \notin {"idle", "routed"}
      /\ client[s] = "done" => client'[s] = "done"
      /\ \A q \in Sessions : q # s => client'[q] = client[q]
  BY <1>1, <1>4 DEF Register, SetupFails, Answered, TypeOK
<1>7. \A d \in Cores : /\ core'[d].pc = core[d].pc /\ core'[d].stage = core[d].stage
                       /\ core'[d].to = core[d].to
                       /\ (core'[d].ok <=> core[d].ok)
                       /\ (core'[d].shutting <=> core[d].shutting)
                       /\ (core'[d].asked <=> core[d].asked)
  <2>1. CASE Register(s)
    BY <2>1, <1>1, <1>3 DEF Register, TypeOK, Process
  <2>2. CASE SetupFails(s)
    BY <2>2, <1>1, <1>3 DEF SetupFails, TypeOK, Process
  <2>3. QED
    BY <2>1, <2>2
<1>8. /\ \A d \in Cores : d # c => /\ core'[d].live = core[d].live
                                   /\ core'[d].hosted = core[d].hosted
      /\ \/ /\ core'[c].live = core[c].live /\ core'[c].hosted = core[c].hosted \cup {s}
            /\ core[c].stage \notin {"exported", "late"}
         \/ core'[c].live = core[c].live \ {s} /\ core'[c].hosted = core[c].hosted
  BY <1>1, <1>3 DEF Register, SetupFails, TypeOK, Process
<1>9. CoresFit'
  BY <1>1, <1>2, <1>7, SameCores
<1>10. \A q \in Sessions : q # s => (Anywhere(q)' <=> Anywhere(q))
  BY <1>8 DEF Anywhere
<1>11. LiveFits'
  <2>1. /\ \A d \in Cores : d # c => Entering(d)' = Entering(d) /\ Underway(d)' = Underway(d)
        /\ Entering(c)' = Entering(c) \ {s} /\ Underway(c)' = Underway(c) \ {s}
        /\ s \in Entering(c) /\ s \in Underway(c)
    BY <1>2, <1>3, <1>5 DEF Entering, Underway
  <2>2. s \notin core[c].hosted
    BY <1>4 DEF Anywhere
  <2>3. ASSUME NEW d \in Cores, d # c
        PROVE  Accounts(d)'
    BY <1>1, <1>2, <1>7, <1>8, <2>1, <2>3 DEF LiveFits, Accounts
  <2>4. core'[c].pc \notin Outside \cup {"adopting", "published"}
    BY <1>4, <1>7 DEF Outside
  <2>5. /\ core'[c].pc = "closing" => core'[c].shutting
        /\ core'[c].shutting => core'[c].live = {}
    BY <1>1, <1>7, <1>8 DEF LiveFits, Accounts
  <2>6. /\ core'[c].live = core'[c].hosted \cup Entering(c)'
        /\ core'[c].stage \in {"exported", "late", "moved"} => Underway(c)' \subseteq straddled'
        /\ core'[c].stage = "moved" => core'[c].hosted \subseteq straddled'
    <3>1. Accounts(c)
      BY <1>1 DEF LiveFits
    <3>2. core'[c].live = core'[c].hosted \cup Entering(c)'
      BY <1>8, <2>1, <2>2, <3>1 DEF Accounts
    <3>3. QED
      BY <1>2, <1>7, <1>8, <2>1, <3>1, <3>2 DEF Accounts
  <2>7. QED
    BY <2>3, <2>4, <2>5, <2>6 DEF LiveFits, Accounts
<1>12. LaunchFits'
  <2>1. \A q \in Sessions : request[q].pc # "none" => request[q].core \in Cores
    BY <1>1 DEF LaunchFits, TypeOK
  <2>2. \A q \in Sessions : q # s /\ request[q].pc # "none" =>
           core'[request[q].core].pc \in {"serving", "handed", "draining", "closing"}
    BY <1>1, <1>7, <2>1 DEF LaunchFits, Working
  <2>3. s \in solo' => client'[s] = "done"
    BY <1>1, <1>2, <1>6 DEF LaunchFits
  <2>4. QED
    BY <1>1, <1>2, <1>5, <1>6, <1>10, <2>2, <2>3 DEF LaunchFits, Working
<1>13. OneToken'
  BY <1>1, <1>2, <1>4, <1>5, <1>6, <1>10 DEF OneToken, Working
<1>14. OneHost'
  <2>1. \A d \in Cores : s \notin core[d].hosted
    BY <1>4 DEF Anywhere
  <2>2. QED
    BY <1>1, <1>2, <1>7, <1>8, <2>1 DEF OneHost, HandsTo
<1>15. Backed'
  <2>1. core[c].pc \notin {"adopting", "published"}
    BY <1>4
  <2>2. QED
    BY <1>1, <1>2, <1>7, <1>8, <2>1, SameBacked DEF HandsTo
<1>16. NoneTaken'
  BY <1>2 DEF IInv, NoneTaken
<1>17. QED
  BY <1>9, <1>11, <1>12, <1>13, <1>14, <1>15, <1>16 DEF IInv, SessionsFit

-----------------------------------------------------------------------------
(* A core goes on.                                                          *)

\* The launches stay: what is left to show is that the cores fit, account for
\* the right sessions, and share none.
LEMMA CoreStep ==
    ASSUME IInv, TypeOK', CoresFit', LiveFits', OneHost', Backed',
           UNCHANGED <<request, client, files, solo, twice, lost, dropped>>,
           straddled \subseteq straddled', widowed' = widowed, split => split',
           \A s \in Sessions : Anywhere(s)' => Anywhere(s),
           \A c \in Cores : core'[c].pc = core[c].pc
                  \/ core[c].pc \notin {"serving", "handed", "draining", "closing"}
                  \/ core'[c].pc \in {"serving", "handed", "draining", "closing"}
    PROVE  IInv'
<1>1. TypeOK /\ LaunchFits /\ OneToken /\ NoneTaken
  BY DEF IInv, SessionsFit
<1>2. LaunchFits'
  <2>1. \A s \in Sessions : request[s].pc # "none" => request[s].core \in Cores
    BY <1>1 DEF LaunchFits, TypeOK
  <2>2. QED
    BY <1>1, <2>1 DEF LaunchFits, Working
<1>3. OneToken'
  BY <1>1 DEF OneToken, Working
<1>4. NoneTaken'
  BY <1>1 DEF NoneTaken
<1>5. QED
  BY <1>2, <1>3, <1>4 DEF IInv, SessionsFit

\* A core without a handoff, as seen from the others.
LEMMA Alone ==
    ASSUME TypeOK, CoresFit, NEW c \in Cores
    PROVE  /\ core[c].pc \notin {"serving", "closing", "handed", "draining"} =>
                 core[c].stage = "none" /\ core[c].to = Nobody /\ ~core[c].ok
           /\ core[c].pc = "serving" => core[c].stage # "moved"
           /\ core[c].pc \in {"start", "connect"} => \A d \in Cores : core[d].to # c
           /\ core[c].pc \in {"serving", "closing"} /\ ~split =>
                 \A d \in Cores : core[d].to = c => core[d].stage = "exported" /\ core[d].ok
<1>1. core[c].stage \in {"none", "wait", "exported", "late", "moved"}
  BY DEF TypeOK, Process
<1>2. core[c].pc \notin {"serving", "closing", "handed", "draining"} =>
         core[c].stage = "none" /\ core[c].to = Nobody /\ ~core[c].ok
  BY <1>1 DEF CoresFit, StagesFit, StageFits
<1>3. \A d \in Cores : core[d].stage \in {"none", "wait", "exported", "late", "moved"}
  BY DEF TypeOK, Process
<1>4. \A d \in Cores : core[d].to = c => core[d].stage \in {"wait", "exported", "late"}
  BY <1>3, CoresAssumption DEF CoresFit, StagesFit, StageFits
<1>5. core[c].pc \in {"start", "connect"} => \A d \in Cores : core[d].to # c
  BY <1>4 DEF CoresFit, StagesFit, StageFits
<1>6. core[c].pc \in {"serving", "closing"} /\ ~split =>
         \A d \in Cores : core[d].to = c => core[d].stage = "exported" /\ core[d].ok
  BY <1>4 DEF CoresFit, StagesFit, StageFits
<1>7. QED
  BY <1>2, <1>5, <1>6 DEF CoresFit, StagesFit, StageFits

\* One core enters its next phase; everything else about the cores stays.
LEMMA PhaseChange ==
    ASSUME TypeOK, NEW c \in Cores, NEW p \in CorePc, core' = [core EXCEPT ![c].pc = p]
    PROVE  /\ core' \in [Cores -> Process]
           /\ core'[c].pc = p /\ \A d \in Cores : d # c => core'[d].pc = core[d].pc
           /\ \A d \in Cores :
                 /\ core'[d].stage = core[d].stage /\ core'[d].to = core[d].to
                 /\ core'[d].live = core[d].live /\ core'[d].hosted = core[d].hosted
                 /\ (core'[d].ok <=> core[d].ok)
                 /\ (core'[d].shutting <=> core[d].shutting)
                 /\ (core'[d].asked <=> core[d].asked)
           /\ \A s \in Sessions : Anywhere(s)' = Anywhere(s)
<1>1. core' \in [Cores -> Process]
  BY CoreTyped DEF TypeOK
<1>2. /\ core'[c].pc = p /\ \A d \in Cores : d # c => core'[d].pc = core[d].pc
  BY DEF TypeOK, Process
<1>3. \A d \in Cores :
         /\ core'[d].stage = core[d].stage /\ core'[d].to = core[d].to
         /\ core'[d].live = core[d].live /\ core'[d].hosted = core[d].hosted
         /\ (core'[d].ok <=> core[d].ok)
         /\ (core'[d].shutting <=> core[d].shutting)
         /\ (core'[d].asked <=> core[d].asked)
  BY DEF TypeOK, Process
<1>4. QED
  BY <1>1, <1>2, <1>3 DEF Anywhere

LEMMA BootInv == ASSUME IInv, NEW c \in Cores, Boot(c), UNCHANGED worker PROVE IInv'
<1> USE DEF home, launches, history
<1>1. TypeOK /\ CoresFit /\ LiveFits /\ OneHost /\ Backed /\ NoneTaken
  BY DEF IInv, SessionsFit
<1>2. core[c].pc = "start" /\ UNCHANGED <<disk, record, client, files, solo, history, faults>>
  BY DEF Boot
<1>3. CASE locks = {}
  <2>1. /\ core' = [core EXCEPT ![c].pc = "bound"]
        /\ locks' = {c} /\ socket' = {c} /\ UNCHANGED request
    BY <1>3 DEF Boot
  <2>2. "bound" \in CorePc
    BY DEF CorePc
  <2>3. TypeOK'
    BY <1>1, <1>2, <2>1, <2>2, PhaseChange DEF TypeOK
  <2>4. /\ core'[c].pc = "bound" /\ \A d \in Cores : d # c => core'[d].pc = core[d].pc
        /\ \A d \in Cores :
              /\ core'[d].stage = core[d].stage /\ core'[d].to = core[d].to
              /\ core'[d].live = core[d].live /\ core'[d].hosted = core[d].hosted
              /\ (core'[d].ok <=> core[d].ok)
              /\ (core'[d].shutting <=> core[d].shutting)
              /\ (core'[d].asked <=> core[d].asked)
        /\ \A s \in Sessions : Anywhere(s)' = Anywhere(s)
    BY <1>1, <2>1, <2>2, PhaseChange
  <2>5. core[c].stage = "none" /\ \A d \in Cores : core[d].to # c
    BY <1>1, <1>2, Alone
  <2>6. \A d \in Cores : core[d].pc \in {"off", "start", "connect", "linked"}
    BY <1>1, <1>3 DEF CoresFit, Locked
  <2>7. CoresFit'
    <3>1. StagesFit'
      BY <1>1, <1>2, <2>4, <2>5 DEF CoresFit, StagesFit, StageFits
    <3>2. OneHeir' /\ Locked'
      BY <1>1, <2>1, <2>4, <2>6 DEF CoresFit, OneHeir, Locked
    <3>3. OneHolder'
      BY <2>4, <2>6 DEF OneHolder, Holds
    <3>4. QED
      BY <3>1, <3>2, <3>3 DEF CoresFit
  <2>8. LiveFits'
    <3>1. \A d \in Cores : Entering(d)' = Entering(d) /\ Underway(d)' = Underway(d)
      BY <2>1 DEF Entering, Underway
    <3>2. QED
      BY <1>1, <1>2, <2>4, <3>1 DEF LiveFits, Accounts, Outside
  <2>9. OneHost'
    BY <1>1, <1>2, <2>4, SameHosts
  <2>10. Backed'
    BY <1>1, <1>2, <2>4, SameBacked DEF HandsTo
  <2>11. QED
    BY <1>2, <2>1, <2>3, <2>4, <2>7, <2>8, <2>9, <2>10, CoreStep
<1>4. CASE locks # {}
  <2>1. Ended(c) /\ UNCHANGED socket
    BY <1>4 DEF Boot
  <2>2. TypeOK'
    BY <1>1, <1>2, <2>1, EndedTyped DEF TypeOK
  <2>3. core[c].stage = "none"
    BY <1>1, <1>2, Alone
  <2>4. QED
    BY <1>1, <1>2, <2>1, <2>2, <2>3, EndedInv DEF NoneTaken
<1>5. QED
  BY <1>3, <1>4

\* The steps of a core that are a change of phase and no more.
LEMMA PhaseInv ==
    ASSUME IInv, NEW c \in Cores, UNCHANGED worker,
           WriteRecord(c) \/ Close(c) \/ Leave(c) \/ Publish(c)
    PROVE  IInv'
<1> USE DEF home, launches, history
<1>1. TypeOK /\ CoresFit /\ LiveFits /\ OneHost /\ Backed
  BY DEF IInv, SessionsFit
<1>2. PICK p \in CorePc :
         /\ core' = [core EXCEPT ![c].pc = p]
         /\ \/ core[c].pc = "bound" /\ p = "serving"
            \/ core[c].pc = "serving" /\ core[c].shutting /\ p = "closing"
            \/ core[c].pc = "handed" /\ p = "draining"
            \/ core[c].pc = "adopting" /\ p = "published"
  BY DEF WriteRecord, Close, Leave, Publish, CorePc
<1>3. /\ UNCHANGED <<disk, locks, launches, history, faults>>
      /\ record' \in Cores \cup {Nobody} /\ socket' \subseteq Cores
  BY <1>1 DEF WriteRecord, Close, Leave, Publish, TypeOK
<1>4. /\ core' \in [Cores -> Process] /\ core'[c].pc = p
      /\ \A d \in Cores : d # c => core'[d].pc = core[d].pc
      /\ \A d \in Cores :
            /\ core'[d].stage = core[d].stage /\ core'[d].to = core[d].to
            /\ core'[d].live = core[d].live /\ core'[d].hosted = core[d].hosted
            /\ (core'[d].ok <=> core[d].ok)
            /\ (core'[d].shutting <=> core[d].shutting)
            /\ (core'[d].asked <=> core[d].asked)
      /\ \A s \in Sessions : Anywhere(s)' = Anywhere(s)
  BY <1>1, <1>2, PhaseChange
<1>5. TypeOK'
  BY <1>1, <1>3, <1>4 DEF TypeOK
<1>6. CoresFit'
  <2>1. StagesFit'
    BY <1>1, <1>2, <1>3, <1>4, Alone DEF CoresFit, StagesFit, StageFits
  <2>2. OneHeir' /\ Locked'
    BY <1>1, <1>2, <1>3, <1>4 DEF CoresFit, OneHeir, Locked
  <2>3. OneHolder'
    BY <1>1, <1>2, <1>3, <1>4, Alone DEF CoresFit, OneHolder, Holds, HandsTo, StagesFit, StageFits
  <2>4. QED
    BY <2>1, <2>2, <2>3 DEF CoresFit
<1>7. LiveFits'
  <2>1. \A d \in Cores : Entering(d)' = Entering(d) /\ Underway(d)' = Underway(d)
    BY <1>3 DEF Entering, Underway
  <2>2. QED
    BY <1>1, <1>2, <1>3, <1>4, <2>1 DEF LiveFits, Accounts, Outside
<1>8. OneHost'
  BY <1>1, <1>3, <1>4, SameHosts
<1>9. Backed'
  BY <1>1, <1>2, <1>3, <1>4, SameBacked DEF HandsTo
<1>10. QED
  BY <1>2, <1>3, <1>4, <1>5, <1>6, <1>7, <1>8, <1>9, CoreStep

\* The steps of a core that keep its phase: a shutdown request, the decision on
\* it, the end of a session.
LEMMA SamePhase ==
    ASSUME IInv, TypeOK', NEW c \in Cores, locks' = locks,
           UNCHANGED <<request, client, files, solo, history>>,
           \A d \in Cores : /\ core'[d].pc = core[d].pc /\ core'[d].stage = core[d].stage
                            /\ core'[d].to = core[d].to
                            /\ (core'[d].ok <=> core[d].ok),
           \A d \in Cores : d # c => core'[d] = core[d],
           core'[c].live \subseteq core[c].live,
           core'[c].hosted \subseteq core[c].hosted,
           core'[c].live = core'[c].hosted \cup Entering(c),
           core'[c].hosted = core[c].hosted \/ core[c].stage # "exported",
           core[c].shutting => core'[c].shutting,
           core'[c].shutting => core'[c].live = {},
           core'[c].shutting \/ core'[c].asked =>
               core[c].pc \notin Outside \cup {"adopting", "published"}
    PROVE  IInv'
<1>1. TypeOK /\ CoresFit /\ LiveFits /\ OneHost /\ Backed
  BY DEF IInv, SessionsFit
<1>2. CoresFit'
  BY <1>1, SameCores DEF history
<1>3. \A d \in Cores : core'[d].hosted \subseteq core[d].hosted
  OBVIOUS
<1>4. LiveFits'
  <2>1. \A d \in Cores : Entering(d)' = Entering(d) /\ Underway(d)' = Underway(d)
    BY DEF Entering, Underway
  <2>2. straddled' = straddled
    BY DEF history
  <2>3. QED
    BY <1>1, <2>1, <2>2 DEF LiveFits, Accounts
<1>5. OneHost'
  BY <1>1, <1>3, SameHosts DEF history
<1>6. \A s \in Sessions : Anywhere(s)' => Anywhere(s)
  BY <1>3 DEF Anywhere
<1>7. Backed'
  BY <1>1, <1>3, SameBacked DEF HandsTo, history
<1>8. QED
  BY <1>2, <1>4, <1>5, <1>6, <1>7, CoreStep DEF history

LEMMA AskShutdownInv ==
    ASSUME IInv, NEW c \in Accepting, AskShutdown(c),
           UNCHANGED <<home, launches, history>>,
           worker' \in Supervisor, faults' \in 0..MaxFaults
    PROVE  IInv'
<1> USE DEF home, launches
<1>1. TypeOK /\ CoresFit /\ LiveFits /\ c \in Cores /\ core[c].pc \in {"serving", "handed"}
  BY DEF IInv, SessionsFit, Accepting, TypeOK
<1>2. core' = [core EXCEPT ![c].asked = (core[c].stage = "none")]
  BY DEF AskShutdown
<1>3. core' \in [Cores -> Process]
  BY <1>1, <1>2, CoreTyped DEF TypeOK
<1>4. TypeOK'
  BY <1>1, <1>3 DEF TypeOK, history
<1>5. /\ \A d \in Cores : d # c => core'[d] = core[d]
      /\ \A d \in Cores : /\ core'[d].pc = core[d].pc /\ core'[d].stage = core[d].stage
                           /\ core'[d].to = core[d].to
                           /\ (core'[d].ok <=> core[d].ok)
      /\ core'[c].live = core[c].live /\ core'[c].hosted = core[c].hosted
      /\ (core'[c].shutting <=> core[c].shutting)
  BY <1>1, <1>2 DEF TypeOK, Process
<1>6. /\ core[c].shutting => core[c].live = {}
      /\ core[c].live = core[c].hosted \cup Entering(c)
  BY <1>1 DEF LiveFits, Accounts
<1>7. QED
  BY <1>1, <1>4, <1>5, <1>6, SamePhase DEF Outside

LEMMA DecideShutdownInv ==
    ASSUME IInv, NEW c \in Cores, DecideShutdown(c), UNCHANGED worker
    PROVE  IInv'
<1> USE DEF home, launches
<1>1. TypeOK /\ CoresFit /\ LiveFits
  BY DEF IInv, SessionsFit
<1>2. PICK b \in BOOLEAN : b <=> core[c].shutting \/ core[c].live = {}
  OBVIOUS
<1>3. core[c].asked /\ UNCHANGED <<home, launches, history, faults>>
      /\ core' = [core EXCEPT ![c].asked = FALSE, ![c].shutting = b]
  <2>1. (core[c].shutting \/ core[c].live = {}) = b
    BY <1>2
  <2>2. QED
    BY <2>1, <1>1 DEF DecideShutdown
<1>4. core' \in [Cores -> Process]
  <2>1. PICK f : f = [core EXCEPT ![c].asked = FALSE]
    OBVIOUS
  <2>2. f \in [Cores -> Process]
    BY <1>1, <2>1, CoreTyped DEF TypeOK
  <2>3. [f EXCEPT ![c].shutting = b] \in [Cores -> Process]
    BY <2>2, ShuttingTyped
  <2>4. core' = [f EXCEPT ![c].shutting = b]
    BY <1>1, <1>3, <2>1 DEF TypeOK, Process
  <2>5. QED
    BY <2>3, <2>4
<1>5. TypeOK'
  BY <1>1, <1>3, <1>4 DEF TypeOK, history
<1>6. /\ \A d \in Cores : d # c => core'[d] = core[d]
      /\ \A d \in Cores : /\ core'[d].pc = core[d].pc /\ core'[d].stage = core[d].stage
                           /\ core'[d].to = core[d].to
                           /\ (core'[d].ok <=> core[d].ok)
      /\ core'[c].live = core[c].live /\ core'[c].hosted = core[c].hosted
      /\ (core'[c].shutting <=> core[c].shutting \/ core[c].live = {})
  BY <1>1, <1>2, <1>3 DEF TypeOK, Process
<1>7. /\ core[c].shutting => core[c].live = {}
      /\ core[c].live = core[c].hosted \cup Entering(c)
      /\ core[c].pc \notin Outside \cup {"adopting", "published"}
  BY <1>1, <1>3 DEF LiveFits, Accounts
<1>8. QED
  BY <1>3, <1>5, <1>6, <1>7, SamePhase

LEMMA SessionEndsInv ==
    ASSUME IInv, NEW c \in Cores, NEW s \in Sessions, SessionEnds(c, s), UNCHANGED worker
    PROVE  IInv'
<1> USE DEF home, launches
<1>1. TypeOK /\ CoresFit /\ LiveFits /\ LaunchFits
  BY DEF IInv, SessionsFit
<1>2. /\ s \in core[c].hosted /\ core[c].stage # "exported" /\ UNCHANGED <<home, launches, history>>
      /\ core' = [core EXCEPT ![c].live = @ \ {s}, ![c].hosted = @ \ {s}]
      /\ faults < MaxFaults /\ faults' = faults + 1
  BY DEF SessionEnds, Fault, Active
<1>3. core' \in [Cores -> Process]
  BY <1>1, <1>2 DEF TypeOK, Process
<1>4. faults' \in 0..MaxFaults
  BY <1>1, <1>2, FaultsAssumption DEF TypeOK
<1>5. TypeOK'
  BY <1>1, <1>2, <1>3, <1>4 DEF TypeOK, history
<1>6. /\ \A d \in Cores : d # c => core'[d] = core[d]
      /\ \A d \in Cores : /\ core'[d].pc = core[d].pc /\ core'[d].stage = core[d].stage
                           /\ core'[d].to = core[d].to
                           /\ (core'[d].ok <=> core[d].ok)
      /\ core'[c].live = core[c].live \ {s} /\ core'[c].hosted = core[c].hosted \ {s}
      /\ (core'[c].shutting <=> core[c].shutting)
      /\ (core'[c].asked <=> core[c].asked)
  BY <1>1, <1>2 DEF TypeOK, Process
<1>7. /\ core[c].shutting => core[c].live = {}
      /\ core[c].shutting \/ core[c].asked =>
            core[c].pc \notin Outside \cup {"adopting", "published"}
      /\ core[c].live = core[c].hosted \cup Entering(c)
  BY <1>1 DEF LiveFits, Accounts
<1>8. s \notin Entering(c)
  BY <1>1, <1>2 DEF LaunchFits, Working, Anywhere, Entering
<1>9. core'[c].live = core'[c].hosted \cup Entering(c)
  BY <1>6, <1>7, <1>8
<1>10. /\ core'[c].shutting => core'[c].live = {}
       /\ core'[c].live \subseteq core[c].live /\ core'[c].hosted \subseteq core[c].hosted
  BY <1>6, <1>7
<1>11. QED
  BY <1>2, <1>5, <1>6, <1>7, <1>9, <1>10, SamePhase

\* A new core that gives up before it serves: the old one has what it had, or was
\* killed.
LEMMA GivesUpFacts ==
    ASSUME IInv, NEW t \in Cores, core[t].pc \in {"adopting", "published"},
           GivesUpTakeover(t), widowed' = widowed
    PROVE  dropped' \subseteq Sessions /\ (split \/ dropped' \subseteq widowed')
<1>1. TypeOK /\ CoresFit /\ LiveFits /\ Backed /\ NoneTaken
  BY DEF IInv, SessionsFit
<1>2. dropped' = dropped \cup (core[t].live \ UNION {core[c].live : c \in Cores \ {t}})
  BY DEF GivesUpTakeover
<1>3. core[t].live \subseteq Sessions /\ dropped \subseteq Sessions
  BY <1>1 DEF TypeOK, Process
<1>4. ASSUME ~split, NEW s \in core[t].live, s \notin widowed
      PROVE  s \in UNION {core[c].live : c \in Cores \ {t}}
  <2>1. PICK c \in Cores : Backs(c, t, s)
    BY <1>1, <1>4 DEF Backed
  <2>2. c # t
    BY <1>1, <2>1 DEF Backs, HandsTo, CoresFit, StagesFit, StageFits
  <2>3. s \in core[c].live
    BY <1>1, <2>1 DEF Backs, LiveFits, Accounts
  <2>4. QED
    BY <2>2, <2>3
<1>5. split \/ dropped \subseteq widowed
  BY <1>1 DEF NoneTaken
<1>6. QED
  BY <1>2, <1>3, <1>4, <1>5

\* A core that exits has no session, or one that passed the gate before the
\* handoff; a killed one may have any, which the supervisor cannot help.
LEMMA EndInv ==
    ASSUME IInv, NEW c \in Cores, UNCHANGED worker,
           Exit(c) \/ Kill(c) \/ TakeoverRefused(c) \/ TakeoverFails(c)
    PROVE  IInv'
<1> USE DEF home, launches, history
<1>1. TypeOK /\ CoresFit /\ LiveFits /\ NoneTaken
  BY DEF IInv, SessionsFit
<1>2. /\ Ended(c) /\ UNCHANGED <<disk, record, client, files, solo, straddled, twice, split>>
      /\ socket' \subseteq Cores /\ (lost' = lost \/ Exit(c))
      /\ faults' = faults \/ (faults < MaxFaults /\ faults' = faults + 1)
  BY <1>1 DEF Exit, Kill, TakeoverRefused, TakeoverFails, GivesUpTakeover, Fault, TypeOK
<1>3. lost' \subseteq straddled
  <2>1. ASSUME Exit(c)
        PROVE  core[c].live \subseteq straddled
    <3>1. CASE core[c].pc = "closing"
      BY <1>1, <3>1 DEF LiveFits, Accounts
    <3>2. CASE core[c].pc = "draining"
      <4>1. core[c].stage = "moved" /\ Accounts(c)
        BY <1>1, <3>2 DEF LiveFits, CoresFit, StagesFit, StageFits
      <4>2. Entering(c) \subseteq Underway(c)
        BY DEF Entering, Underway
      <4>3. QED
        BY <4>1, <4>2 DEF Accounts
    <3>3. QED
      BY <2>1, <3>1, <3>2 DEF Exit
  <2>2. Exit(c) => lost' = lost \cup core[c].live
    BY DEF Exit
  <2>3. QED
    BY <1>1, <1>2, <2>1, <2>2 DEF NoneTaken
<1>4. core[c].live \subseteq Sessions /\ core[c].hosted \subseteq core[c].live
  BY <1>1 DEF TypeOK, Process, LiveFits, Accounts
<1>5. /\ widowed \subseteq widowed' /\ widowed' \subseteq Sessions
      /\ core[c].stage = "exported" /\ ~core[c].ok => core[c].hosted \subseteq widowed'
  <2>1. CASE Exit(c)
    <3>1. core[c].stage = "moved" \/ core[c].live = {}
      BY <1>1, <2>1 DEF Exit, LiveFits, Accounts, CoresFit, StagesFit, StageFits
    <3>2. QED
      BY <1>1, <1>4, <2>1, <3>1 DEF Exit, TypeOK
  <2>2. CASE Kill(c)
    BY <1>1, <1>4, <2>2 DEF Kill, TypeOK
  <2>3. CASE TakeoverRefused(c) \/ TakeoverFails(c)
    <3>1. core[c].stage = "none"
      BY <1>1, <2>3, Alone DEF TakeoverRefused, TakeoverFails
    <3>2. QED
      BY <1>1, <2>3, <3>1 DEF TakeoverRefused, TakeoverFails, TypeOK
  <2>4. QED
    BY <2>1, <2>2, <2>3
<1>6. dropped' \subseteq Sessions /\ (split \/ dropped' \subseteq widowed')
  <2>1. CASE TakeoverFails(c)
    BY <1>1, <2>1, GivesUpFacts DEF TakeoverFails
  <2>2. CASE ~TakeoverFails(c)
    <3>1. dropped' = dropped
      BY <2>2 DEF Exit, Kill, TakeoverRefused
    <3>2. QED
      BY <1>1, <1>5, <3>1 DEF NoneTaken, TypeOK
  <2>3. QED
    BY <2>1, <2>2
<1>7. faults' \in 0..MaxFaults
  BY <1>1, <1>2, FaultsAssumption DEF TypeOK
<1>8. lost' \subseteq Sessions
  BY <1>1, <1>3 DEF TypeOK
<1>9. TypeOK'
  BY <1>1, <1>2, <1>5, <1>6, <1>7, <1>8, EndedTyped DEF TypeOK
<1>10. QED
  BY <1>2, <1>3, <1>5, <1>6, <1>9, EndedInv

-----------------------------------------------------------------------------
(* The handoff.                                                             *)

\* The new core has reached the old one, which is the only core with sessions.
LEMMA BeginHandoffInv ==
    ASSUME IInv, NEW c \in Cores, NEW t \in Cores, BeginHandoff(c, t), UNCHANGED worker
    PROVE  IInv'
<1> USE DEF home, launches, history
<1>1. TypeOK /\ CoresFit /\ LiveFits /\ OneHost /\ Backed
  BY DEF IInv, SessionsFit
<1>2. /\ core[t].pc = "connect" /\ core[c].pc \in {"serving", "handed"}
      /\ core[c].stage = "none" /\ ~core[c].shutting
      /\ core' = [core EXCEPT ![c].stage = "wait", ![c].to = t, ![t].pc = "linked"]
      /\ UNCHANGED <<home, launches, history, faults>>
  BY DEF BeginHandoff, Accepting, Open
<1>3. c # t /\ core[c].pc = "serving" /\ \A d \in Cores : core[d].to # t
  BY <1>1, <1>2, Alone DEF CoresFit, StagesFit, StageFits
<1>4. core[t].stage = "none" /\ core[t].to = Nobody /\ ~core[t].ok /\ ~core[c].ok
  BY <1>1, <1>2, Alone DEF CoresFit, StagesFit, StageFits
<1>5. core' \in [Cores -> Process]
  BY <1>1, <1>2, <1>3 DEF TypeOK, Process, CorePc
<1>6. TypeOK'
  BY <1>1, <1>2, <1>5 DEF TypeOK
<1>7. /\ core'[c].stage = "wait" /\ core'[c].to = t /\ core'[c].pc = "serving"
      /\ core'[t].pc = "linked" /\ core'[t].stage = "none" /\ core'[t].to = Nobody
      /\ \A d \in Cores \ {c, t} : core'[d] = core[d]
      /\ \A d \in Cores : /\ core'[d].live = core[d].live /\ core'[d].hosted = core[d].hosted
                          /\ (core'[d].ok <=> core[d].ok)
                          /\ (core'[d].shutting <=> core[d].shutting)
                          /\ (core'[d].asked <=> core[d].asked)
  BY <1>1, <1>2, <1>3, <1>4 DEF TypeOK, Process
<1>8. CoresFit'
  <2>1. StagesFit'
    <3> SUFFICES ASSUME NEW d \in Cores
                 PROVE  StageFits(d)'
      BY DEF StagesFit
    <3>1. CASE d = c
      BY <1>3, <1>4, <1>7, <3>1 DEF StageFits
    <3>2. CASE d = t
      BY <1>3, <1>4, <1>7, <3>2 DEF StageFits
    <3>3. CASE d \notin {c, t}
      <4>1. \A e \in Cores : core'[e].pc = core[e].pc \/ e = t
        BY <1>2, <1>3, <1>7
      <4>2. core'[d] = core[d] /\ core[d].to # t
        BY <1>3, <1>7, <3>3
      <4>3. core[d].to \in Cores => core'[core[d].to].pc = core[core[d].to].pc
        BY <4>1, <4>2
      <4>4. QED
        BY <1>1, <1>2, <4>2, <4>3 DEF CoresFit, StagesFit, StageFits
    <3>4. QED
      BY <3>1, <3>2, <3>3
  <2>2. OneHeir'
    BY <1>1, <1>3, <1>7, CoresAssumption DEF CoresFit, OneHeir
  <2>3. Locked'
    BY <1>1, <1>2, <1>3, <1>7 DEF CoresFit, Locked
  <2>4. OneHolder'
    <3>1. \A d \in Cores : d \notin {c, t} => core'[d] = core[d]
      BY <1>7
    <3>2. \A d \in Cores : Holds(d)' <=> Holds(d)
      BY <1>2, <1>3, <1>7, <3>1 DEF Holds
    <3>3. \A d, e \in Cores : HandsTo(d, e)' <=> HandsTo(d, e)
      BY <1>2, <1>3, <1>4, <1>7, <3>1 DEF HandsTo
    <3>4. \A d \in Cores : core'[d].pc \in {"adopting", "published"}
                               <=> core[d].pc \in {"adopting", "published"}
      BY <1>2, <1>3, <1>7, <3>1
    <3>5. QED
      BY <1>1, <1>2, <3>2, <3>3, <3>4 DEF CoresFit, OneHolder
  <2>5. QED
    BY <2>1, <2>2, <2>3, <2>4 DEF CoresFit
<1>9. LiveFits'
  <2>1. \A d \in Cores : Entering(d)' = Entering(d) /\ Underway(d)' = Underway(d)
    BY <1>2 DEF Entering, Underway
  <2>2. \A d \in Cores : d \notin {c, t} => core'[d] = core[d]
    BY <1>7
  <2>3. \A d \in Cores : /\ core'[d].pc \in Outside <=> core[d].pc \in Outside
                         /\ core'[d].pc \in Outside \cup {"adopting", "published"}
                               <=> core[d].pc \in Outside \cup {"adopting", "published"}
                         /\ core'[d].pc = "closing" <=> core[d].pc = "closing"
                         /\ core'[d].stage \in {"exported", "late"}
                               <=> core[d].stage \in {"exported", "late"}
                         /\ core'[d].stage = "moved" <=> core[d].stage = "moved"
    BY <1>2, <1>3, <1>4, <1>7, <2>2 DEF Outside
  <2>4. straddled' = straddled
    BY <1>2
  <2>5. QED
    BY <1>1, <1>7, <2>1, <2>3, <2>4 DEF LiveFits, Accounts
<1>10. OneHost'
  <2>1. \A d \in Cores : d \notin {c, t} => core'[d] = core[d]
    BY <1>7
  <2>2. \A d, e \in Cores : HandsTo(d, e)' <=> HandsTo(d, e)
    BY <1>2, <1>3, <1>4, <1>7, <2>1 DEF HandsTo
  <2>3. \A d \in Cores : core'[d].stage = "exported" <=> core[d].stage = "exported"
    BY <1>2, <1>3, <1>4, <1>7, <2>1
  <2>4. QED
    BY <1>1, <1>2, <1>7, <2>2, <2>3 DEF OneHost
<1>11. \A s \in Sessions : Anywhere(s)' => Anywhere(s)
  BY <1>7 DEF Anywhere
<1>12. Backed'
  <2>1. \A d \in Cores : d \notin {c, t} => core'[d] = core[d]
    BY <1>7
  <2>2. \A d, e \in Cores : HandsTo(d, e)' <=> HandsTo(d, e)
    BY <1>2, <1>3, <1>4, <1>7, <2>1 DEF HandsTo
  <2>3. QED
    BY <1>1, <1>2, <1>3, <1>7, <2>1, <2>2, SameBacked
<1>13. QED
  BY <1>2, <1>3, <1>6, <1>7, <1>8, <1>9, <1>10, <1>11, <1>12, CoreStep

\* The old core of a handoff, once it has gone on to the stage g.
LEMMA Staged ==
    ASSUME NEW x \in Process, NEW g \in {"none", "wait", "exported", "late", "moved"}, NEW y,
           y = [x EXCEPT !.stage = g]
    PROVE  /\ y \in Process /\ y.stage = g
           /\ y.pc = x.pc /\ y.live = x.live /\ y.hosted = x.hosted /\ y.to = x.to
           /\ (y.ok <=> x.ok) /\ (y.shutting <=> x.shutting) /\ (y.asked <=> x.asked)
  BY DEF Process

\* The old core is the only one that holds the sessions, so that the new one
\* gets them from nobody else.
LEMMA ExportInv ==
    ASSUME IInv, NEW c \in Cores, Export(c), UNCHANGED worker
    PROVE  IInv'
<1> USE DEF home, launches, history
<1>1. TypeOK /\ CoresFit /\ LiveFits /\ OneHost /\ Backed
  BY DEF IInv, SessionsFit
<1>2. PICK t \in Cores : t = core[c].to
  BY <1>1 DEF Export, CoresFit, StagesFit, StageFits
<1>3. /\ core[c].stage = "wait" /\ core[t].pc = "linked" /\ Launching(c) = {}
      /\ locks' = locks \cup {t}
      /\ socket' \in {socket, socket \cup {t}}
      /\ UNCHANGED <<disk, record, launches, lost, widowed, dropped, twice, split, faults>>
      /\ straddled' = straddled \cup Uncounted(c)
  BY <1>2 DEF Export
<1>4. /\ c # t /\ core[c].pc \in {"serving", "closing"} /\ ~core[c].ok
      /\ core[t].stage = "none" /\ core[t].to = Nobody /\ ~core[t].ok
      /\ core[t].hosted = {} /\ core[t].live = {} /\ ~core[t].shutting /\ ~core[t].asked
  <2>1. core[c].pc \in {"serving", "closing"} /\ ~core[c].ok
    BY <1>1, <1>3 DEF CoresFit, StagesFit, StageFits
  <2>2. core[t].stage = "none" /\ core[t].to = Nobody /\ ~core[t].ok
    BY <1>1, <1>3, Alone
  <2>3. core[t].hosted = {} /\ core[t].live = {} /\ ~core[t].shutting /\ ~core[t].asked
    BY <1>1, <1>3 DEF LiveFits, Accounts, Outside
  <2>4. QED
    BY <1>3, <2>1, <2>2, <2>3
<1>0. /\ core'[c] = [core[c] EXCEPT !.stage = "exported"]
      /\ core'[t] = [core[t] EXCEPT !.pc = "adopting", !.live = core[c].hosted,
                                    !.hosted = core[c].hosted]
      /\ \A d \in Cores : d \notin {c, t} => core'[d] = core[d]
      /\ core' = [d \in Cores |-> core'[d]]
  <2>1. core' = [core EXCEPT ![c].stage = "exported", ![t].pc = "adopting",
                             ![t].live = core[c].hosted, ![t].hosted = core[c].hosted]
    BY <1>2 DEF Export
  <2>2. QED
    BY <1>1, <1>4, <2>1 DEF TypeOK
<1>5. /\ core'[c].stage = "exported" /\ core'[c].to = t /\ core'[c].pc = core[c].pc
      /\ core'[c].hosted = core[c].hosted /\ core'[c].live = core[c].live
      /\ core'[t].pc = "adopting" /\ core'[t].stage = "none" /\ core'[t].to = Nobody
      /\ core'[t].hosted = core[c].hosted /\ core'[t].live = core[c].hosted
      /\ \A d \in {c, t} : /\ core'[d] \in Process
                           /\ (core'[d].ok <=> core[d].ok)
                           /\ (core'[d].shutting <=> core[d].shutting)
                           /\ (core'[d].asked <=> core[d].asked)
  <2>1. core[c] \in Process /\ core[t] \in Process
    BY <1>1 DEF TypeOK
  <2>2. core[c].hosted \in SUBSET Sessions
    BY <2>1 DEF Process
  <2>3. /\ core'[t] \in Process /\ core'[t].pc = "adopting"
        /\ core'[t].live = core[c].hosted /\ core'[t].hosted = core[c].hosted
        /\ core'[t].stage = core[t].stage /\ core'[t].to = core[t].to
        /\ (core'[t].ok <=> core[t].ok) /\ (core'[t].shutting <=> core[t].shutting)
        /\ (core'[t].asked <=> core[t].asked)
    <3>1. PICK x \in Process : x = core[t]
      BY <2>1
    <3>2. PICK H \in SUBSET Sessions : H = core[c].hosted
      BY <2>2
    <3>3. core'[t] = [x EXCEPT !.pc = "adopting", !.live = H, !.hosted = H]
      BY <1>0, <3>1, <3>2
    <3>4. PICK y : y = core'[t]
      OBVIOUS
    <3>5. y = [x EXCEPT !.pc = "adopting", !.live = H, !.hosted = H]
      BY <3>3, <3>4
    <3>6. y \in Process
      BY <3>5 DEF Process, CorePc
    <3>7. /\ y.pc = "adopting" /\ y.live = H /\ y.hosted = H
          /\ y.stage = x.stage /\ y.to = x.to
          /\ y.ok = x.ok /\ y.shutting = x.shutting /\ y.asked = x.asked
      BY <3>5 DEF Process
    <3>8. QED
      BY <3>1, <3>2, <3>4, <3>6, <3>7
  <2>4. /\ core'[c] \in Process /\ core'[c].stage = "exported" /\ core'[c].pc = core[c].pc
        /\ core'[c].live = core[c].live /\ core'[c].hosted = core[c].hosted
        /\ core'[c].to = core[c].to
        /\ (core'[c].ok <=> core[c].ok) /\ (core'[c].shutting <=> core[c].shutting)
        /\ (core'[c].asked <=> core[c].asked)
    BY <1>0, <2>1, Staged
  <2>5. QED
    BY <1>2, <1>4, <2>3, <2>4
<1>6. TypeOK'
  <2>1. \A d \in Cores : core'[d] \in Process
    BY <1>0, <1>1, <1>5 DEF TypeOK
  <2>2. core' \in [Cores -> Process]
    BY <1>0, <2>1
  <2>3. straddled' \subseteq Sessions
    BY <1>1, <1>3 DEF TypeOK, Uncounted
  <2>4. QED
    BY <1>1, <1>3, <2>2, <2>3 DEF TypeOK
<1>7. /\ core'[c].stage = "exported" /\ core'[c].to = t /\ core'[c].pc = core[c].pc
      /\ core'[c].hosted = core[c].hosted /\ core'[c].live = core[c].live
      /\ core'[t].pc = "adopting" /\ core'[t].stage = "none" /\ core'[t].to = Nobody
      /\ core'[t].hosted = core[c].hosted /\ core'[t].live = core[c].hosted
      /\ \A d \in Cores \ {c, t} : core'[d] = core[d]
      /\ \A d \in Cores : /\ (core'[d].ok <=> core[d].ok)
                          /\ (core'[d].shutting <=> core[d].shutting)
                          /\ (core'[d].asked <=> core[d].asked)
  <2>1. \A d \in Cores : d \notin {c, t} => core'[d] = core[d]
    BY <1>0
  <2>2. QED
    BY <1>5, <2>1
<1>8. \A d \in Cores : core[d].to = t => d = c
  BY <1>1, <1>2, CoresAssumption DEF CoresFit, OneHeir
<1>9. split \/ \A d \in Cores : Holds(d) => d = c
  <2> SUFFICES ASSUME ~split, NEW d \in Cores, Holds(d), d # c
               PROVE  FALSE
    OBVIOUS
  <2>1. Holds(c)
    BY <1>3, <1>4 DEF Holds
  <2>2. HandsTo(c, d) \/ (HandsTo(d, c) /\ core[c].pc \in {"adopting", "published"})
    BY <1>1, <2>1 DEF CoresFit, OneHolder
  <2>3. QED
    BY <1>3, <1>4, <2>2 DEF HandsTo
<1>10. CoresFit'
  <2>1. StagesFit'
    <3>1. \A d \in Cores : d \notin {c, t} => core'[d] = core[d] /\ core[d].to # t
      BY <1>7, <1>8
    <3>2. \A d \in Cores : core'[d].pc = core[d].pc \/ d = t
      BY <1>7
    <3>3. \A d \in Cores : d \notin {c, t} /\ core[d].to \in Cores =>
             core'[core[d].to].pc = core[core[d].to].pc
      BY <3>1, <3>2
    <3> SUFFICES ASSUME NEW d \in Cores
                 PROVE  StageFits(d)'
      BY DEF StagesFit
    <3>4. CASE d = c
      BY <1>3, <1>4, <1>7, <3>4 DEF StageFits
    <3>5. CASE d = t
      BY <1>3, <1>4, <1>7, <3>5 DEF StageFits
    <3>6. CASE d \notin {c, t}
      BY <1>1, <1>3, <3>1, <3>3, <3>6 DEF CoresFit, StagesFit, StageFits
    <3>7. QED
      BY <3>4, <3>5, <3>6
  <2>2. OneHeir'
    BY <1>1, <1>2, <1>7, <1>8 DEF CoresFit, OneHeir
  <2>3. Locked'
    BY <1>1, <1>3, <1>7 DEF CoresFit, Locked
  <2>4. OneHolder'
    <3>1. \A d \in Cores : d \notin {c, t} => (Holds(d)' <=> Holds(d))
      BY <1>7 DEF Holds
    <3>2. HandsTo(c, t)' /\ core'[t].pc = "adopting"
      BY <1>7 DEF HandsTo
    <3>3. split \/ \A d \in Cores : Holds(d)' => d \in {c, t}
      BY <1>9, <3>1
    <3>4. QED
      BY <1>3, <3>2, <3>3 DEF OneHolder
  <2>5. QED
    BY <2>1, <2>2, <2>3, <2>4 DEF CoresFit
<1>11. LiveFits'
  <2>1. \A d \in Cores : Entering(d)' = Entering(d) /\ Underway(d)' = Underway(d)
    BY <1>3 DEF Entering, Underway
  <2>2. Underway(c) \subseteq straddled' /\ Entering(t) = {}
    <3>1. Underway(c) \subseteq Uncounted(c) \cup Launching(c)
      BY DEF Underway, Uncounted, Launching, Working
    <3>2. Accounts(t)
      BY <1>1 DEF LiveFits
    <3>3. QED
      BY <1>3, <1>4, <3>1, <3>2 DEF Accounts
  <2>3. \A d \in Cores : d \notin {c, t} => core'[d] = core[d]
    BY <1>7
  <2> SUFFICES ASSUME NEW d \in Cores
               PROVE  Accounts(d)'
    BY DEF LiveFits
  <2>4. CASE d = c
    BY <1>1, <1>4, <1>7, <2>1, <2>2, <2>4 DEF LiveFits, Accounts, Outside
  <2>5. CASE d = t
    BY <1>4, <1>7, <2>1, <2>2, <2>5 DEF Outside, Accounts
  <2>6. CASE d \notin {c, t}
    BY <1>1, <1>3, <2>1, <2>3, <2>6 DEF LiveFits, Accounts
  <2>7. QED
    BY <2>4, <2>5, <2>6
<1>12. OneHost'
  <2> SUFFICES ASSUME ~split, NEW d \in Cores, NEW e \in Cores, NEW s \in Sessions,
                      d # e, s \in core'[d].hosted, s \in core'[e].hosted
               PROVE  \/ core'[d].stage = "exported" /\ core'[d].ok
                      \/ core'[e].stage = "exported" /\ core'[e].ok
                      \/ HandsTo(d, e)' \/ HandsTo(e, d)'
    BY <1>3 DEF OneHost
  <2>1. \A f \in Cores : f \notin {c, t} => core'[f] = core[f]
    BY <1>7
  <2>2. \A f \in Cores : f \notin {c, t} /\ s \in core[f].hosted /\ s \in core[c].hosted
           => core[f].stage = "exported" /\ core[f].ok
    <3> SUFFICES ASSUME NEW f \in Cores, f \notin {c, t},
                        s \in core[f].hosted, s \in core[c].hosted
                 PROVE  core[f].stage = "exported" /\ core[f].ok
      OBVIOUS
    <3>1. HandsTo(f, c) \/ HandsTo(c, f) \/ (core[f].stage = "exported" /\ core[f].ok)
             \/ (core[c].stage = "exported" /\ core[c].ok)
      BY <1>1 DEF OneHost
    <3>2. HandsTo(f, c) \/ (core[f].stage = "exported" /\ core[f].ok)
      BY <1>3, <3>1 DEF HandsTo
    <3>3. HandsTo(f, c) => core[f].stage = "exported" /\ core[f].ok
      BY <1>1, <1>4, Alone DEF HandsTo
    <3>4. QED
      BY <3>2, <3>3
  <2>3. CASE d \in {c, t} /\ e \in {c, t}
    BY <1>7, <2>3 DEF HandsTo
  <2>4. CASE d \in {c, t} /\ e \notin {c, t}
    BY <1>7, <2>1, <2>2, <2>4
  <2>5. CASE d \notin {c, t} /\ e \in {c, t}
    BY <1>7, <2>1, <2>2, <2>5
  <2>6. CASE d \notin {c, t} /\ e \notin {c, t}
    BY <1>1, <2>1, <2>6 DEF OneHost, HandsTo
  <2>7. QED
    BY <2>3, <2>4, <2>5, <2>6
<1>13. \A s \in Sessions : Anywhere(s)' => Anywhere(s)
  BY <1>7 DEF Anywhere
<1>14. Backed'
  <2> SUFFICES ASSUME ~split, NEW u \in Cores, core'[u].pc \in {"adopting", "published"},
                      NEW s \in core'[u].live, s \notin widowed
               PROVE  \E d \in Cores : Backs(d, u, s)'
    BY <1>3 DEF Backed
  <2>1. CASE u = t
    BY <1>4, <1>7, <2>1 DEF Backs, HandsTo
  <2>2. CASE u # t
    <3>1. u # c /\ core'[u] = core[u]
      BY <1>0, <1>4, <1>7, <2>2
    <3>2. PICK d \in Cores : Backs(d, u, s)
      BY <1>1, <3>1 DEF Backed
    <3>3. d \notin {c, t}
      BY <1>3, <1>4, <3>2 DEF Backs, HandsTo
    <3>4. core'[d] = core[d]
      BY <1>0, <3>3
    <3>5. QED
      BY <3>2, <3>4 DEF Backs, HandsTo
  <2>3. QED
    BY <2>1, <2>2
<1>15. QED
  BY <1>3, <1>6, <1>7, <1>10, <1>11, <1>12, <1>13, <1>14, CoreStep

\* A step that changes the core c alone and keeps the others.
LEMMA OneCoreTyped ==
    ASSUME core \in [Cores -> Process], NEW c \in Cores, NEW y \in Process,
           core' = [core EXCEPT ![c] = y]
    PROVE  /\ core' \in [Cores -> Process] /\ core'[c] = y
           /\ \A d \in Cores : d # c => core'[d] = core[d]
  OBVIOUS

\* The new core is gone or is turned away, and the old one goes on.
LEMMA RefuseHandoffInv ==
    ASSUME IInv, NEW c \in Cores, RefuseHandoff(c), UNCHANGED worker
    PROVE  IInv'
<1> USE DEF home, launches, history
<1>1. TypeOK /\ CoresFit /\ LiveFits /\ OneHost /\ Backed
  BY DEF IInv, SessionsFit
<1>2. PICK t \in Cores : t = core[c].to
  BY <1>1 DEF RefuseHandoff, CoresFit, StagesFit, StageFits
<1>3. /\ core[c].stage = "wait" /\ UNCHANGED <<home, launches, history>>
      /\ faults' = faults \/ (faults < MaxFaults /\ faults' = faults + 1)
  BY DEF RefuseHandoff, Fault
<1>4. /\ c # t /\ core[c].pc \in {"serving", "closing"} /\ ~core[c].ok
      /\ core[t].pc \in {"linked", "off"} /\ core[t].stage = "none" /\ core[t].hosted = {}
  <2>1. c # t /\ core[c].pc \in {"serving", "closing"} /\ ~core[c].ok
        /\ core[t].pc \in {"linked", "off"}
    BY <1>1, <1>2, <1>3 DEF CoresFit, StagesFit, StageFits
  <2>2. core[t].stage = "none"
    BY <1>1, <2>1, Alone
  <2>3. core[t].hosted = {}
    BY <1>1, <2>1 DEF LiveFits, Accounts, Outside
  <2>4. QED
    BY <2>1, <2>2, <2>3
<1>5. /\ core'[c] = [core[c] EXCEPT !.stage = "none", !.to = Nobody]
      /\ core'[t] = Gone(t)
      /\ \A d \in Cores : d \notin {c, t} => core'[d] = core[d]
      /\ core' = [d \in Cores |-> core'[d]]
  <2>1. core' = [core EXCEPT ![c].stage = "none", ![c].to = Nobody, ![t] = Gone(t)]
    BY <1>2 DEF RefuseHandoff
  <2>2. QED
    BY <1>1, <1>4, <2>1 DEF TypeOK
<1>6. /\ core'[c] \in Process /\ core'[c].stage = "none" /\ core'[c].to = Nobody
      /\ core'[c].pc = core[c].pc /\ core'[c].live = core[c].live
      /\ core'[c].hosted = core[c].hosted
      /\ (core'[c].ok <=> core[c].ok)
      /\ (core'[c].shutting <=> core[c].shutting)
      /\ (core'[c].asked <=> core[c].asked)
  <2>1. PICK x \in Process : x = core[c]
    BY <1>1 DEF TypeOK
  <2>2. PICK y : y = core'[c]
    OBVIOUS
  <2>3. y = [x EXCEPT !.stage = "none", !.to = Nobody]
    BY <1>5, <2>1, <2>2
  <2>4. y \in Process
    BY <2>3 DEF Process
  <2>5. /\ y.stage = "none" /\ y.to = Nobody /\ y.pc = x.pc /\ y.live = x.live
        /\ y.hosted = x.hosted /\ y.ok = x.ok /\ y.shutting = x.shutting /\ y.asked = x.asked
    BY <2>3 DEF Process
  <2>6. QED
    BY <2>1, <2>2, <2>4, <2>5
<1>7. /\ core'[t] \in Process /\ core'[t].pc = "off" /\ core'[t].live = {}
      /\ core'[t].hosted = {} /\ core'[t].stage = "none" /\ core'[t].to = Nobody
      /\ ~core'[t].ok /\ ~core'[t].shutting /\ ~core'[t].asked
  BY <1>1, <1>5, GoneFacts
<1>8. \A d \in Cores : d \notin {c, t} => core'[d] = core[d]
  BY <1>5
<1>9. TypeOK'
  <2>1. \A d \in Cores : core'[d] \in Process
    BY <1>1, <1>6, <1>7, <1>8 DEF TypeOK
  <2>2. core' \in [Cores -> Process]
    BY <1>5, <2>1
  <2>3. faults' \in 0..MaxFaults
    BY <1>1, <1>3, FaultsAssumption DEF TypeOK
  <2>4. QED
    BY <1>1, <1>3, <2>2, <2>3 DEF TypeOK
<1>10. CoresFit'
  <2>1. \A d \in Cores : d \notin {c, t} => core[d].to # t
    BY <1>1, <1>2, CoresAssumption DEF CoresFit, OneHeir
  <2>2. \A d \in Cores : d \notin {c, t} /\ core[d].to \in Cores =>
           core'[core[d].to].pc = core[core[d].to].pc
    BY <1>6, <1>8, <2>1
  <2>3. StagesFit'
    <3> SUFFICES ASSUME NEW d \in Cores
                 PROVE  StageFits(d)'
      BY DEF StagesFit
    <3>1. CASE d = c
      BY <1>4, <1>6, <3>1 DEF StageFits
    <3>2. CASE d = t
      BY <1>7, <3>2 DEF StageFits
    <3>3. CASE d \notin {c, t}
      BY <1>1, <1>3, <1>8, <2>2, <3>3 DEF CoresFit, StagesFit, StageFits
    <3>4. QED
      BY <3>1, <3>2, <3>3
  <2>4. OneHeir'
    BY <1>1, <1>6, <1>7, <1>8 DEF CoresFit, OneHeir
  <2>5. Locked'
    BY <1>1, <1>3, <1>6, <1>7, <1>8 DEF CoresFit, Locked
  <2>6. OneHolder'
    <3>1. \A d \in Cores : Holds(d)' <=> Holds(d)
      BY <1>3, <1>4, <1>6, <1>7, <1>8 DEF Holds
    <3>2. \A d, e \in Cores : HandsTo(d, e)' <=> HandsTo(d, e)
      BY <1>3, <1>4, <1>6, <1>7, <1>8 DEF HandsTo
    <3>3. \A d \in Cores : core'[d].pc \in {"adopting", "published"}
                               <=> core[d].pc \in {"adopting", "published"}
      BY <1>4, <1>6, <1>7, <1>8
    <3>4. QED
      BY <1>1, <1>3, <3>1, <3>2, <3>3 DEF CoresFit, OneHolder
  <2>7. QED
    BY <2>3, <2>4, <2>5, <2>6 DEF CoresFit
<1>11. LiveFits'
  <2>1. \A d \in Cores : Entering(d)' = Entering(d) /\ Underway(d)' = Underway(d)
    BY <1>3 DEF Entering, Underway
  <2> SUFFICES ASSUME NEW d \in Cores
               PROVE  Accounts(d)'
    BY DEF LiveFits
  <2>2. CASE d = c
    BY <1>1, <1>4, <1>6, <2>1, <2>2 DEF LiveFits, Accounts, Outside
  <2>3. CASE d = t
    <3>1. Accounts(t) /\ core[t].pc \in Outside
      BY <1>1, <1>4 DEF LiveFits, Outside
    <3>2. Entering(t) = {}
      BY <3>1 DEF Accounts
    <3>3. QED
      BY <1>7, <2>1, <2>3, <3>2 DEF Accounts
  <2>4. CASE d \notin {c, t}
    BY <1>1, <1>3, <1>8, <2>1, <2>4 DEF LiveFits, Accounts
  <2>5. QED
    BY <2>2, <2>3, <2>4
<1>12. OneHost'
  <2>1. \A d, e \in Cores : HandsTo(d, e)' <=> HandsTo(d, e)
    BY <1>3, <1>4, <1>6, <1>7, <1>8 DEF HandsTo
  <2>2. \A d \in Cores : core'[d].hosted = core[d].hosted
    BY <1>4, <1>6, <1>7, <1>8
  <2>3. \A d \in Cores : core[d].stage = "exported" => core'[d] = core[d]
    BY <1>3, <1>4, <1>8
  <2>4. QED
    BY <1>1, <1>3, <2>1, <2>2, <2>3 DEF OneHost
<1>13. \A s \in Sessions : Anywhere(s)' => Anywhere(s)
  BY <1>4, <1>6, <1>7, <1>8 DEF Anywhere
<1>14. \A d \in Cores : core'[d].pc = core[d].pc
           \/ core[d].pc \notin {"serving", "handed", "draining", "closing"}
  BY <1>4, <1>6, <1>8
<1>15. Backed'
  <2>1. \A d, e \in Cores : HandsTo(d, e)' <=> HandsTo(d, e)
    BY <1>3, <1>4, <1>6, <1>7, <1>8 DEF HandsTo
  <2>2. \A d \in Cores : /\ core'[d].hosted = core[d].hosted
                         /\ (core'[d].ok => core[d].ok)
                         /\ core'[d].live \subseteq core[d].live
                         /\ core'[d].pc = core[d].pc \/ core'[d].pc = "off"
    BY <1>4, <1>6, <1>7, <1>8
  <2>3. QED
    BY <1>1, <1>3, <2>1, <2>2, SameBacked
<1>16. QED
  BY <1>3, <1>9, <1>10, <1>11, <1>12, <1>13, <1>14, <1>15, CoreStep

\* The old core leaves the handoff: it forgets what it has handed over, stops
\* waiting, or takes its sessions back.
LEMMA OldCoreFields ==
    ASSUME TypeOK, CoresFit, NEW c \in Cores, Forget(c) \/ TimeOut(c) \/ Resume(c)
    PROVE  /\ core' \in [Cores -> Process]
           /\ \A d \in Cores : d # c => core'[d] = core[d]
           /\ (core'[c].shutting <=> core[c].shutting)
           /\ (core'[c].asked <=> core[c].asked)
           /\ Forget(c) =>
                 /\ core'[c].stage = "moved" /\ core'[c].to = Nobody
                 /\ core'[c].pc = (IF core[c].pc = "serving" THEN "handed" ELSE core[c].pc)
                 /\ core'[c].live = core[c].live \ core[c].hosted /\ core'[c].hosted = {}
           /\ ~Forget(c) =>
                 /\ core'[c].pc = core[c].pc /\ core'[c].live = core[c].live
                 /\ core'[c].hosted = core[c].hosted
           /\ TimeOut(c) => /\ core'[c].stage = "late" /\ core'[c].to = core[c].to
                            /\ (core'[c].ok <=> core[c].ok)
           /\ Resume(c) => /\ core'[c].stage = "none" /\ core'[c].to = Nobody
                           /\ ~core'[c].ok
<1>1. PICK x \in Process : x = core[c]
  BY DEF TypeOK
<1>2. core \in [Cores -> Process]
  BY DEF TypeOK
<1>3. CASE Forget(c)
  <2>1. PICK p \in CorePc : p = (IF core[c].pc = "serving" THEN "handed" ELSE core[c].pc)
    BY <1>1 DEF Process, CorePc
  <2>2. PICK L \in SUBSET Sessions : L = core[c].live \ core[c].hosted
    BY <1>1 DEF Process
  <2>3. PICK y : y = [x EXCEPT !.stage = "moved", !.to = Nobody, !.pc = p, !.live = L,
                               !.hosted = {}]
    OBVIOUS
  <2>4. y \in Process
    BY <2>3 DEF Process
  <2>5. core' = [core EXCEPT ![c] = y]
    <3>1. core' = [core EXCEPT ![c].stage = "moved", ![c].to = Nobody, ![c].pc = p,
                               ![c].live = L, ![c].hosted = {}]
      BY <1>1, <1>2, <1>3, <2>1, <2>2 DEF Forget, Process
    <3>2. QED
      BY <1>1, <1>2, <2>3, <3>1 DEF Process
  <2>6. /\ y.stage = "moved" /\ y.to = Nobody /\ y.pc = p /\ y.live = L /\ y.hosted = {}
        /\ y.ok = x.ok /\ y.shutting = x.shutting /\ y.asked = x.asked
    BY <2>3 DEF Process
  <2>7. /\ core' \in [Cores -> Process] /\ core'[c] = y
        /\ \A d \in Cores : d # c => core'[d] = core[d]
    BY <1>2, <2>4, <2>5, OneCoreTyped
  <2>8. ~TimeOut(c) /\ ~Resume(c)
    BY <1>3 DEF Forget, TimeOut, Resume
  <2>9. QED
    BY <1>1, <1>3, <2>1, <2>2, <2>6, <2>7, <2>8
<1>4. CASE TimeOut(c)
  <2>1. PICK y : y = [x EXCEPT !.stage = "late"]
    OBVIOUS
  <2>2. y \in Process
    BY <2>1 DEF Process
  <2>3. core' = [core EXCEPT ![c] = y]
    BY <1>1, <1>2, <1>4, <2>1 DEF TimeOut, Process
  <2>4. /\ y.stage = "late" /\ y.to = x.to /\ y.pc = x.pc /\ y.live = x.live
        /\ y.hosted = x.hosted /\ y.ok = x.ok /\ y.shutting = x.shutting /\ y.asked = x.asked
    BY <2>1 DEF Process
  <2>5. /\ core' \in [Cores -> Process] /\ core'[c] = y
        /\ \A d \in Cores : d # c => core'[d] = core[d]
    BY <1>2, <2>2, <2>3, OneCoreTyped
  <2>6. ~Forget(c)
    BY <1>4 DEF Forget, TimeOut
  <2>7. ~Resume(c)
    BY <1>4 DEF Resume, TimeOut
  <2>8. QED
    BY <1>1, <1>4, <2>4, <2>5, <2>6, <2>7
<1>5. CASE Resume(c)
  <2>1. PICK y : y = [x EXCEPT !.stage = "none", !.to = Nobody, !.ok = FALSE]
    OBVIOUS
  <2>2. y \in Process
    BY <2>1 DEF Process
  <2>3. core' = [core EXCEPT ![c] = y]
    BY <1>1, <1>2, <1>5, <2>1 DEF Resume, Process
  <2>4. /\ y.stage = "none" /\ y.to = Nobody /\ y.pc = x.pc /\ y.live = x.live
        /\ y.hosted = x.hosted /\ ~y.ok /\ y.shutting = x.shutting /\ y.asked = x.asked
    BY <2>1 DEF Process
  <2>5. /\ core' \in [Cores -> Process] /\ core'[c] = y
        /\ \A d \in Cores : d # c => core'[d] = core[d]
    BY <1>2, <2>2, <2>3, OneCoreTyped
  <2>6. ~Forget(c)
    BY <1>5 DEF Forget, Resume
  <2>7. ~TimeOut(c)
    BY <1>5 DEF Resume, TimeOut
  <2>8. QED
    BY <1>1, <1>5, <2>4, <2>5, <2>6, <2>7
<1>6. QED
  BY <1>3, <1>4, <1>5

\* The new core has committed: it has the sessions, and the old one lets go.
LEMMA ForgetInv ==
    ASSUME IInv, NEW c \in Cores, Forget(c), UNCHANGED worker
    PROVE  IInv'
<1> USE DEF home, launches, history
<1>1. TypeOK /\ CoresFit /\ LiveFits /\ LaunchFits /\ OneHost /\ Backed
  BY DEF IInv, SessionsFit
<1>2. /\ core[c].stage = "exported" /\ core[c].ok /\ core[c].pc \in {"serving", "closing"}
      /\ UNCHANGED <<home, launches, history, faults>>
  BY <1>1 DEF Forget, CoresFit, StagesFit, StageFits
<1>3. /\ core' \in [Cores -> Process]
      /\ \A d \in Cores : d # c => core'[d] = core[d]
      /\ (core'[c].shutting <=> core[c].shutting)
      /\ core'[c].stage = "moved" /\ core'[c].to = Nobody
      /\ core[c].pc = "closing" => core'[c].pc = "closing"
      /\ core[c].pc = "serving" => core'[c].pc = "handed"
      /\ core'[c].live = core[c].live \ core[c].hosted /\ core'[c].hosted = {}
  BY <1>1, OldCoreFields
<1>4. TypeOK'
  BY <1>1, <1>2, <1>3 DEF TypeOK
<1>5. CoresFit'
  <2>1. StagesFit'
    <3> SUFFICES ASSUME NEW d \in Cores PROVE StageFits(d)'
      BY DEF StagesFit
    <3>1. CASE d = c
      BY <1>2, <1>3, <3>1 DEF StageFits
    <3>2. CASE d # c /\ core[d].to # c
      <4>1. core[d].to \in Cores => core'[core[d].to] = core[core[d].to]
        BY <1>3, <3>2
      <4>2. QED
        BY <1>1, <1>2, <1>3, <3>2, <4>1 DEF CoresFit, StagesFit, StageFits
    <3>3. CASE d # c /\ core[d].to = c
      BY <1>1, <1>2, <1>3, <3>3 DEF CoresFit, StagesFit, StageFits
    <3>4. QED
      BY <3>1, <3>2, <3>3
  <2>2. OneHeir'
    BY <1>1, <1>3 DEF CoresFit, OneHeir
  <2>3. Locked'
    BY <1>1, <1>2, <1>3 DEF CoresFit, Locked
  <2>4. OneHolder'
    BY <1>1, <1>2, <1>3 DEF CoresFit, OneHolder, Holds, HandsTo
  <2>5. QED
    BY <2>1, <2>2, <2>3, <2>4 DEF CoresFit
<1>6. LiveFits'
  <2>1. \A d \in Cores : Entering(d)' = Entering(d) /\ Underway(d)' = Underway(d)
    BY <1>2 DEF Entering, Underway
  <2> SUFFICES ASSUME NEW d \in Cores PROVE Accounts(d)'
    BY DEF LiveFits
  <2>2. CASE d = c
    <3>1. core'[c].pc \notin Outside \cup {"adopting", "published"}
      BY <1>2, <1>3 DEF Outside
    <3>2. Accounts(c)
      BY <1>1 DEF LiveFits
    <3>3. /\ core'[c].pc = "closing" => core'[c].shutting
          /\ core'[c].shutting => core'[c].live = {}
      BY <1>2, <1>3, <3>2 DEF Accounts
    <3>4. \A q \in Entering(c) : q \notin core[c].hosted
      BY <1>1 DEF LaunchFits, Working, Anywhere, Entering
    <3>5. core'[c].live = Entering(c)' /\ Underway(c)' \subseteq straddled'
      BY <1>2, <1>3, <2>1, <3>2, <3>4 DEF Accounts
    <3>6. QED
      BY <1>3, <2>2, <3>1, <3>3, <3>5 DEF Accounts
  <2>3. CASE d # c
    BY <1>1, <1>2, <1>3, <2>1, <2>3 DEF LiveFits, Accounts
  <2>4. QED
    BY <2>2, <2>3
<1>7. OneHost'
  <2>1. \A d \in Cores : core'[d].hosted # {} => core'[d] = core[d]
    BY <1>3
  <2>2. \A d \in Cores : core'[d].hosted \subseteq core[d].hosted
    BY <1>3
  <2>3. QED
    BY <1>1, <1>2, <2>1, <2>2, SameHosts
<1>8. \A s \in Sessions : Anywhere(s)' => Anywhere(s)
  BY <1>3 DEF Anywhere
<1>9. \A d \in Cores : core'[d].pc = core[d].pc
          \/ core'[d].pc \in {"serving", "handed", "draining", "closing"}
  BY <1>2, <1>3
<1>10. Backed'
  BY <1>1, <1>2, <1>3, SameBacked DEF HandsTo
<1>11. QED
  BY <1>2, <1>4, <1>5, <1>6, <1>7, <1>8, <1>9, <1>10, CoreStep

\* The old core has waited for 30 seconds.
LEMMA TimeOutInv ==
    ASSUME IInv, NEW c \in Cores, TimeOut(c), UNCHANGED worker
    PROVE  IInv'
<1> USE DEF home, launches, history
<1>1. TypeOK /\ CoresFit /\ LiveFits
  BY DEF IInv, SessionsFit
<1>2. /\ core[c].stage = "exported" /\ ~core[c].ok /\ split'
      /\ faults < MaxFaults /\ faults' = faults + 1
      /\ UNCHANGED <<home, launches, lost, straddled, widowed, dropped, twice>>
  BY DEF TimeOut, Fault
<1>3. /\ core' \in [Cores -> Process]
      /\ \A d \in Cores : d # c => core'[d] = core[d]
      /\ (core'[c].shutting <=> core[c].shutting)
      /\ (core'[c].asked <=> core[c].asked)
      /\ core'[c].stage = "late" /\ core'[c].to = core[c].to /\ core'[c].pc = core[c].pc
      /\ (core'[c].ok <=> core[c].ok)
      /\ core'[c].live = core[c].live /\ core'[c].hosted = core[c].hosted
  <2>1. ~Forget(c)
    BY <1>2 DEF Forget
  <2>2. QED
    BY <1>1, <2>1, OldCoreFields
<1>4. TypeOK'
  <2>1. faults' \in 0..MaxFaults
    BY <1>1, <1>2, FaultsAssumption DEF TypeOK
  <2>2. split' \in BOOLEAN
    BY DEF TimeOut
  <2>3. QED
    BY <1>1, <1>2, <1>3, <2>1, <2>2 DEF TypeOK
<1>5. CoresFit'
  <2>1. StagesFit'
    <3>1. \A d \in Cores : core'[d].pc = core[d].pc
      BY <1>3
    <3> SUFFICES ASSUME NEW d \in Cores PROVE StageFits(d)'
      BY DEF StagesFit
    <3>2. CASE d = c
      BY <1>1, <1>2, <1>3, <3>1, <3>2 DEF CoresFit, StagesFit, StageFits
    <3>3. CASE d # c
      BY <1>1, <1>2, <1>3, <3>1, <3>3 DEF CoresFit, StagesFit, StageFits
    <3>4. QED
      BY <3>2, <3>3
  <2>2. OneHeir'
    BY <1>1, <1>3 DEF CoresFit, OneHeir
  <2>3. Locked'
    BY <1>1, <1>2, <1>3 DEF CoresFit, Locked
  <2>4. OneHolder'
    BY <1>2 DEF OneHolder
  <2>5. QED
    BY <2>1, <2>2, <2>3, <2>4 DEF CoresFit
<1>6. LiveFits'
  <2>1. \A d \in Cores : Entering(d)' = Entering(d) /\ Underway(d)' = Underway(d)
    BY <1>2 DEF Entering, Underway
  <2>2. QED
    BY <1>1, <1>2, <1>3, <2>1 DEF LiveFits, Accounts
<1>7. OneHost'
  BY <1>2 DEF OneHost
<1>8. \A s \in Sessions : Anywhere(s)' => Anywhere(s)
  BY <1>3 DEF Anywhere
<1>9. \A d \in Cores : core'[d].pc = core[d].pc
  BY <1>3
<1>10. Backed'
  BY <1>2 DEF Backed
<1>11. QED
  BY <1>2, <1>4, <1>5, <1>6, <1>7, <1>8, <1>9, <1>10, CoreStep

\* The new core is gone without a commit, so that nobody else has the sessions.
LEMMA ResumeInv ==
    ASSUME IInv, NEW c \in Cores, Resume(c), UNCHANGED worker
    PROVE  IInv'
<1> USE DEF home, launches, history
<1>1. TypeOK /\ CoresFit /\ LiveFits /\ OneHost /\ Backed
  BY DEF IInv, SessionsFit
<1>2. /\ core[c].stage \in {"exported", "late"}
      /\ core[c].pc \in {"serving", "closing"}
      /\ UNCHANGED <<home, launches, history, faults>>
  BY <1>1 DEF Resume, CoresFit, StagesFit, StageFits
<1>3. /\ core' \in [Cores -> Process]
      /\ \A d \in Cores : d # c => core'[d] = core[d]
      /\ (core'[c].shutting <=> core[c].shutting)
      /\ (core'[c].asked <=> core[c].asked)
      /\ core'[c].stage = "none" /\ core'[c].to = Nobody /\ core'[c].pc = core[c].pc
      /\ ~core'[c].ok
      /\ core'[c].live = core[c].live /\ core'[c].hosted = core[c].hosted
  <2>1. ~Forget(c)
    BY DEF Forget, Resume
  <2>2. QED
    BY <1>1, <2>1, OldCoreFields
<1>4. TypeOK'
  BY <1>1, <1>2, <1>3 DEF TypeOK
<1>5. ~split => /\ core[c].stage = "exported" /\ ~core[c].ok
                /\ core[c].to \in Cores \ {c} /\ core[core[c].to].pc = "off"
                /\ core[core[c].to].hosted = {}
  <2> SUFFICES ASSUME ~split
               PROVE  /\ core[c].stage = "exported" /\ ~core[c].ok
                      /\ core[c].to \in Cores \ {c} /\ core[core[c].to].pc = "off"
                      /\ core[core[c].to].hosted = {}
    OBVIOUS
  <2>1. core[c].stage # "late" /\ core[c].to \in Cores \ {c}
    BY <1>1, <1>2 DEF CoresFit, StagesFit, StageFits
  <2>2. core[c].stage = "exported" /\ ~core[c].ok /\ core[core[c].to].pc = "off"
    BY <2>1 DEF Resume, Alive
  <2>3. QED
    BY <1>1, <2>1, <2>2 DEF LiveFits, Accounts, Outside
<1>6. CoresFit'
  <2>1. StagesFit'
    <3>1. \A d \in Cores : core'[d].pc = core[d].pc
      BY <1>3
    <3> SUFFICES ASSUME NEW d \in Cores PROVE StageFits(d)'
      BY DEF StagesFit
    <3>2. CASE d = c
      BY <1>2, <1>3, <3>2 DEF StageFits
    <3>3. CASE d # c
      BY <1>1, <1>2, <1>3, <3>1, <3>3 DEF CoresFit, StagesFit, StageFits
    <3>4. QED
      BY <3>2, <3>3
  <2>2. OneHeir'
    BY <1>1, <1>3 DEF CoresFit, OneHeir
  <2>3. Locked'
    BY <1>1, <1>2, <1>3 DEF CoresFit, Locked
  <2>4. OneHolder'
    <3> SUFFICES ASSUME ~split PROVE OneHolder'
      BY <1>2 DEF OneHolder
    <3>1. \A d \in Cores : Holds(d)' <=> Holds(d)
      BY <1>2, <1>3, <1>5 DEF Holds
    <3>2. ~Holds(core[c].to)
      BY <1>5 DEF Holds
    <3>3. \A d, e \in Cores : HandsTo(d, e) /\ Holds(e) => HandsTo(d, e)'
      BY <1>3, <3>2 DEF HandsTo
    <3>4. \A d \in Cores : core'[d].pc = core[d].pc
      BY <1>3
    <3>5. QED
      BY <1>1, <1>2, <3>1, <3>3, <3>4 DEF CoresFit, OneHolder
  <2>5. QED
    BY <2>1, <2>2, <2>3, <2>4 DEF CoresFit
<1>7. LiveFits'
  <2>1. \A d \in Cores : Entering(d)' = Entering(d) /\ Underway(d)' = Underway(d)
    BY <1>2 DEF Entering, Underway
  <2>2. QED
    BY <1>1, <1>2, <1>3, <2>1 DEF LiveFits, Accounts
<1>8. OneHost'
  <2> SUFFICES ASSUME ~split PROVE OneHost'
    BY <1>2 DEF OneHost
  <2>1. \A d \in Cores : core'[d].hosted = core[d].hosted
    BY <1>3
  <2>2. \A d \in Cores : core[d].stage = "exported" /\ core[d].ok => core'[d] = core[d]
    BY <1>3, <1>5
  <2>3. \A d, e \in Cores : HandsTo(d, e) /\ core[e].hosted # {} => HandsTo(d, e)'
    BY <1>3, <1>5 DEF HandsTo
  <2>4. QED
    BY <1>1, <2>1, <2>2, <2>3 DEF OneHost
<1>9. \A s \in Sessions : Anywhere(s)' => Anywhere(s)
  BY <1>3 DEF Anywhere
<1>10. \A d \in Cores : core'[d].pc = core[d].pc
  BY <1>3
<1>11. Backed'
  <2> SUFFICES ASSUME ~split PROVE Backed'
    BY <1>2 DEF Backed
  <2>1. \A d, e \in Cores : HandsTo(d, e) /\ core[e].pc \in {"adopting", "published"} =>
           HandsTo(d, e)' /\ core'[d] = core[d]
    BY <1>3, <1>5 DEF HandsTo
  <2>2. QED
    BY <1>1, <1>2, <1>3, <1>10, <2>1, SameBacked
<1>12. QED
  BY <1>2, <1>4, <1>6, <1>7, <1>8, <1>9, <1>10, <1>11, CoreStep

\* The new core commits: the old one is told so in the same step, so that one of
\* them has the sessions.
LEMMA CommitInv ==
    ASSUME IInv, NEW t \in Cores, Commit(t), UNCHANGED worker
    PROVE  IInv'
<1> USE DEF home, launches, history
<1>1. TypeOK /\ CoresFit /\ LiveFits /\ OneHost /\ Backed /\ NoneTaken
  BY DEF IInv, SessionsFit
<1>2. /\ core[t].pc = "published"
      /\ UNCHANGED <<disk, record, client, files, solo, lost, straddled, widowed, twice, split,
                     faults>>
  BY DEF Commit
<1>3. CASE ~\E c \in Cores : core[c].to = t
  <2>1. GivesUpTakeover(t) /\ Ended(t) /\ socket' = socket \ {t}
    BY <1>3 DEF Commit, GivesUpTakeover
  <2>2. dropped' \subseteq Sessions /\ (split \/ dropped' \subseteq widowed')
    BY <1>2, <2>1, GivesUpFacts
  <2>3. TypeOK'
    BY <1>1, <1>2, <2>1, <2>2, EndedTyped DEF TypeOK
  <2>4. core[t].stage = "none"
    BY <1>1, <1>2, Alone
  <2>5. QED
    BY <1>1, <1>2, <2>1, <2>2, <2>3, <2>4, EndedInv DEF NoneTaken
<1>4. CASE \E c \in Cores : core[c].to = t
  <2>1. /\ core' = [c \in Cores |->
                      IF c = t THEN [core[t] EXCEPT !.pc = "serving"]
                      ELSE IF core[c].to = t THEN [core[c] EXCEPT !.ok = TRUE]
                      ELSE core[c]]
        /\ UNCHANGED <<locks, socket, request, dropped>>
    BY <1>4 DEF Commit
  <2>2. core[t].stage = "none" /\ core[t].to = Nobody /\ ~core[t].ok
    BY <1>1, <1>2, Alone
  <2>3. \A c \in Cores : core[c] \in Process
    BY <1>1 DEF TypeOK
  <2>4. /\ core'[t] \in Process /\ core'[t].pc = "serving" /\ core'[t].stage = core[t].stage
        /\ core'[t].to = core[t].to /\ core'[t].live = core[t].live
        /\ core'[t].hosted = core[t].hosted /\ core'[t].ok = core[t].ok
        /\ core'[t].shutting = core[t].shutting /\ core'[t].asked = core[t].asked
    <3>1. PICK x \in Process : x = core[t]
      BY <2>3
    <3>2. PICK y : y = [x EXCEPT !.pc = "serving"]
      OBVIOUS
    <3>3. y \in Process
      BY <3>2 DEF Process, CorePc
    <3>4. /\ y.pc = "serving" /\ y.stage = x.stage /\ y.to = x.to /\ y.live = x.live
          /\ y.hosted = x.hosted /\ y.ok = x.ok /\ y.shutting = x.shutting /\ y.asked = x.asked
      BY <3>2 DEF Process
    <3>5. core'[t] = y
      BY <2>1, <3>1, <3>2
    <3>6. QED
      BY <3>1, <3>3, <3>4, <3>5
  <2>5. ASSUME NEW c \in Cores, c # t, core[c].to = t
        PROVE  /\ core'[c] \in Process /\ core'[c].pc = core[c].pc /\ core'[c].stage = core[c].stage
               /\ core'[c].to = core[c].to /\ core'[c].live = core[c].live
               /\ core'[c].hosted = core[c].hosted /\ core'[c].ok
               /\ core'[c].shutting = core[c].shutting /\ core'[c].asked = core[c].asked
    <3>1. PICK x \in Process : x = core[c]
      BY <2>3
    <3>2. PICK y : y = [x EXCEPT !.ok = TRUE]
      OBVIOUS
    <3>3. y \in Process
      BY <3>2 DEF Process
    <3>4. /\ y.pc = x.pc /\ y.stage = x.stage /\ y.to = x.to /\ y.live = x.live
          /\ y.hosted = x.hosted /\ y.ok /\ y.shutting = x.shutting /\ y.asked = x.asked
      BY <3>2 DEF Process
    <3>5. core'[c] = y
      BY <2>1, <2>5, <3>1, <3>2
    <3>6. QED
      BY <3>1, <3>3, <3>4, <3>5
  <2>6. \A c \in Cores : c # t /\ core[c].to # t => core'[c] = core[c]
    BY <2>1
  <2>7. core' \in [Cores -> Process]
    <3>1. \A c \in Cores : core'[c] \in Process
      BY <2>3, <2>4, <2>5, <2>6
    <3>2. core' = [c \in Cores |-> core'[c]]
      BY <2>1
    <3>3. QED
      BY <3>1, <3>2
  <2>8. TypeOK'
    <3>1. UNCHANGED <<locks, socket, request, dropped>>
      BY <2>1
    <3>2. QED
      BY <1>1, <1>2, <2>7, <3>1 DEF TypeOK
  <2>9. \A c \in Cores :
           /\ c # t => core'[c].pc = core[c].pc
           /\ core'[c].stage = core[c].stage /\ core'[c].to = core[c].to
           /\ core'[c].live = core[c].live /\ core'[c].hosted = core[c].hosted
           /\ (core'[c].ok <=> core[c].ok \/ core[c].to = t)
           /\ (core'[c].shutting <=> core[c].shutting)
           /\ (core'[c].asked <=> core[c].asked)
    <3> SUFFICES ASSUME NEW c \in Cores
                 PROVE  /\ c # t => core'[c].pc = core[c].pc
                        /\ core'[c].stage = core[c].stage /\ core'[c].to = core[c].to
                        /\ core'[c].live = core[c].live /\ core'[c].hosted = core[c].hosted
                        /\ (core'[c].ok <=> core[c].ok \/ core[c].to = t)
                        /\ (core'[c].shutting <=> core[c].shutting)
                        /\ (core'[c].asked <=> core[c].asked)
      OBVIOUS
    <3>1. CASE c = t
      BY <2>2, <2>4, <3>1, CoresAssumption
    <3>2. CASE c # t /\ core[c].to = t
      BY <2>5, <3>2
    <3>3. CASE c # t /\ core[c].to # t
      BY <2>6, <3>3
    <3>4. QED
      BY <3>1, <3>2, <3>3
  <2>10. locks' = locks /\ request' = request /\ dropped' = dropped
    BY <2>1
  <2>11. \A c \in Cores : core[c].to = t => core[c].stage \in {"exported", "late"}
    <3>1. \A c \in Cores : core[c].stage \in {"none", "wait", "exported", "late", "moved"}
      BY <2>3 DEF Process
    <3>2. QED
      BY <1>1, <1>2, <3>1, CoresAssumption DEF CoresFit, StagesFit, StageFits
  <2>12. CoresFit'
    <3>1. StagesFit'
      <4> SUFFICES ASSUME NEW c \in Cores PROVE StageFits(c)'
        BY DEF StagesFit
      <4>1. StageFits(c)
        BY <1>1 DEF CoresFit, StagesFit
      <4>2. CASE core[c].to = t
        BY <1>2, <2>2, <2>4, <2>9, <2>11, <4>1, <4>2 DEF StageFits
      <4>3. CASE core[c].to # t
        <5>1. core[c].to \in Cores => core'[core[c].to].pc = core[core[c].to].pc
          BY <2>9, <4>3
        <5>2. c = t => core'[c].stage = "none" /\ core'[c].to = Nobody /\ ~core'[c].ok
                       /\ core'[c].pc = "serving"
          BY <2>2, <2>4
        <5>3. CASE c = t
          BY <5>2, <5>3 DEF StageFits
        <5>4. CASE c # t
          BY <1>2, <2>9, <4>1, <4>3, <5>1, <5>4 DEF StageFits
        <5>5. QED
          BY <5>3, <5>4
      <4>4. QED
        BY <4>2, <4>3
    <3>2. OneHeir'
      BY <1>1, <2>9 DEF CoresFit, OneHeir
    <3>3. Locked'
      <4>1. t \in locks
        BY <1>1, <1>2 DEF CoresFit, Locked
      <4>2. QED
        BY <1>1, <2>9, <2>10, <4>1 DEF CoresFit, Locked
    <3>4. OneHolder'
      <4> SUFFICES ASSUME ~split, NEW c \in Cores, NEW d \in Cores, c # d,
                          Holds(c)', Holds(d)'
                   PROVE  \/ HandsTo(c, d)' /\ core'[d].pc \in {"adopting", "published"}
                          \/ HandsTo(d, c)' /\ core'[c].pc \in {"adopting", "published"}
        BY <1>2 DEF OneHolder
      <4>1. core[c].to # t /\ core[d].to # t
        BY <2>9 DEF Holds
      <4>2. Holds(c) /\ Holds(d)
        BY <1>2, <2>2, <2>9, <4>1 DEF Holds
      <4>3. \/ HandsTo(c, d) /\ core[d].pc \in {"adopting", "published"}
            \/ HandsTo(d, c) /\ core[c].pc \in {"adopting", "published"}
        BY <1>1, <4>2 DEF CoresFit, OneHolder
      <4>4. c # t /\ d # t
        BY <2>2, <4>1, <4>3 DEF HandsTo
      <4>5. QED
        BY <2>9, <4>3, <4>4 DEF HandsTo
    <3>5. QED
      BY <3>1, <3>2, <3>3, <3>4 DEF CoresFit
  <2>13. LiveFits'
    <3>1. \A d \in Cores : Entering(d)' = Entering(d) /\ Underway(d)' = Underway(d)
      BY <2>10 DEF Entering, Underway
    <3>2. straddled' = straddled
      BY <1>2
    <3> SUFFICES ASSUME NEW d \in Cores PROVE Accounts(d)'
      BY DEF LiveFits
    <3>3. Accounts(d)
      BY <1>1 DEF LiveFits
    <3>4. CASE d = t
      BY <1>2, <2>2, <2>4, <2>9, <3>1, <3>3, <3>4 DEF Accounts, Outside
    <3>5. CASE d # t
      BY <2>9, <3>1, <3>2, <3>3, <3>5 DEF Accounts
    <3>6. QED
      BY <3>4, <3>5
  <2>14. OneHost'
    BY <1>1, <1>2, <2>9 DEF OneHost, HandsTo
  <2>15. \A s \in Sessions : Anywhere(s)' => Anywhere(s)
    BY <2>9 DEF Anywhere
  <2>16. \A c \in Cores : core'[c].pc = core[c].pc \/ core'[c].pc = "serving"
    BY <2>4, <2>9
  <2>17. Backed'
    <3>1. core'[t].pc = "serving" /\ \A c \in Cores : core[c].to # t => core'[c].ok = core[c].ok
      BY <2>2, <2>4, <2>6, CoresAssumption
    <3>2. \A c, u \in Cores : HandsTo(c, u)' <=> HandsTo(c, u)
      BY <2>9 DEF HandsTo
    <3>3. \A c, u \in Cores : HandsTo(c, u) /\ core'[u].pc \in {"adopting", "published"} =>
             core[c].to # t
      BY <3>1 DEF HandsTo
    <3>4. QED
      BY <1>1, <1>2, <2>9, <3>1, <3>2, <3>3, SameBacked
  <2>18. QED
    BY <1>2, <2>8, <2>10, <2>12, <2>13, <2>14, <2>15, <2>16, <2>17, CoreStep
<1>5. QED
  BY <1>3, <1>4

-----------------------------------------------------------------------------
(* The supervisor.                                                          *)

\* The last rapid failure that is counted is the one the supervisor gives up at.
GivesUp == worker.rapid = MaxRapid => In("failed")

\* The worker may be started with a takeover switch of either kind.
LEMMA WorkerTyped ==
    ASSUME NEW takeover \in BOOLEAN
    PROVE  Worker(takeover) \in Supervisor /\ Worker(takeover).rapid = 0
  BY RapidAssumption DEF Worker, Supervisor

\* A step of the supervisor, or one that leaves it alone, keeps its type, and its
\* counter stays below the limit until it gives up.
LEMMA SupervisorTyped ==
    ASSUME TypeOK, GivesUp, [Next]_vars
    PROVE  worker' \in Supervisor /\ GivesUp'
<1>1. /\ worker \in Supervisor /\ disk \in 1..2 /\ record \in Cores \cup {Nobody}
      /\ MaxRapid \in Nat \ {0}
  BY RapidAssumption DEF TypeOK
<1>0. 0 \in 0..MaxRapid /\ 0 # MaxRapid
  BY RapidAssumption
<1>2. /\ worker.state \in {"boot", "starting", "live", "adopted", "handing_off", "failed"}
      /\ worker.pid \in Cores \cup {Nobody} /\ worker.child \in Cores \cup {Nobody}
      /\ worker.rapid \in 0..MaxRapid /\ worker.tried \in (Cores \cup {Nobody}) \X (1..2)
      /\ worker.takeover \in BOOLEAN
  BY <1>1 DEF Supervisor
<1>3. worker.rapid = MaxRapid => worker.state = "failed"
  BY DEF GivesUp, In
<1>4. CASE UNCHANGED worker
  BY <1>1, <1>3, <1>4 DEF GivesUp, In
<1>5. ASSUME NEW p \in Cores \cup {Nobody}, Adopt(p)
      PROVE  worker' \in Supervisor /\ GivesUp'
  <2>1. worker' = [worker EXCEPT !.state = "adopted", !.pid = p, !.child = Nobody, !.rapid = 0]
    BY <1>5 DEF Adopt
  <2>2. worker' \in Supervisor
    BY <1>0, <1>1, <2>1 DEF Supervisor
  <2>3. worker'.rapid = 0
    BY <1>1, <2>1 DEF Supervisor
  <2>4. QED
    BY <1>0, <2>2, <2>3 DEF GivesUp
<1>6. ASSUME Spawn, ~In("failed")
      PROVE  worker' \in Supervisor /\ GivesUp'
  <2>1. CASE \E c \in Unused :
               worker' = [worker EXCEPT !.state = "starting", !.pid = c, !.child = c,
                                 !.tried = IF @[1] = c THEN <<Nobody, 1>> ELSE @]
    <3>1. PICK c \in Unused :
               worker' = [worker EXCEPT !.state = "starting", !.pid = c, !.child = c,
                                 !.tried = IF @[1] = c THEN <<Nobody, 1>> ELSE @]
      BY <2>1
    <3>2. PICK tr \in (Cores \cup {Nobody}) \X (1..2) :
             tr = (IF worker.tried[1] = c THEN <<Nobody, 1>> ELSE worker.tried)
      <4>1. <<Nobody, 1>> \in (Cores \cup {Nobody}) \X (1..2)
        OBVIOUS
      <4>2. QED
        BY <1>2, <4>1
    <3>3. worker' = [worker EXCEPT !.state = "starting", !.pid = c, !.child = c, !.tried = tr]
      BY <3>1, <3>2
    <3>4. c \in Cores
      BY DEF Unused
    <3>5. QED
      BY <1>1, <1>3, <1>6, <3>3, <3>4 DEF Supervisor, GivesUp, In
  <2>2. CASE worker' = [worker EXCEPT !.state = "failed"]
    BY <1>1, <2>2 DEF Supervisor, GivesUp, In
  <2>3. QED
    BY <1>6, <2>1, <2>2 DEF Spawn
<1>7. CASE AdoptOrSpawn
  <2>1. ~In("failed")
    BY <1>7 DEF AdoptOrSpawn, In
  <2>2. QED
    BY <1>5, <1>6, <1>7, <2>1 DEF AdoptOrSpawn
<1>8. CASE PollStarting
  <2>1. worker' = [worker EXCEPT !.state = "live", !.rapid = 0]
    BY <1>8 DEF PollStarting
  <2>2. worker' \in Supervisor
    BY <1>0, <1>1, <2>1 DEF Supervisor
  <2>3. worker'.rapid = 0
    BY <1>1, <2>1 DEF Supervisor
  <2>4. QED
    BY <1>0, <2>2, <2>3 DEF GivesUp
<1>9. CASE Reap
  <2>1. ~In("failed")
    BY <1>9 DEF Reap, In
  <2>2. CASE \E p \in Cores \cup {Nobody} : Adopt(p)
    BY <1>5, <2>2
  <2>3. CASE \E n \in {0, worker.rapid + 1} :
               worker' = [worker EXCEPT !.state = IF n >= MaxRapid THEN "failed" ELSE "starting",
                                        !.pid = Nobody, !.child = Nobody, !.rapid = n]
    <3>1. PICK n \in {0, worker.rapid + 1} :
               worker' = [worker EXCEPT !.state = IF n >= MaxRapid THEN "failed" ELSE "starting",
                                        !.pid = Nobody, !.child = Nobody, !.rapid = n]
      BY <2>3
    <3>2. n \in 0..MaxRapid
      <4>1. worker.rapid # MaxRapid
        BY <1>3, <2>1 DEF In
      <4>2. QED
        BY <1>1, <1>2, <4>1
    <3>3. PICK st \in {"starting", "failed"} :
             st = (IF n >= MaxRapid THEN "failed" ELSE "starting")
      OBVIOUS
    <3>4. worker' = [worker EXCEPT !.state = st, !.pid = Nobody, !.child = Nobody, !.rapid = n]
      BY <3>1, <3>3
    <3>5. worker' \in Supervisor
      BY <1>1, <3>2, <3>4 DEF Supervisor
    <3>6. worker'.rapid = n /\ worker'.state = st
      BY <1>1, <3>4 DEF Supervisor
    <3>7. n = MaxRapid => st = "failed"
      BY <1>1, <3>3
    <3>8. QED
      BY <3>5, <3>6, <3>7 DEF GivesUp, In
  <2>4. QED
    BY <1>9, <2>2, <2>3 DEF Reap
<1>10. CASE PollAdopted
  <2>1. CASE \E t \in Unused :
               worker' = [worker EXCEPT !.state = "handing_off", !.child = t,
                                        !.tried = <<record, disk>>]
    <3>1. PICK t \in Unused :
               worker' = [worker EXCEPT !.state = "handing_off", !.child = t,
                                        !.tried = <<record, disk>>]
      BY <2>1
    <3>2. t \in Cores /\ <<record, disk>> \in (Cores \cup {Nobody}) \X (1..2)
      BY <1>1 DEF Unused
    <3>3. worker.state # "failed"
      BY <1>10 DEF PollAdopted, In
    <3>4. QED
      BY <1>1, <1>3, <3>1, <3>2, <3>3 DEF Supervisor, GivesUp, In
  <2>2. CASE worker' = [worker EXCEPT !.tried = <<record, disk>>]
    <3>1. <<record, disk>> \in (Cores \cup {Nobody}) \X (1..2)
      BY <1>1
    <3>2. QED
      BY <1>1, <1>3, <2>2, <3>1 DEF Supervisor, GivesUp, In
  <2>3. QED
    BY <1>4, <1>10, <2>1, <2>2 DEF PollAdopted, TakeOver, Drain
<1>11. CASE Lost \/ Mistaken
  <2>1. worker' = [worker EXCEPT !.state = "starting", !.pid = Nobody] /\ In("adopted")
    BY <1>11 DEF Lost, Mistaken
  <2>2. QED
    BY <1>1, <1>3, <2>1 DEF Supervisor, GivesUp, In
<1>12. CASE PollHandingOff
  <2>1. In("handing_off")
    BY <1>12 DEF PollHandingOff
  <2>2. CASE worker' = [worker EXCEPT !.state = "adopted", !.child = Nobody]
    BY <1>1, <1>3, <2>1, <2>2 DEF Supervisor, GivesUp, In
  <2>3. CASE worker' = [worker EXCEPT !.state = "adopted"]
    BY <1>1, <1>3, <2>1, <2>3 DEF Supervisor, GivesUp, In
  <2>4. CASE worker' = [worker EXCEPT !.state = "live", !.pid = worker.child, !.rapid = 0]
    <3>1. worker' \in Supervisor
      BY <1>0, <1>1, <2>4 DEF Supervisor
    <3>2. worker'.rapid = 0
      BY <1>1, <2>4 DEF Supervisor
    <3>3. QED
      BY <1>0, <3>1, <3>2 DEF GivesUp
  <2>5. QED
    BY <1>12, <2>2, <2>3, <2>4 DEF PollHandingOff
<1>13. CASE Restart
  <2>1. worker' = Worker(worker.takeover)
    BY <1>13 DEF Restart
  <2>2. QED
    BY <1>1, <1>2, <2>1, WorkerTyped DEF GivesUp
<1>14. QED
  BY <1>4, <1>7, <1>8, <1>9, <1>10, <1>11, <1>12, <1>13
     DEF Next, Supervise, Update, Shutdown, vars

\* The cores and the launches stay, and the supervisor, the binary or the count
\* of faults changes.
LEMMA CoresStay ==
    ASSUME IInv, worker' \in Supervisor, faults' \in 0..MaxFaults, disk' \in 1..2,
           UNCHANGED <<core, record, socket, locks, launches, history>>
    PROVE  IInv'
<1> USE DEF launches, history
<1>1. TypeOK /\ CoresFit /\ LiveFits /\ OneHost /\ Backed
  BY DEF IInv, SessionsFit
<1>2. TypeOK'
  BY <1>1 DEF TypeOK
<1>3. CoresFit'
  BY <1>1, SameCores
<1>4. LiveFits'
  BY <1>1 DEF LiveFits, Accounts, Entering, Underway
<1>5. OneHost'
  BY <1>1, SameHosts
<1>6. \A s \in Sessions : Anywhere(s)' => Anywhere(s)
  BY DEF Anywhere
<1>7. Backed'
  BY <1>1, SameBacked DEF HandsTo
<1>8. QED
  BY <1>2, <1>3, <1>4, <1>5, <1>6, <1>7, CoreStep

\* A new process has a name that no core, record or request knows.
LEMMA StartInv ==
    ASSUME IInv, NEW c \in Unused, NEW p \in {"start", "connect"}, Start(c, p),
           worker' \in Supervisor, UNCHANGED <<home, launches, history, faults>>
    PROVE  IInv'
<1> USE DEF home, launches, history
<1>1. TypeOK /\ CoresFit /\ LiveFits /\ OneHost /\ Backed
  BY DEF IInv, SessionsFit
<1>2. c \in Cores /\ core[c].pc = "off" /\ \A d \in Cores : core[d].to # c
  BY DEF Unused, Alive
<1>3. PICK y : y = Fresh(p, disk, {})
  OBVIOUS
<1>4. y \in Process
  BY <1>1, <1>3 DEF TypeOK, Fresh, Process, CorePc
<1>5. /\ y.pc = p /\ y.live = {} /\ y.hosted = {} /\ y.stage = "none" /\ y.to = Nobody
      /\ ~y.ok /\ ~y.shutting /\ ~y.asked
  BY <1>3 DEF Fresh
<1>6. /\ core' \in [Cores -> Process] /\ core'[c] = y
      /\ \A d \in Cores : d # c => core'[d] = core[d]
  <2>1. core \in [Cores -> Process] /\ core' = [core EXCEPT ![c] = y]
    BY <1>1, <1>3 DEF TypeOK, Start
  <2>2. QED
    BY <1>2, <1>4, <2>1, OneCoreTyped
<1>7. TypeOK'
  BY <1>1, <1>6 DEF TypeOK
<1>8. CoresFit'
  <2>1. StagesFit'
    <3> SUFFICES ASSUME NEW d \in Cores PROVE StageFits(d)'
      BY DEF StagesFit
    <3>1. CASE d = c
      BY <1>5, <1>6, <3>1 DEF StageFits
    <3>2. CASE d # c
      <4>1. core[d].to \in Cores => core'[core[d].to] = core[core[d].to]
        BY <1>2, <1>6
      <4>2. QED
        BY <1>1, <1>6, <3>2, <4>1 DEF CoresFit, StagesFit, StageFits
    <3>3. QED
      BY <3>1, <3>2
  <2>2. OneHeir'
    BY <1>1, <1>5, <1>6 DEF CoresFit, OneHeir
  <2>3. Locked'
    BY <1>1, <1>5, <1>6 DEF CoresFit, Locked
  <2>4. OneHolder'
    BY <1>1, <1>2, <1>5, <1>6 DEF CoresFit, OneHolder, Holds, HandsTo
  <2>5. QED
    BY <2>1, <2>2, <2>3, <2>4 DEF CoresFit
<1>9. LiveFits'
  <2>1. \A d \in Cores : Entering(d)' = Entering(d) /\ Underway(d)' = Underway(d)
    BY DEF Entering, Underway
  <2> SUFFICES ASSUME NEW d \in Cores PROVE Accounts(d)'
    BY DEF LiveFits
  <2>2. CASE d = c
    <3>1. Accounts(c) /\ core[c].pc \in Outside
      BY <1>1, <1>2 DEF LiveFits, Outside
    <3>2. Entering(c) = {}
      BY <3>1 DEF Accounts
    <3>3. QED
      BY <1>5, <1>6, <2>1, <2>2, <3>2 DEF Accounts
  <2>3. CASE d # c
    BY <1>1, <1>6, <2>1, <2>3 DEF LiveFits, Accounts
  <2>4. QED
    BY <2>2, <2>3
<1>10. OneHost'
  <2>1. \A d \in Cores : core'[d].hosted # {} => core'[d] = core[d]
    BY <1>5, <1>6
  <2>2. \A d \in Cores : core'[d].hosted \subseteq core[d].hosted
    BY <1>5, <1>6
  <2>3. QED
    BY <1>1, <2>1, <2>2, SameHosts
<1>11. \A s \in Sessions : Anywhere(s)' => Anywhere(s)
  BY <1>5, <1>6 DEF Anywhere
<1>12. \A d \in Cores : core'[d].pc = core[d].pc
          \/ core[d].pc \notin {"serving", "handed", "draining", "closing"}
  BY <1>2, <1>6
<1>13. Backed'
  <2>1. \A d, e \in Cores : HandsTo(d, e) => HandsTo(d, e)' /\ core'[d] = core[d]
    BY <1>1, <1>2, <1>6, Alone DEF HandsTo
  <2>2. QED
    BY <1>1, <1>5, <1>6, <2>1, SameBacked
<1>14. QED
  BY <1>7, <1>8, <1>9, <1>10, <1>11, <1>12, <1>13, CoreStep

\* What the supervisor, the user and the installer do to the cores.
LEMMA SuperviseInv ==
    ASSUME IInv, worker' \in Supervisor, Supervise \/ Mistaken \/ Restart \/ Update \/ Shutdown
    PROVE  IInv'
<1> USE DEF home
<1>1. TypeOK
  BY DEF IInv
<1>2. disk \in 1..2 /\ faults \in 0..MaxFaults
  BY <1>1 DEF TypeOK
<1>3. ASSUME NEW k, Fault(k) PROVE faults' \in 0..MaxFaults
  BY <1>2, <1>3, FaultsAssumption DEF Fault
<1>4. CASE /\ UNCHANGED <<core, record, socket, locks, launches, history>>
           /\ disk' \in 1..2
           /\ faults' = faults \/ \E k \in Faults : Fault(k)
  BY <1>2, <1>3, <1>4, CoresStay
<1>5. CASE \E c \in Unused, p \in {"start", "connect"} :
              Start(c, p) /\ UNCHANGED <<home, launches, history, faults>>
  BY <1>5, StartInv
<1>6. CASE \E c \in Accepting :
              /\ AskShutdown(c) /\ UNCHANGED <<home, launches, history>>
              /\ faults' = faults \/ \E k \in Faults : Fault(k)
  BY <1>2, <1>3, <1>6, AskShutdownInv
<1>7. ASSUME NEW k, Fault(k) PROVE \E f \in Faults : Fault(f)
  BY <1>7 DEF Fault
<1>8. CASE AdoptOrSpawn
  BY <1>2, <1>4, <1>5, <1>7, <1>8 DEF AdoptOrSpawn, Adopt, Spawn
<1>9. CASE PollStarting \/ Lost \/ Mistaken
  BY <1>2, <1>4, <1>9 DEF PollStarting, Lost, Mistaken, coreVars
<1>10. CASE Reap
  BY <1>2, <1>4, <1>10 DEF Reap, Adopt
<1>11. CASE PollAdopted
  BY <1>2, <1>4, <1>5, <1>6, <1>7, <1>11 DEF PollAdopted, TakeOver, Drain
<1>12. CASE PollHandingOff
  BY <1>2, <1>4, <1>7, <1>12 DEF PollHandingOff
<1>13. CASE Restart
  BY <1>2, <1>4, <1>7, <1>13 DEF Restart
<1>14. CASE Update
  BY <1>2, <1>4, <1>7, <1>14 DEF Update
<1>15. CASE Shutdown
  BY <1>6, <1>7, <1>15 DEF Shutdown
<1>16. QED
  BY <1>8, <1>9, <1>10, <1>11, <1>12, <1>13, <1>14, <1>15 DEF Supervise

-----------------------------------------------------------------------------
(* The invariant, and what follows from it.                                 *)

LEMMA InitIInv == Init => IInv /\ GivesUp
<1> SUFFICES ASSUME Init PROVE IInv /\ GivesUp
  OBVIOUS
<1>1. TypeOK
  BY InitTyped
<1>2. CoreInit /\ \E takeover \in BOOLEAN : worker = Worker(takeover)
  BY DEF Init
<1>3. /\ core[First].pc = "serving" /\ core[First].live = Hosted
      /\ core[First].hosted = Hosted
      /\ \A c \in Cores : /\ core[c].stage = "none" /\ core[c].to = Nobody /\ ~core[c].ok
                          /\ ~core[c].shutting /\ ~core[c].asked
      /\ \A c \in Cores : c # First => /\ core[c].pc = "off" /\ core[c].live = {}
                                       /\ core[c].hosted = {}
  <2>1. \A c \in Cores :
           core[c] = IF c = First THEN Fresh("serving", 1, Hosted) ELSE Fresh("off", 1, {})
    BY <1>2 DEF CoreInit
  <2>2. QED
    BY <2>1, CoresAssumption DEF Fresh
<1>4. CoresFit
  <2>1. locks = {First}
    BY <1>2 DEF CoreInit
  <2>2. QED
    BY <1>3, <2>1 DEF CoresFit, StagesFit, StageFits, OneHeir, Locked, OneHolder, Holds
<1>5. \A s \in Sessions : request[s].pc = "none" /\ request[s].core = Nobody
  BY <1>2 DEF CoreInit, NoRequest
<1>6. LiveFits
  <2>1. \A c \in Cores : Entering(c) = {} /\ Underway(c) = {}
    BY <1>5 DEF Entering, Underway
  <2>2. QED
    BY <1>3, <2>1, CoresAssumption DEF LiveFits, Accounts, Outside
<1>7. LaunchFits
  BY <1>2, <1>3, <1>5 DEF CoreInit, LaunchFits, Working, Anywhere
<1>8. OneToken /\ OneHost /\ Backed /\ NoneTaken
  <2>1. files = {} /\ solo = {} /\ lost = {} /\ dropped = {}
    BY <1>2 DEF CoreInit
  <2>2. \A c \in Cores : core[c].pc \notin {"adopting", "published"}
    BY <1>3
  <2>3. QED
    BY <1>3, <1>5, <2>1, <2>2 DEF OneToken, OneHost, Backed, NoneTaken, Working
<1>9. GivesUp
  BY <1>2, WorkerTyped, RapidAssumption DEF GivesUp
<1>10. QED
  BY <1>1, <1>4, <1>6, <1>7, <1>8, <1>9 DEF IInv, SessionsFit

LEMMA NextIInv == ASSUME IInv, GivesUp, [Next]_vars PROVE IInv' /\ GivesUp'
<1>1. TypeOK /\ worker \in Supervisor /\ faults \in 0..MaxFaults /\ disk \in 1..2
  BY DEF IInv, TypeOK
<1>2. worker' \in Supervisor /\ GivesUp'
  BY <1>1, SupervisorTyped
<1>3. CASE UNCHANGED vars
  BY <1>1, <1>2, <1>3, CoresStay DEF vars, coreVars, home
<1>4. ASSUME NEW s \in Sessions,
             Client(s) \/ Request(s) \/ Reply(s) \/ SetupFails(s), UNCHANGED worker
      PROVE  IInv'
  <2>1. TypeOK'
    BY <1>4, LaunchTyped
  <2>2. QED
    BY <1>4, <2>1, ClientInv, InsertInv, InsideInv, SetupInv DEF Request
<1>5. ASSUME NEW c \in Cores, UNCHANGED worker,
             \/ Serve(c) \/ OldCore(c) \/ NewCore(c) \/ TakeoverFails(c) \/ TimeOut(c) \/ Kill(c)
             \/ \E s \in Sessions : SessionEnds(c, s)
      PROVE  IInv'
  <2>1. CASE Serve(c)
    BY <1>5, <2>1, BootInv, PhaseInv, DecideShutdownInv, EndInv DEF Serve
  <2>2. CASE OldCore(c)
    BY <1>5, <2>2, ExportInv, RefuseHandoffInv, ForgetInv, ResumeInv DEF OldCore
  <2>3. CASE NewCore(c)
    BY <1>5, <2>3, EndInv, PhaseInv, CommitInv, BeginHandoffInv DEF NewCore
  <2>4. CASE TakeoverFails(c) \/ Kill(c)
    BY <1>5, <2>4, EndInv
  <2>5. CASE TimeOut(c)
    BY <1>5, <2>5, TimeOutInv
  <2>6. CASE \E s \in Sessions : SessionEnds(c, s)
    BY <1>5, <2>6, SessionEndsInv
  <2>7. QED
    BY <1>5, <2>1, <2>2, <2>3, <2>4, <2>5, <2>6
<1>6. CASE Supervise \/ Mistaken \/ Restart \/ Update \/ Shutdown
  BY <1>2, <1>6, SuperviseInv
<1>7. QED
  BY <1>2, <1>3, <1>4, <1>5, <1>6 DEF Next

\* The invariant holds throughout, whatever the number of cores, sessions,
\* faults, restarts and handoffs.
THEOREM Inductive == Spec => [](IInv /\ GivesUp)
<1>1. Init => IInv /\ GivesUp
  BY InitIInv
<1>2. (IInv /\ GivesUp) /\ [Next]_vars => (IInv /\ GivesUp)'
  BY NextIInv
<1>3. QED
  BY <1>1, <1>2, PTL DEF Spec

\* Every variable keeps its type (CoreState, PtyCoreSupervisor): the counter of
\* rapid failures never passes MAX_RAPID_FAILURES.
THEOREM SupervisorIsTyped == Spec => []TypeOK
<1>1. IInv /\ GivesUp => TypeOK
  BY DEF IInv
<1>2. QED
  BY <1>1, Inductive, PTL

\* No two cores have their doors open, unless one has handed its sessions over
\* or a handoff timed out (run_core_unix and its lock, run_takeover).
THEOREM OneCoreOpens == Spec => []OneCore
<1>1. IInv /\ GivesUp => OneCore
  <2> SUFFICES ASSUME IInv, ~split, NEW c \in Cores, NEW d \in Cores, c # d,
                      core[c].pc \in {"bound", "serving"}, core[d].pc \in {"bound", "serving"}
               PROVE  core[c].stage = "exported" \/ core[d].stage = "exported"
    BY DEF OneCore
  <2>1. TypeOK /\ CoresFit
    BY DEF IInv
  <2>2. \A e \in Cores : core[e].ok /\ core[e].pc \in {"bound", "serving"} =>
           core[e].stage = "exported"
    <3> SUFFICES ASSUME NEW e \in Cores, core[e].ok, core[e].pc \in {"bound", "serving"}
                 PROVE  core[e].stage = "exported"
      OBVIOUS
    <3>1. core[e].stage \in {"none", "wait", "exported", "late", "moved"}
      BY <2>1 DEF TypeOK, Process
    <3>2. QED
      BY <2>1, <3>1 DEF CoresFit, StagesFit, StageFits
  <2>3. core[c].stage # "moved" /\ core[d].stage # "moved"
    BY <2>1 DEF CoresFit, StagesFit, StageFits
  <2>4. CASE core[c].ok \/ core[d].ok
    BY <2>2, <2>4
  <2>5. CASE ~core[c].ok /\ ~core[d].ok
    BY <2>1, <2>3, <2>5 DEF CoresFit, OneHolder, Holds, HandsTo
  <2>6. QED
    BY <2>4, <2>5
<1>2. QED
  BY <1>1, Inductive, PTL

\* No core exits with a session (the exit of the accept loop after a shutdown or
\* a handoff), but for one whose launch had passed the gate and was not counted
\* when the core exported (launch_session); and a new core that gives up
\* (run_takeover) has no session that only it has, unless the old core was killed
\* or had stopped waiting.
THEOREM NoSessionTaken == Spec => []NoneTaken
<1>1. IInv /\ GivesUp => NoneTaken
  BY DEF IInv
<1>2. QED
  BY <1>1, Inductive, PTL

\* No session is served by two processes: two cores, or a core and the process
\* that a client started for it (forget_after_handoff, the launch file).
THEOREM ServedOnce == Spec => []HostedOnce
<1>1. IInv /\ GivesUp => HostedOnce
  <2> SUFFICES ASSUME IInv, ~split, NEW s \in Sessions \ twice
               PROVE  Cardinality({c \in Cores : s \in core[c].hosted /\ Active(c)})
                          + Cardinality({s} \cap solo) <= 1
    BY DEF HostedOnce
  <2>1. OneToken /\ OneHost
    BY DEF IInv, SessionsFit
  <2>2. PICK S : S = {c \in Cores : s \in core[c].hosted /\ Active(c)}
    OBVIOUS
  <2>3. CASE s \in solo
    <3>1. S = {}
      BY <2>1, <2>2, <2>3 DEF OneToken, Anywhere
    <3>2. {s} \cap solo = {s}
      BY <2>3
    <3>3. Cardinality(S) = 0
      BY <3>1, FS_EmptySet
    <3>4. Cardinality({s} \cap solo) = 1
      BY <3>2, FS_Singleton
    <3>5. QED
      BY <2>2, <3>3, <3>4
  <2>4. CASE s \notin solo
    <3>1. \A c, d \in S : c = d
      BY <2>1, <2>2 DEF OneHost, HandsTo, Active
    <3>2. S = {} \/ \E c \in S : S = {c}
      BY <3>1
    <3>3. Cardinality(S) \in {0, 1}
      BY <3>2, FS_EmptySet, FS_Singleton
    <3>4. {s} \cap solo = {}
      BY <2>4
    <3>5. QED
      BY <2>2, <3>3, <3>4, FS_EmptySet
  <2>5. QED
    BY <2>3, <2>4
<1>2. QED
  BY <1>1, Inductive, PTL
=============================================================================
