------------------------- MODULE ApprovalHubProofs -------------------------
(***************************************************************************)
(* The approval hub keeps its promises for any number of requests, phones   *)
(* and answers under way, any bound of the decision store and any faults.   *)
(***************************************************************************)
EXTENDS ApprovalHub, TLAPS

\* A queued request has a handler that waits, or that gave up and has not yet
\* taken it off the queue: either way nobody has approved it.
QueuedOpen ==
    \A r \in pending : handler[r].pc \in {"waiting", "closing"} /\ ~handler[r].approved

\* An answer takes its request off the queue for good: no second one can, since
\* a handler queues its request once, when it comes.
TakenOnce ==
    /\ \A d, e \in taken : d.id = e.id => d = e
    /\ \A d \in taken : d.id \notin pending /\ ~At(d.id, "idle")
    /\ applied \subseteq taken
    /\ \A i \in DOMAIN resolved : resolved[i] \in taken
    /\ \A r \in late : \E d \in taken : d.id = r

\* Until a handler stops waiting, its channel holds the answer that was taken,
\* and none otherwise.
ChannelTrue ==
    \A r \in Requests : handler[r].pc \in {"idle", "waiting"} =>
        /\ \A d \in taken : d.id = r => channel[r] = {d.approved} /\ r \notin late
        /\ channel[r] # {} => \E d \in taken : d.id = r

\* A handler that stopped waiting has the answer that was taken in time, or the
\* denial of a timeout.
HandlerTrue ==
    /\ \A d \in taken : handler[d.id].pc \in {"closing", "audit", "grant", "done"} =>
          (handler[d.id].approved <=> d.approved /\ d.id \notin late)
    /\ \A r \in Requests :
          /\ handler[r].pc \in {"idle", "waiting", "lost"} => ~handler[r].approved
          /\ handler[r].pc \in {"audit", "grant"} => handler[r].approved

IInv ==
    /\ TypeOK
    /\ QueuedOpen
    /\ TakenOnce
    /\ ChannelTrue
    /\ HandlerTrue
    /\ GrantsApproved

-----------------------------------------------------------------------------

\* The keys a grant may be for: old ones, and ones approved in time.
Explained == Legacy \cup {KeyOf[d.id] : d \in InTime}

LEMMA InitIInv == Init => IInv
<1> SUFFICES ASSUME Init PROVE IInv
  OBVIOUS
<1>1. TypeOK
  BY BoundsAssumption DEF Init, TypeOK, Store!Init
<1>2. \A r \in Requests : handler[r].pc = "idle" /\ ~handler[r].approved
  BY DEF Init
<1>3. QueuedOpen /\ TakenOnce
  BY DEF Init, QueuedOpen, TakenOnce
<1>4. ChannelTrue /\ HandlerTrue
  BY <1>2 DEF Init, ChannelTrue, HandlerTrue, At
<1>5. GrantsApproved
  BY <1>2 DEF Init, GrantsApproved, Store!Init
<1>6. QED
  BY <1>1, <1>3, <1>4, <1>5 DEF IInv

\* A step of a phone or of an answer on its way: the requests, their handlers
\* and the decisions stay.
LEMMA Quiet ==
    ASSUME IInv, TypeOK', taken' = taken, late' = late, applied' = applied,
           resolved' = resolved, pending' = pending, handler' = handler,
           channel' = channel, granted' = granted
    PROVE  IInv'
<1>1. QueuedOpen' /\ TakenOnce'
  BY DEF IInv, QueuedOpen, TakenOnce, At
<1>2. ChannelTrue' /\ HandlerTrue'
  BY DEF IInv, ChannelTrue, HandlerTrue, At
<1>3. GrantsApproved'
  BY DEF IInv, GrantsApproved, InTime
<1>4. QED
  BY <1>1, <1>2, <1>3 DEF IInv

Handler == [pc : {"idle", "waiting", "closing", "audit", "grant", "done", "lost"},
            approved : BOOLEAN]

\* The handler of r goes on (Goto): its own record changes, and no other.
LEMMA Goes ==
    ASSUME handler \in [Requests -> Handler], NEW r \in Requests,
           NEW c \in {"idle", "waiting", "closing", "audit", "grant", "done", "lost"},
           NEW a \in BOOLEAN, Goto(r, c, a)
    PROVE  /\ handler' \in [Requests -> Handler]
           /\ handler'[r].pc = c
           /\ handler'[r].approved <=> a
           /\ \A q \in Requests : q # r => handler'[q] = handler[q]
<1>1. [pc |-> c, approved |-> a] \in Handler
  BY DEF Handler
<1>2. handler' = [handler EXCEPT ![r] = [pc |-> c, approved |-> a]]
  BY DEF Goto
<1>3. handler' \in [Requests -> Handler] /\ handler'[r] = [pc |-> c, approved |-> a]
  BY <1>1, <1>2
<1>4. QED
  BY <1>2, <1>3

\* A step of the handler of r: what it owes the others.
LEMMA HandlerStep ==
    ASSUME IInv, TypeOK', NEW r \in Requests,
           \A q \in Requests : q # r => handler'[q] = handler[q],
           taken' = taken, late' = late, applied' = applied, resolved' = resolved,
           \A q \in Requests : q # r => channel'[q] = channel[q],
           \A q \in Requests : q # r => (q \in pending' <=> q \in pending),
           handler'[r].pc # "idle",
           r \in pending' => /\ handler'[r].pc \in {"waiting", "closing"}
                             /\ ~handler'[r].approved
                             /\ \A d \in taken : d.id # r,
           handler'[r].pc = "waiting" =>
               channel'[r] = {} /\ \A d \in taken : d.id # r,
           \A d \in taken :
               d.id = r /\ handler'[r].pc \in {"closing", "audit", "grant", "done"} =>
                  (handler'[r].approved <=> d.approved /\ r \notin late),
           handler'[r].pc \in {"waiting", "lost"} => ~handler'[r].approved,
           handler'[r].pc \in {"audit", "grant"} => handler'[r].approved,
           handler'[r].approved => KeyOf[r] \in Explained,
           granted' \subseteq Explained
    PROVE  IInv'
<1>1. /\ pending \subseteq Requests /\ pending' \subseteq Requests
      /\ taken \subseteq Decision
      /\ \A d \in taken : d.id \in Requests
  BY DEF IInv, TypeOK, Decision
<1>2. QueuedOpen'
  BY <1>1 DEF IInv, QueuedOpen
<1>3. TakenOnce'
  BY <1>1 DEF IInv, TakenOnce, At
<1>4. ChannelTrue'
  BY <1>1 DEF IInv, ChannelTrue
<1>5. HandlerTrue'
  BY <1>1 DEF IInv, HandlerTrue
<1>6. GrantsApproved'
  <2>1. Explained' = Explained
    BY DEF Explained, InTime
  <2>2. \A q \in Requests : handler'[q].approved => KeyOf[q] \in Explained
    BY DEF IInv, GrantsApproved, Explained
  <2>3. QED
    BY <2>1, <2>2 DEF GrantsApproved, Explained
<1>7. QED
  BY <1>2, <1>3, <1>4, <1>5, <1>6 DEF IInv

\* What IInv says of the handler of r, where it stands.
LEMMA HandlerFacts ==
    ASSUME IInv, NEW r \in Requests
    PROVE  /\ handler \in [Requests -> Handler] /\ handler[r].approved \in BOOLEAN
           /\ granted \subseteq Explained
           /\ handler[r].approved => KeyOf[r] \in Explained
           /\ At(r, "idle") => r \notin pending /\ channel[r] = {}
                                /\ \A d \in taken : d.id # r
           /\ At(r, "waiting") /\ channel[r] = {} => \A d \in taken : d.id # r
           /\ r \in pending => \A d \in taken : d.id # r
<1>1. handler \in [Requests -> Handler] /\ handler[r].approved \in BOOLEAN
  BY DEF IInv, TypeOK, Handler
<1>2. granted \subseteq Explained /\ (handler[r].approved => KeyOf[r] \in Explained)
  BY DEF IInv, GrantsApproved, Explained
<1>3. At(r, "idle") => r \notin pending /\ channel[r] = {}
                       /\ \A d \in taken : d.id # r
  BY DEF IInv, QueuedOpen, TakenOnce, ChannelTrue, At
<1>4. At(r, "waiting") /\ channel[r] = {} => \A d \in taken : d.id # r
  BY DEF IInv, ChannelTrue, At
<1>5. r \in pending => \A d \in taken : d.id # r
  BY DEF IInv, TakenOnce
<1>6. QED
  BY <1>1, <1>2, <1>3, <1>4, <1>5

LEMMA RememberedIInv == ASSUME IInv, NEW r \in Requests, Remembered(r) PROVE IInv'
<1>1. /\ handler' \in [Requests -> Handler]
      /\ handler'[r].pc = "done" /\ handler'[r].approved
      /\ \A q \in Requests : q # r => handler'[q] = handler[q]
  BY HandlerFacts, Goes DEF Remembered
<1>2. /\ UNCHANGED <<hubVars, phone, answers, store, history, faults>>
      /\ At(r, "idle") /\ KeyOf[r] \in granted
  BY DEF Remembered, Comes
<1>3. TypeOK'
  BY <1>1, <1>2 DEF IInv, TypeOK, hubVars, answers, store, history, Handler
<1>4. QED
  BY <1>1, <1>2, <1>3, HandlerFacts, HandlerStep DEF hubVars, answers, store, history

LEMMA RejectIInv == ASSUME IInv, NEW r \in Requests, Reject(r) PROVE IInv'
<1>1. /\ handler' \in [Requests -> Handler]
      /\ handler'[r].pc = "done" /\ ~handler'[r].approved
      /\ \A q \in Requests : q # r => handler'[q] = handler[q]
  BY HandlerFacts, Goes DEF Reject
<1>2. /\ UNCHANGED <<hubVars, phone, answers, store, history>>
      /\ At(r, "idle") /\ faults < MaxFaults /\ faults' = faults + 1
  BY DEF Reject, Comes, Fault
<1>3. faults' \in 0..MaxFaults
  BY <1>2, BoundsAssumption DEF IInv, TypeOK
<1>4. TypeOK'
  BY <1>1, <1>2, <1>3 DEF IInv, TypeOK, hubVars, answers, store, history, Handler
<1>5. QED
  BY <1>1, <1>2, <1>4, HandlerFacts, HandlerStep DEF hubVars, answers, store, history

LEMMA RequestIInv == ASSUME IInv, NEW r \in Requests, Request(r) PROVE IInv'
<1>1. /\ handler' \in [Requests -> Handler]
      /\ handler'[r].pc = "waiting" /\ ~handler'[r].approved
      /\ \A q \in Requests : q # r => handler'[q] = handler[q]
  BY HandlerFacts, Goes DEF Request
<1>2. /\ UNCHANGED <<resolved, channel, phone, answers, store, history, faults>>
      /\ pending' = pending \cup {r} /\ generation' = generation + 1
      /\ At(r, "idle")
  BY DEF Request, Comes
<1>3. pending' \subseteq Requests /\ generation' \in Nat
  BY <1>2 DEF IInv, TypeOK
<1>4. TypeOK'
  BY <1>1, <1>2, <1>3 DEF IInv, TypeOK, answers, store, history, Handler
<1>5. QED
  BY <1>1, <1>2, <1>4, HandlerFacts, HandlerStep DEF answers, store, history

\* The answer in the channel is the one that was taken, in time.
LEMMA ReceiveIInv == ASSUME IInv, NEW r \in Requests, Receive(r) PROVE IInv'
<1>1. PICK a \in channel[r] : Goto(r, "closing", a)
  BY DEF Receive
<1>2. a \in BOOLEAN
  <2>1. channel[r] \in {{}, {TRUE}, {FALSE}}
    BY DEF IInv, TypeOK
  <2>2. QED
    BY <1>1, <2>1, Zenon
<1>3. /\ handler' \in [Requests -> Handler]
      /\ handler'[r].pc = "closing" /\ (handler'[r].approved <=> a)
      /\ \A q \in Requests : q # r => handler'[q] = handler[q]
  BY <1>1, <1>2, HandlerFacts, Goes
<1>4. /\ UNCHANGED <<pending, generation, resolved, phone, answers, store, history, faults>>
      /\ At(r, "waiting") /\ channel' = [channel EXCEPT ![r] = {}]
  BY DEF Receive
<1>5. channel' \in [Requests -> {{}, {TRUE}, {FALSE}}]
  BY <1>4 DEF IInv, TypeOK
<1>6. TypeOK'
  BY <1>3, <1>4, <1>5 DEF IInv, TypeOK, answers, store, history, Handler
<1>7. PICK d \in taken : d.id = r
  BY <1>1, <1>4 DEF IInv, ChannelTrue, At
<1>8. channel[r] = {d.approved} /\ r \notin late /\ d \in Decision
  BY <1>4, <1>7 DEF IInv, TypeOK, ChannelTrue, At
<1>9. a = d.approved
  BY <1>1, <1>8
<1>10. \A e \in taken : e.id = r => e = d
  BY <1>7 DEF IInv, TakenOnce
<1>11. r \notin pending
  BY <1>7 DEF IInv, TakenOnce
<1>12. a => KeyOf[r] \in Explained
  BY <1>7, <1>8, <1>9 DEF Explained, InTime
<1>13. \A e \in taken : e.id = r => (handler'[r].approved <=> e.approved /\ r \notin late)
  BY <1>3, <1>8, <1>9, <1>10
<1>14. \A q \in Requests : q # r => channel'[q] = channel[q]
  BY <1>4 DEF IInv, TypeOK
<1>15. QED
  BY <1>3, <1>4, <1>6, <1>11, <1>12, <1>13, <1>14, HandlerFacts, HandlerStep
  DEF answers, store, history

LEMMA TimeOutIInv == ASSUME IInv, NEW r \in Requests, TimeOut(r) PROVE IInv'
<1>1. /\ handler' \in [Requests -> Handler]
      /\ handler'[r].pc = "closing" /\ ~handler'[r].approved
      /\ \A q \in Requests : q # r => handler'[q] = handler[q]
  BY HandlerFacts, Goes DEF TimeOut
<1>2. /\ UNCHANGED <<hubVars, phone, answers, store, history, faults>>
      /\ At(r, "waiting") /\ channel[r] = {}
  BY DEF TimeOut
<1>3. TypeOK'
  BY <1>1, <1>2 DEF IInv, TypeOK, hubVars, answers, store, history, Handler
<1>4. QED
  BY <1>1, <1>2, <1>3, HandlerFacts, HandlerStep DEF hubVars, answers, store, history

\* What a handler does after it stopped waiting changes neither its answer nor,
\* off the queue, anybody else's.
LEMMA HandlerEnds ==
    ASSUME IInv, TypeOK', NEW r \in Requests,
           \A q \in Requests : q # r => handler'[q] = handler[q],
           taken' = taken, late' = late, applied' = applied, resolved' = resolved,
           \A q \in Requests : q # r => channel'[q] = channel[q],
           pending' = pending \ {r},
           handler[r].pc \in {"closing", "audit", "grant"},
           handler'[r].pc \in {"audit", "grant", "done"},
           handler'[r].pc # "done" => handler'[r].approved,
           handler'[r].approved <=> handler[r].approved,
           granted' \subseteq Explained
    PROVE  IInv'
<1>1. \A d \in taken : d.id = r => (handler'[r].approved <=> d.approved /\ r \notin late)
  BY DEF IInv, HandlerTrue
<1>2. \A q \in Requests : q # r => (q \in pending' <=> q \in pending)
  OBVIOUS
<1>3. QED
  BY <1>1, <1>2, HandlerFacts, HandlerStep

LEMMA CloseIInv == ASSUME IInv, NEW r \in Requests, Close(r) PROVE IInv'
<1>1. handler[r].approved \in BOOLEAN
  BY HandlerFacts
<1>2. PICK c \in {"audit", "done"} : /\ c = "audit" <=> handler[r].approved
                                    /\ Goto(r, c, handler[r].approved)
  BY <1>1 DEF Close
<1>3. /\ handler' \in [Requests -> Handler]
      /\ handler'[r].pc = c /\ (handler'[r].approved <=> handler[r].approved)
      /\ \A q \in Requests : q # r => handler'[q] = handler[q]
  BY <1>1, <1>2, HandlerFacts, Goes
<1>4. /\ UNCHANGED <<resolved, phone, answers, store, history, faults>>
      /\ At(r, "closing") /\ channel' = [channel EXCEPT ![r] = {}]
      /\ pending' = pending \ {r}
      /\ generation' = IF r \in pending THEN generation + 1 ELSE generation
  BY DEF Close
<1>5. /\ channel' \in [Requests -> {{}, {TRUE}, {FALSE}}]
      /\ \A q \in Requests : q # r => channel'[q] = channel[q]
  BY <1>4 DEF IInv, TypeOK
<1>6. pending' \subseteq Requests /\ generation' \in Nat
  BY <1>4 DEF IInv, TypeOK
<1>7. TypeOK'
  BY <1>3, <1>4, <1>5, <1>6 DEF IInv, TypeOK, answers, store, history, Handler
<1>8. QED
  BY <1>2, <1>3, <1>4, <1>5, <1>7, HandlerFacts, HandlerEnds
  DEF answers, store, history, At

LEMMA AuditIInv == ASSUME IInv, NEW r \in Requests, Audit(r) PROVE IInv'
<1>1. /\ handler' \in [Requests -> Handler]
      /\ handler'[r].pc = "grant" /\ handler'[r].approved
      /\ \A q \in Requests : q # r => handler'[q] = handler[q]
  BY HandlerFacts, Goes DEF Audit
<1>2. /\ UNCHANGED <<hubVars, phone, answers, history, faults>>
      /\ At(r, "audit") /\ handler[r].approved /\ r \notin pending
      /\ recorded' = recorded \cup {KeyOf[r]} /\ granted' = granted
  BY DEF Audit, Store!Commit, IInv, HandlerTrue, QueuedOpen, At
<1>3. KeyOf[r] \in Keys
  BY RequestsAssumption
<1>4. TypeOK'
  BY <1>1, <1>2, <1>3 DEF IInv, TypeOK, hubVars, answers, history, Handler
<1>5. QED
  BY <1>1, <1>2, <1>4, HandlerFacts, HandlerEnds DEF hubVars, answers, history, At

\* The grant goes back to the approval the handler has.
LEMMA GrantIInv == ASSUME IInv, NEW r \in Requests, Grant(r) PROVE IInv'
<1>1. /\ handler' \in [Requests -> Handler]
      /\ handler'[r].pc = "done" /\ handler'[r].approved
      /\ \A q \in Requests : q # r => handler'[q] = handler[q]
  BY HandlerFacts, Goes DEF Grant
<1>2. /\ UNCHANGED <<hubVars, phone, answers, history, faults>>
      /\ At(r, "grant") /\ handler[r].approved /\ r \notin pending
      /\ recorded' = recorded /\ granted' = granted \cup {KeyOf[r]}
  BY DEF Grant, Store!Commit, IInv, HandlerTrue, QueuedOpen, At
<1>3. KeyOf[r] \in Keys /\ granted' \subseteq Explained
  BY <1>2, RequestsAssumption, HandlerFacts
<1>4. TypeOK'
  BY <1>1, <1>2, <1>3 DEF IInv, TypeOK, hubVars, answers, history, Handler
<1>5. QED
  BY <1>1, <1>2, <1>3, <1>4, HandlerFacts, HandlerEnds DEF hubVars, answers, history, At

LEMMA PersistFailsIInv == ASSUME IInv, NEW r \in Requests, PersistFails(r) PROVE IInv'
<1>1. /\ handler' \in [Requests -> Handler]
      /\ handler'[r].pc = "done" /\ handler'[r].approved
      /\ \A q \in Requests : q # r => handler'[q] = handler[q]
  BY HandlerFacts, Goes DEF PersistFails
<1>2. /\ UNCHANGED <<hubVars, phone, answers, store, history>>
      /\ handler[r].pc \in {"audit", "grant"} /\ handler[r].approved /\ r \notin pending
      /\ faults < MaxFaults /\ faults' = faults + 1
  BY DEF PersistFails, Fault, IInv, HandlerTrue, QueuedOpen
<1>3. faults' \in 0..MaxFaults
  BY <1>2, BoundsAssumption DEF IInv, TypeOK
<1>4. TypeOK'
  BY <1>1, <1>2, <1>3 DEF IInv, TypeOK, hubVars, answers, store, history, Handler
<1>5. QED
  BY <1>1, <1>2, <1>4, HandlerFacts, HandlerEnds DEF hubVars, answers, store, history

LEMMA AnswerIInv == ASSUME IInv, NEW d \in Decision, Answer(d) PROVE IInv'
<1>1. /\ UNCHANGED <<hubVars, handler, phone, applied, store, history, faults>>
      /\ sent' = sent \cup {d}
  BY DEF Answer
<1>2. TypeOK'
  BY <1>1 DEF IInv, TypeOK, hubVars, store, history
<1>3. QED
  BY <1>1, <1>2, Quiet DEF hubVars, store, history

LEMMA MissIInv == ASSUME IInv, NEW d \in Decision, Miss(d) PROVE IInv'
<1>1. /\ UNCHANGED <<hubVars, handler, phone, applied, store, history, faults>>
      /\ sent' = sent \ {d}
  BY DEF Miss
<1>2. TypeOK'
  BY <1>1 DEF IInv, TypeOK, hubVars, store, history
<1>3. QED
  BY <1>1, <1>2, Quiet DEF hubVars, store, history

\* The first answer: no other was taken for the request, whose handler waits
\* still, or gave up and has the denial of a timeout.
LEMMA TakeIInv == ASSUME IInv, NEW d \in Decision, Take(d) PROVE IInv'
<1>1. PICK r \in Requests : r = d.id
  BY DEF Decision
<1>2. /\ r \in pending /\ pending' = pending \ {r}
      /\ sent' = sent \ {d} /\ applied' = applied \cup {d}
      /\ generation' = generation + 1
      /\ channel' = [channel EXCEPT ![r] = {d.approved}]
      /\ taken' = taken \cup {d}
      /\ late' = IF At(r, "waiting") THEN late ELSE late \cup {r}
      /\ UNCHANGED <<resolved, handler, phone, store, faults>>
  BY <1>1 DEF Take, Deliver
<1>3. \A e \in taken : e.id # r /\ e.id \in Requests
  BY <1>2, HandlerFacts DEF IInv, TypeOK, Decision
<1>4. r \notin late
  BY <1>3 DEF IInv, TakenOnce
<1>5. handler[r].pc \in {"waiting", "closing"} /\ ~handler[r].approved
  BY <1>2 DEF IInv, QueuedOpen
<1>6. {d.approved} \in {{}, {TRUE}, {FALSE}}
  <2>1. d.approved \in BOOLEAN
    BY DEF Decision
  <2>2. QED
    BY <2>1, Zenon
<1>7. /\ channel' \in [Requests -> {{}, {TRUE}, {FALSE}}]
      /\ channel'[r] = {d.approved}
      /\ \A q \in Requests : q # r => channel'[q] = channel[q]
  BY <1>2, <1>6 DEF IInv, TypeOK
<1>8. TypeOK'
  <2>1. generation' \in Nat /\ pending' \subseteq Requests
    BY <1>2 DEF IInv, TypeOK
  <2>2. taken' \subseteq Decision /\ late' \subseteq Requests
        /\ sent' \subseteq Decision /\ applied' \subseteq Decision
    BY <1>2 DEF IInv, TypeOK
  <2>3. QED
    BY <1>2, <1>7, <2>1, <2>2 DEF IInv, TypeOK, store
<1>9. QueuedOpen'
  BY <1>2 DEF IInv, QueuedOpen
<1>10. TakenOnce'
  <2>1. \A e, f \in taken' : e.id = f.id => e = f
    BY <1>1, <1>2, <1>3 DEF IInv, TakenOnce
  <2>2. \A e \in taken' : e.id \notin pending' /\ ~At(e.id, "idle")'
    BY <1>1, <1>2, <1>5 DEF IInv, TakenOnce, At
  <2>3. applied' \subseteq taken' /\ \A i \in DOMAIN resolved' : resolved'[i] \in taken'
    BY <1>2 DEF IInv, TakenOnce
  <2>4. \A q \in late' : \E e \in taken' : e.id = q
    BY <1>1, <1>2 DEF IInv, TakenOnce
  <2>5. QED
    BY <2>1, <2>2, <2>3, <2>4 DEF TakenOnce
<1>11. ChannelTrue'
  <2> SUFFICES ASSUME NEW q \in Requests, handler[q].pc \in {"idle", "waiting"}
               PROVE  /\ \A e \in taken' : e.id = q =>
                            channel'[q] = {e.approved} /\ q \notin late'
                      /\ channel'[q] # {} => \E e \in taken' : e.id = q
    BY <1>2 DEF ChannelTrue
  <2>1. CASE q = r
    BY <2>1, <1>1, <1>2, <1>3, <1>4, <1>5, <1>7 DEF At
  <2>2. CASE q # r
    BY <2>2, <1>1, <1>2, <1>7 DEF IInv, ChannelTrue, At
  <2>3. QED
    BY <2>1, <2>2
<1>12. HandlerTrue'
  <2>1. ASSUME NEW e \in taken', handler[e.id].pc \in {"closing", "audit", "grant", "done"}
        PROVE  handler[e.id].approved <=> e.approved /\ e.id \notin late'
    <3>1. CASE e = d
      BY <3>1, <2>1, <1>1, <1>2, <1>5 DEF At
    <3>2. CASE e # d
      BY <3>2, <2>1, <1>1, <1>2, <1>3 DEF IInv, HandlerTrue
    <3>3. QED
      BY <3>1, <3>2
  <2>2. QED
    BY <1>2, <2>1 DEF IInv, HandlerTrue
<1>13. GrantsApproved'
  <2>1. InTime \subseteq InTime'
    BY <1>2, <1>3 DEF InTime
  <2>2. Explained \subseteq Explained'
    BY <2>1 DEF Explained
  <2>3. QED
    BY <1>2, <2>2 DEF IInv, GrantsApproved, Explained, store
<1>14. QED
  BY <1>8, <1>9, <1>10, <1>11, <1>12, <1>13 DEF IInv

\* The decision store keeps what it had, from some place on, and the new one.
LEMMA ResolveIInv == ASSUME IInv, NEW d \in Decision, Resolve(d) PROVE IInv'
<1>1. PICK n \in 0..Len(resolved) :
         resolved' = Append(Kept(SubSeq(resolved, n + 1, Len(resolved))), d)
  BY DEF Resolve
<1>2. /\ d \in applied /\ applied' = applied \ {d}
      /\ UNCHANGED <<pending, generation, channel, handler, phone, sent, store, history,
                     faults>>
  BY DEF Resolve
<1>3. resolved \in Seq(Decision) /\ Len(resolved) <= ResolvedCap
  BY DEF IInv, TypeOK
<1> DEFINE left == SubSeq(resolved, n + 1, Len(resolved))
<1>4. /\ left \in Seq(Decision) /\ Len(left) = Len(resolved) - n
      /\ \A i \in 1..Len(left) : left[i] = resolved[n + i]
  BY <1>3
<1>5. resolved' = Append(Kept(left), d)
  BY <1>1
<1> HIDE DEF left
<1>6. /\ Kept(left) \in Seq(Decision) /\ Len(Kept(left)) < ResolvedCap
      /\ \A i \in 1..Len(Kept(left)) : \E j \in 1..Len(resolved) : Kept(left)[i] = resolved[j]
  <2>1. CASE Len(left) >= ResolvedCap
    <3>1. Kept(left) = Tail(left) /\ Len(left) \in Nat \ {0}
      BY <2>1, <1>4, BoundsAssumption DEF Kept
    <3>2. /\ Tail(left) \in Seq(Decision) /\ Len(Tail(left)) = Len(left) - 1
          /\ \A i \in 1..Len(Tail(left)) : Tail(left)[i] = left[i + 1]
      BY <3>1, <1>4
    <3>3. \A i \in 1..Len(Tail(left)) : Tail(left)[i] = resolved[n + i + 1]
                                        /\ n + i + 1 \in 1..Len(resolved)
      BY <3>2, <1>3, <1>4
    <3>4. Len(Tail(left)) < ResolvedCap
      BY <3>2, <1>3, <1>4, BoundsAssumption
    <3>5. QED
      BY <3>1, <3>2, <3>3, <3>4
  <2>2. CASE ~(Len(left) >= ResolvedCap)
    <3>1. Kept(left) = left
      BY <2>2 DEF Kept
    <3>2. \A i \in 1..Len(left) : n + i \in 1..Len(resolved)
      BY <1>3, <1>4
    <3>3. QED
      BY <2>2, <3>1, <3>2, <1>3, <1>4, BoundsAssumption
  <2>3. QED
    BY <2>1, <2>2
<1>7. /\ resolved' \in Seq(Decision) /\ Len(resolved') <= ResolvedCap
      /\ \A i \in 1..Len(resolved') :
            resolved'[i] = d \/ \E j \in 1..Len(resolved) : resolved'[i] = resolved[j]
  <2> DEFINE kept == Kept(left)
  <2>1. resolved' = Append(kept, d) /\ kept \in Seq(Decision)
    BY <1>5, <1>6
  <2>2. \A i \in 1..Len(kept) : \E j \in 1..Len(resolved) : kept[i] = resolved[j]
    BY <1>6
  <2>3. Len(kept) < ResolvedCap
    BY <1>6
  <2> HIDE DEF kept
  <2>4. QED
    BY <2>1, <2>2, <2>3, BoundsAssumption
<1>8. TypeOK'
  BY <1>2, <1>7 DEF IInv, TypeOK, store, history
<1>9. TakenOnce'
  <2>1. \A i \in DOMAIN resolved' : resolved'[i] \in taken'
    BY <1>2, <1>3, <1>7 DEF IInv, TakenOnce, history
  <2>2. QED
    BY <2>1, <1>2 DEF IInv, TakenOnce, history, At
<1>10. QueuedOpen' /\ ChannelTrue' /\ HandlerTrue'
  BY <1>2 DEF IInv, QueuedOpen, ChannelTrue, HandlerTrue, history
<1>11. GrantsApproved'
  BY <1>2 DEF IInv, GrantsApproved, InTime, history, store
<1>12. QED
  BY <1>8, <1>9, <1>10, <1>11 DEF IInv

LEMMA RefreshIInv == ASSUME IInv, NEW p \in Phones, Refresh(p) PROVE IInv'
<1>1. UNCHANGED <<hubVars, handler, answers, store, history, faults>>
  BY DEF Refresh, Wake, PollTimeOut, List, ReadGeneration
<1>2. phone' \in [Phones -> [pc : {"waiting", "awake", "listed"},
                             list : SUBSET Requests, gen : Nat]]
  <2>1. /\ pending \subseteq Requests /\ generation \in Nat
        /\ phone \in [Phones -> [pc : {"waiting", "awake", "listed"},
                                 list : SUBSET Requests, gen : Nat]]
    BY DEF IInv, TypeOK
  <2>2. CASE Wake(p) \/ PollTimeOut(p)
    BY <2>1, <2>2 DEF Wake, PollTimeOut
  <2>3. CASE List(p)
    BY <2>1, <2>3 DEF List
  <2>4. CASE ReadGeneration(p)
    BY <2>1, <2>4 DEF ReadGeneration
  <2>5. QED
    BY <2>2, <2>3, <2>4 DEF Refresh
<1>3. TypeOK'
  BY <1>1, <1>2 DEF IInv, TypeOK, hubVars, answers, store, history
<1>4. QED
  BY <1>1, <1>3, Quiet DEF hubVars, answers, store, history

LEMMA RestartIInv == ASSUME IInv, Restart PROVE IInv'
<1>1. /\ pending' = {} /\ generation' = 0 /\ resolved' = <<>> /\ sent' = {} /\ applied' = {}
      /\ channel' = [r \in Requests |-> {}]
      /\ UNCHANGED history /\ recorded' = recorded /\ granted' \subseteq granted
      /\ faults < MaxFaults /\ faults' = faults + 1
  BY DEF Restart, Store!Commit, Fault
<1>2. \A r \in Requests :
         /\ handler[r].pc \in {"idle", "done"} => handler'[r] = handler[r]
         /\ handler[r].pc \notin {"idle", "done"} =>
               handler'[r].pc = "lost" /\ ~handler'[r].approved
  BY DEF Restart
<1>3. handler' \in [Requests -> Handler]
  <2>1. handler \in [Requests -> Handler]
    BY DEF IInv, TypeOK, Handler
  <2>2. [pc |-> "lost", approved |-> FALSE] \in Handler
    BY DEF Handler
  <2>3. QED
    BY <2>1, <2>2 DEF Restart
<1>4. phone' \in [Phones -> [pc : {"waiting", "awake", "listed"},
                             list : SUBSET Requests, gen : Nat]]
  BY DEF IInv, TypeOK, Restart
<1>5. TypeOK'
  <2>1. faults' \in 0..MaxFaults
    BY <1>1, BoundsAssumption DEF IInv, TypeOK
  <2>2. resolved' \in Seq(Decision) /\ Len(resolved') <= ResolvedCap
    BY <1>1, BoundsAssumption
  <2>3. QED
    BY <1>1, <1>3, <1>4, <2>1, <2>2 DEF IInv, TypeOK, history, Handler
<1>6. \A d \in taken : d.id \in Requests
  BY DEF IInv, TypeOK, Decision
<1>7. QueuedOpen'
  BY <1>1 DEF QueuedOpen
<1>8. TakenOnce'
  <2>1. \A d \in taken : handler'[d.id].pc # "idle"
    BY <1>2, <1>6 DEF IInv, TakenOnce, At
  <2>2. QED
    BY <1>1, <2>1 DEF IInv, TakenOnce, At, history
<1>9. ChannelTrue'
  <2>1. \A r \in Requests : handler'[r].pc \in {"idle", "waiting"} => At(r, "idle")
    BY <1>2 DEF At
  <2>2. QED
    BY <1>1, <2>1, <1>6 DEF IInv, ChannelTrue, TakenOnce, history, At
<1>10. HandlerTrue'
  BY <1>1, <1>2, <1>6 DEF IInv, HandlerTrue, history
<1>11. GrantsApproved'
  <2>1. \A r \in Requests : handler'[r].approved => handler[r].approved
    BY <1>2
  <2>2. QED
    BY <1>1, <2>1 DEF IInv, GrantsApproved, InTime, history
<1>12. QED
  BY <1>5, <1>7, <1>8, <1>9, <1>10, <1>11 DEF IInv

LEMMA NextIInv == IInv /\ [Next]_vars => IInv'
<1> SUFFICES ASSUME IInv, [Next]_vars PROVE IInv'
  OBVIOUS
<1>1. ASSUME NEW r \in Requests,
             \/ Remembered(r) \/ Reject(r) \/ Request(r) \/ TimeOut(r)
             \/ Finish(r) \/ PersistFails(r)
      PROVE  IInv'
  BY <1>1, RememberedIInv, RejectIInv, RequestIInv, TimeOutIInv, ReceiveIInv, CloseIInv,
     AuditIInv, GrantIInv, PersistFailsIInv DEF Finish
<1>2. ASSUME NEW d \in Decision, Answer(d) \/ Respond(d)
      PROVE  IInv'
  BY <1>2, AnswerIInv, TakeIInv, ResolveIInv, MissIInv DEF Respond
<1>3. CASE Restart
  BY <1>3, RestartIInv
<1>4. CASE UNCHANGED vars
  <2>1. TypeOK'
    BY <1>4 DEF IInv, TypeOK, vars, hubVars, answers, store, history
  <2>2. QED
    BY <1>4, <2>1, Quiet DEF vars, hubVars, answers, store, history
<1>5. QED
  BY <1>1, <1>2, <1>3, <1>4, RefreshIInv DEF Next

\* IInv holds in every state the hub can reach.
THEOREM Inductive == Spec => []IInv
  BY InitIInv, NextIInv, PTL DEF Spec

\* The type invariant, which bounds the decision store (ResolvedStore::insert).
THEOREM HubTyped == Spec => []TypeOK
<1>1. IInv => TypeOK
  BY DEF IInv
<1>2. QED
  BY <1>1, Inductive, PTL

\* The first answer to a request wins (ApprovalHub::answer): none other is
\* applied to it, and no retry is told another decision.
THEOREM FirstWins == Spec => []FirstAnswerWins
<1>1. IInv => FirstAnswerWins
  BY DEF IInv, TakenOnce, FirstAnswerWins
<1>2. QED
  BY <1>1, Inductive, PTL

\* What a handler ends with is the answer that was taken in time, or a denial
\* (ApprovalHub::request).
THEOREM TheAnswerReaches == Spec => []AnswerReaches
<1>1. IInv => AnswerReaches
  <2> SUFFICES ASSUME IInv, NEW d \in taken,
                      handler[d.id].pc \in {"audit", "grant", "done"}
               PROVE  handler[d.id].approved = (d.approved /\ d.id \notin late)
    BY DEF AnswerReaches
  <2>1. handler[d.id].approved \in BOOLEAN
    BY DEF IInv, TypeOK, Decision
  <2>2. handler[d.id].approved <=> d.approved /\ d.id \notin late
    BY DEF IInv, HandlerTrue
  <2>3. QED
    BY <2>1, <2>2, Zenon
<1>2. QED
  BY <1>1, Inductive, PTL

\* Nothing is granted, remembered or passed on as approved without an approving
\* answer in time or a grant from before (persist_grant, already_granted).
THEOREM GrantsAreApproved == Spec => []GrantsApproved
<1>1. IInv => GrantsApproved
  BY DEF IInv
<1>2. QED
  BY <1>1, Inductive, PTL
=============================================================================
