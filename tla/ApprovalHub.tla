----------------------------- MODULE ApprovalHub -----------------------------
(***************************************************************************)
(* The approval hub (approvals.rs): an agent's request blocks a handler     *)
(* thread of the hook listener, is shown on the paired phones, which poll,  *)
(* and the first answer wins.  What is approved is remembered in the grant  *)
(* store, of which only the promise AuditedGrants is used here.             *)
(***************************************************************************)
EXTENDS Naturals, Sequences, FiniteSets

CONSTANTS
    MaxRequests,  \* bound on the requests, which are named in the order they come
    KeyOf,        \* the grant that each request is about
    Keys,         \* grant keys
    Legacy,       \* grants from before the audit log
    Phones,       \* paired devices that poll
    MaxAnswers,   \* bound on the answers under way at the same time
    ResolvedCap,  \* RESOLVED_CAP
    Faults,       \* which faults happen
    MaxFaults     \* bound on the faults

Requests == 1..MaxRequests
ASSUME RequestsAssumption == MaxRequests \in Nat /\ KeyOf \in [Requests -> Keys]
ASSUME BoundsAssumption ==
    /\ ResolvedCap \in Nat \ {0} /\ MaxAnswers \in Nat /\ MaxFaults \in Nat
    /\ Legacy \subseteq Keys
ASSUME FaultsAssumption == Faults \subseteq {"restart", "disk", "reject"}

VARIABLES
    pending,     \* ids of the queued requests; nothing depends on their order
    generation,  \* number of changes of the queue
    resolved,    \* ResolvedStore: decisions, oldest first
    channel,     \* per request: the answer sent to its handler
    handler,     \* per request: its handler
    phone,       \* per phone: its poll, the requests it shows, the generation
    sent,        \* answers that are on their way to the queue
    applied,     \* answers that left the queue and are not in resolved yet
    recorded,    \* keys with a durable audit entry
    granted,     \* keys of the durable grants.json
    taken,       \* history: answers that took a request off the queue
    late,        \* history: requests answered when their handler no longer waited
    faults

hubVars == <<pending, generation, resolved, channel>>
store == <<recorded, granted>>
history == <<taken, late>>
answers == <<sent, applied>>
vars == <<hubVars, handler, phone, answers, store, history, faults>>

Store == INSTANCE AuditedGrants WITH wiped <- {}

Decision == [id : Requests, approved : BOOLEAN]

Init ==
    /\ pending = {} /\ generation = 0 /\ resolved = <<>>
    /\ channel = [r \in Requests |-> {}]
    /\ handler = [r \in Requests |-> [pc |-> "idle", approved |-> FALSE]]
    /\ phone = [p \in Phones |-> [pc |-> "waiting", list |-> {}, gen |-> 0]]
    /\ sent = {} /\ applied = {}
    /\ Store!Init
    /\ taken = {} /\ late = {}
    /\ faults = 0

Fault(kind) == kind \in Faults /\ faults < MaxFaults /\ faults' = faults + 1
At(r, pc) == handler[r].pc = pc
Goto(r, pc, approved) ==
    handler' = [handler EXCEPT ![r] = [pc |-> pc, approved |-> approved]]

-----------------------------------------------------------------------------
(* A handler: already_granted, ApprovalHub::request, persist_grant.          *)

Comes(r) == At(r, "idle") /\ \A q \in 1..r - 1 : ~At(q, "idle")

Remembered(r) ==
    /\ Comes(r)
    /\ KeyOf[r] \in granted
    /\ Goto(r, "done", TRUE)
    /\ UNCHANGED <<hubVars, phone, answers, store, history, faults>>

\* A BeforeSubmit hook rejects the request.
Reject(r) ==
    /\ Comes(r)
    /\ KeyOf[r] \notin granted
    /\ Fault("reject")
    /\ Goto(r, "done", FALSE)
    /\ UNCHANGED <<hubVars, phone, answers, store, history>>

Request(r) ==
    /\ Comes(r)
    /\ KeyOf[r] \notin granted
    /\ pending' = pending \cup {r}
    /\ generation' = generation + 1
    /\ Goto(r, "waiting", FALSE)
    /\ UNCHANGED <<resolved, channel, phone, answers, store, history, faults>>

Receive(r) ==
    /\ At(r, "waiting")
    /\ \E a \in channel[r] : Goto(r, "closing", a)
    /\ channel' = [channel EXCEPT ![r] = {}]
    /\ UNCHANGED <<pending, generation, resolved, phone, answers, store, history, faults>>

\* Mutant: an answer that has arrived is overlooked.
TimeOutBlind(r) ==
    /\ At(r, "waiting")
    /\ Goto(r, "closing", FALSE)
    /\ UNCHANGED <<hubVars, phone, answers, store, history, faults>>

\* No answer in time: denied.  The request is still queued.
TimeOut(r) ==
    /\ At(r, "waiting")
    /\ channel[r] = {}
    /\ Goto(r, "closing", FALSE)
    /\ UNCHANGED <<hubVars, phone, answers, store, history, faults>>

\* Mutant: what was denied is remembered too.
CloseGranting(r) ==
    /\ At(r, "closing")
    /\ pending' = pending \ {r}
    /\ generation' = IF r \in pending THEN generation + 1 ELSE generation
    /\ Goto(r, "audit", handler[r].approved)
    /\ channel' = [channel EXCEPT ![r] = {}]
    /\ UNCHANGED <<resolved, phone, answers, store, history, faults>>

Close(r) ==
    /\ At(r, "closing")
    /\ pending' = pending \ {r}
    /\ generation' = IF r \in pending THEN generation + 1 ELSE generation
    /\ Goto(r, IF handler[r].approved THEN "audit" ELSE "done", handler[r].approved)
    /\ channel' = [channel EXCEPT ![r] = {}]
    /\ UNCHANGED <<resolved, phone, answers, store, history, faults>>

\* The grant writer makes the audit entry durable, then the grant.
Audit(r) ==
    /\ At(r, "audit")
    /\ Store!Commit({KeyOf[r]}, {}, {})
    /\ Goto(r, "grant", TRUE)
    /\ UNCHANGED <<hubVars, phone, answers, history, faults>>

Grant(r) ==
    /\ At(r, "grant")
    /\ Store!Commit({}, {KeyOf[r]}, {})
    /\ Goto(r, "done", TRUE)
    /\ UNCHANGED <<hubVars, phone, answers, history, faults>>

\* The grant writer reports an error, which is only logged.
PersistFails(r) ==
    /\ handler[r].pc \in {"audit", "grant"}
    /\ Fault("disk")
    /\ Goto(r, "done", TRUE)
    /\ UNCHANGED <<hubVars, phone, answers, store, history>>

-----------------------------------------------------------------------------
(* ApprovalHub::answer.                                                     *)

Known(r) == \E i \in DOMAIN resolved : resolved[i].id = r

\* Somebody answers what a phone shows, or sends an answer again.  A request
\* that is resolved gets its decision back, AlreadyResolved, at once.
Answer(d) ==
    /\ Cardinality(sent \cup applied) < MaxAnswers
    /\ \E p \in Phones : d.id \in phone[p].list
    /\ ~Known(d.id)
    /\ sent' = sent \cup {d}
    /\ UNCHANGED <<hubVars, handler, phone, applied, store, history, faults>>

\* The answer is sent to the handler, which may have given up just now.
Deliver(d) ==
    /\ sent' = sent \ {d}
    /\ applied' = applied \cup {d}
    /\ generation' = generation + 1
    /\ channel' = [channel EXCEPT ![d.id] = {d.approved}]
    /\ taken' = taken \cup {d}
    /\ late' = IF At(d.id, "waiting") THEN late ELSE late \cup {d.id}
    /\ UNCHANGED <<resolved, handler, phone, store, faults>>

\* Mutant: the request stays queued.
TakeKept(d) ==
    /\ d \in sent /\ d.id \in pending
    /\ Deliver(d)
    /\ UNCHANGED pending

\* The first answer, under the lock of the queue.
Take(d) ==
    /\ d \in sent /\ d.id \in pending
    /\ pending' = pending \ {d.id}
    /\ Deliver(d)

\* Room for one more decision.
Kept(seq) == IF Len(seq) >= ResolvedCap THEN Tail(seq) ELSE seq

\* ResolvedStore::insert: the oldest decisions may have expired.
Resolve(d) ==
    /\ d \in applied
    /\ \E n \in 0..Len(resolved) :
          resolved' = Append(Kept(SubSeq(resolved, n + 1, Len(resolved))), d)
    /\ applied' = applied \ {d}
    /\ UNCHANGED <<pending, generation, channel, handler, phone, sent, store, history, faults>>

\* Somebody else was first: the answer is AlreadyResolved with the decision that
\* is known by now, or NotFound.
Miss(d) ==
    /\ d \in sent /\ d.id \notin pending
    /\ sent' = sent \ {d}
    /\ UNCHANGED <<hubVars, handler, phone, applied, store, history, faults>>

-----------------------------------------------------------------------------
(* The bootstrap request of a phone, which waits for a new generation.       *)

\* wait_for_generation_change returns at once or is woken.
Wake(p) ==
    /\ phone[p].pc = "waiting"
    /\ generation # phone[p].gen
    /\ phone' = [phone EXCEPT ![p].pc = "awake"]
    /\ UNCHANGED <<hubVars, handler, answers, store, history, faults>>

\* Mutant: a wait that times out answers that nothing has changed.
PollTimeOutEmpty(p) ==
    /\ phone[p].pc = "waiting"
    /\ UNCHANGED vars

PollTimeOut(p) ==
    /\ phone[p].pc = "waiting"
    /\ phone' = [phone EXCEPT ![p].pc = "awake"]
    /\ UNCHANGED <<hubVars, handler, answers, store, history, faults>>

\* The queue is read first, the generation after it.
List(p) ==
    /\ phone[p].pc = "awake"
    /\ phone' = [phone EXCEPT ![p].pc = "listed", ![p].list = pending]
    /\ UNCHANGED <<hubVars, handler, answers, store, history, faults>>

ReadGeneration(p) ==
    /\ phone[p].pc = "listed"
    /\ phone' = [phone EXCEPT ![p].pc = "waiting", ![p].gen = generation]
    /\ UNCHANGED <<hubVars, handler, answers, store, history, faults>>

-----------------------------------------------------------------------------
(* The host restarts: the hub is empty again, the agents' requests are lost, *)
(* the grants are reconciled, and the phones show what they showed.          *)

Restart ==
    /\ Fault("restart")
    /\ pending' = {} /\ generation' = 0 /\ resolved' = <<>>
    /\ channel' = [r \in Requests |-> {}]
    /\ handler' = [r \in Requests |-> IF handler[r].pc \in {"idle", "done"} THEN handler[r]
                                      ELSE [pc |-> "lost", approved |-> FALSE]]
    /\ phone' = [p \in Phones |-> [phone[p] EXCEPT !.pc = "waiting"]]
    /\ sent' = {} /\ applied' = {}
    /\ Store!Commit({}, {}, Legacy \ recorded)
    /\ UNCHANGED history

Finish(r) == Receive(r) \/ Close(r) \/ Audit(r) \/ Grant(r)
Respond(d) == Take(d) \/ Resolve(d) \/ Miss(d)
Refresh(p) == Wake(p) \/ PollTimeOut(p) \/ List(p) \/ ReadGeneration(p)

Next ==
    \/ \E r \in Requests :
          \/ Remembered(r) \/ Reject(r) \/ Request(r) \/ TimeOut(r)
          \/ Finish(r) \/ PersistFails(r)
    \/ \E d \in Decision : Answer(d) \/ Respond(d)
    \/ \E p \in Phones : Refresh(p)
    \/ Restart

\* The handlers run and the phones keep polling; nobody need answer, and the
\* two minutes after which a request is denied are not relied on.
Fairness ==
    /\ \A r \in Requests : WF_vars(Finish(r))
    /\ \A p \in Phones : WF_vars(Refresh(p))

Spec == Init /\ [][Next]_vars /\ Fairness

-----------------------------------------------------------------------------
(* Properties.                                                              *)

\* Every variable has its type, and no more than ResolvedCap decisions are kept
\* (ResolvedStore).
TypeOK ==
    /\ pending \subseteq Requests /\ generation \in Nat
    /\ resolved \in Seq(Decision) /\ Len(resolved) <= ResolvedCap
    /\ channel \in [Requests -> {{}, {TRUE}, {FALSE}}]
    /\ handler \in [Requests -> [pc : {"idle", "waiting", "closing", "audit", "grant",
                                       "done", "lost"}, approved : BOOLEAN]]
    /\ phone \in [Phones -> [pc : {"waiting", "awake", "listed"},
                             list : SUBSET Requests, gen : Nat]]
    /\ sent \subseteq Decision /\ applied \subseteq Decision
    /\ recorded \subseteq Keys /\ granted \subseteq Keys
    /\ taken \subseteq Decision /\ late \subseteq Requests
    /\ faults \in 0..MaxFaults

\* The first answer wins: no other is ever applied to the request, and whoever
\* answers it again is told that decision (what ResolvedStore holds) or none.
FirstAnswerWins ==
    \A d, e \in taken \cup {resolved[i] : i \in DOMAIN resolved} :
        d.id = e.id => d = e

\* The decision that was taken is the one the agent gets, unless it came when
\* the handler had given up: then the agent is denied, whatever the answer.
AnswerReaches ==
    \A d \in taken : handler[d.id].pc \in {"audit", "grant", "done"} =>
        handler[d.id].approved = (d.approved /\ d.id \notin late)

\* The answers that approved a request whose handler still waited.
InTime == {d \in taken : d.approved /\ d.id \notin late}

\* Every remembered grant goes back to an answer that approved it in time, and
\* whoever is approved got such an answer or had a remembered grant.
GrantsApproved ==
    /\ granted \subseteq Legacy \cup {KeyOf[d.id] : d \in InTime}
    /\ \A r \in Requests : handler[r].approved =>
          KeyOf[r] \in Legacy \cup {KeyOf[d.id] : d \in InTime}

\* A request that stays queued appears on every phone, although a phone may
\* have noted its generation without having listed it, or have noted the same
\* generation before a restart.
Shown == \A r \in Requests, p \in Phones :
            r \in pending ~> r \in phone[p].list \/ r \notin pending
=============================================================================
