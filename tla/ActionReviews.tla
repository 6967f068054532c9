---------------------------- MODULE ActionReviews ----------------------------
(***************************************************************************)
(* The action-review log of a session (action_reviews.rs): one file of      *)
(* hash-chained lines, written by the tool calls of several processes under *)
(* an advisory lock, marked by turn cancels (handle_turn_cancel in          *)
(* mobile.rs) and rewritten once by `supercli migrate`.                     *)
(*                                                                          *)
(* A process may be killed anywhere; the machine may lose power, and with   *)
(* it what was not fsynced; a write may end early when the disk is full.    *)
(*                                                                          *)
(* A hash is modelled by what it commits to: the contents of the line and   *)
(* of every line before it.  A line written before there was a chain has    *)
(* the empty hash, which reads as the genesis hash, as in the code.         *)
(***************************************************************************)
EXTENDS Naturals, Sequences, FiniteSets, FiniteSetsExt

CONSTANTS
    Callers,      \* processes that make tool calls
    Cancellers,   \* requests that cancel a turn
    Migrators,    \* runs of `supercli migrate`
    Nobody,       \* no holder of the lock
    OldReviews,   \* number of lines of a log from before the chain
    MaxReviews,   \* bound on the reviews
    Faults,       \* which faults happen: kills, power losses, failed writes
    Tears,        \* what a write cut short leaves of its line
    MaxFaults     \* bound on the faults

Procs == Callers \cup Cancellers \cup Migrators

ASSUME ProcsAssumption == Nobody \notin Procs
ASSUME RolesAssumption ==
    /\ Callers \cap Cancellers = {}
    /\ Migrators \cap (Callers \cup Cancellers) = {}
ASSUME LogBounds ==
    /\ OldReviews \in Nat /\ MaxReviews \in Nat /\ MaxFaults \in Nat
    /\ OldReviews <= MaxReviews
ASSUME LogFaults ==
    /\ Faults \subseteq {"kill", "power", "write"}
    /\ Tears \subseteq {"partial", "newline"}

VARIABLES
    log,       \* the lines of action-reviews.jsonl
    cut,       \* the last line lacks its newline
    synced,    \* number of lines that survive a power loss
    lock,      \* holder of the flock
    job,       \* per process: where it stands
    ids,       \* number of review ids given out
    faults,
    acked,     \* history: entries whose writer was told they are durable
    sent,      \* history: reviews whose call was sent
    glued      \* history: entries whose line an append made part of a longer one

vars == <<log, cut, synced, lock, job, ids, faults, acked, sent, glued>>

Decisions == {"approved", "denied"}
Outcomes == {"executed", "ambiguous", "never_ran"}

Reviews == 1..MaxReviews
Content == [review : Reviews, kind : Decisions \cup Outcomes]
Genesis == <<>>

\* A line: what it says, the hash it links to and its own.
Line == [said : Content, prev : Seq(Content), hash : Seq(Content)]

\* A line no JSON parser accepts.
Unreadable == [said |-> [review |-> 0, kind |-> "unreadable"],
               prev |-> Genesis, hash |-> Genesis]

LineOf(said, prev) == [said |-> said, prev |-> prev, hash |-> Append(prev, said)]

OldLine(r) == [said |-> [review |-> r, kind |-> "approved"],
               prev |-> Genesis, hash |-> Genesis]

\* What a process is at: the entry it writes (review 0 before it has an id) and
\* the hash it links to; the reviews a cancel has still to mark; the lines a
\* migration has scanned.
Job == [pc : {"idle", "lock", "read", "write", "sync", "reviewed", "sent",
              "marking", "rename"},
        said : [review : 0..MaxReviews, kind : Decisions \cup Outcomes],
        prev : Seq(Content), todo : SUBSET Reviews, scan : Seq(Line)]

Idle == [pc |-> "idle", said |-> [review |-> 0, kind |-> "approved"],
         prev |-> Genesis, todo |-> {}, scan |-> <<>>]

Init ==
    /\ log = [r \in 1..OldReviews |-> OldLine(r)]
    /\ cut = FALSE
    /\ synced = OldReviews
    /\ lock = Nobody
    /\ job = [p \in Procs |-> Idle]
    /\ ids = OldReviews
    /\ faults = 0
    /\ acked = {OldLine(r).said : r \in 1..OldReviews}
    /\ sent = {}
    /\ glued = {}

-----------------------------------------------------------------------------
(* Reading the log.                                                         *)

Readable(line) == line # Unreadable
AllReadable == \A i \in DOMAIN log : Readable(log[i])
Entries == {log[i].said : i \in {j \in DOMAIN log : Readable(log[j])}}
HasReview(r) == \E k \in Decisions : [review |-> r, kind |-> k] \in Entries
HasOutcome(r) == \E k \in Outcomes : [review |-> r, kind |-> k] \in Entries

\* last_entry_hash, of a log whose last line is readable.
TailHash == IF log = <<>> THEN Genesis ELSE log[Len(log)].hash

\* inflight_reviews: approved and without an outcome.
Inflight == {r \in Reviews : [review |-> r, kind |-> "approved"] \in Entries
                             /\ ~HasOutcome(r)}

-----------------------------------------------------------------------------
(* Writing one entry: record_review and record_attempt_outcome.             *)

At(p, pc) == job[p].pc = pc
Goto(p, pc) == job' = [job EXCEPT ![p].pc = pc]
Fault(kind) == kind \in Faults /\ faults < MaxFaults /\ faults' = faults + 1

\* Mutant: a cancel goes on when it could not record an outcome.
AfterCareless(p, answer) ==
    IF p \in Cancellers
    THEN [job[p] EXCEPT !.pc = "marking", !.todo = @ \ {job[p].said.review}]
    ELSE IF answer = "ok" /\ job[p].said.kind = "approved"
         THEN [job[p] EXCEPT !.pc = "reviewed"] ELSE Idle

\* What a process does with the answer: a call goes ahead on a durable
\* approval only; a cancel goes on to its next review unless a write failed.
After(p, answer) ==
    IF p \in Cancellers
    THEN IF answer = "error" THEN Idle
         ELSE [job[p] EXCEPT !.pc = "marking", !.todo = @ \ {job[p].said.review}]
    ELSE IF answer = "ok" /\ job[p].said.kind = "approved"
         THEN [job[p] EXCEPT !.pc = "reviewed"] ELSE Idle

Return(p, answer) ==
    /\ lock' = Nobody
    /\ job' = [job EXCEPT ![p] = After(p, answer)]

\* Mutant: the lock does not exclude.
AcquireShared(p) ==
    /\ At(p, "lock")
    /\ lock' = p
    /\ Goto(p, IF p \in Migrators THEN "rename" ELSE "read")
    /\ UNCHANGED <<log, cut, synced, ids, faults, acked, sent, glued>>

\* LogLock::acquire.
Acquire(p) ==
    /\ At(p, "lock")
    /\ lock = Nobody
    /\ lock' = p
    /\ Goto(p, IF p \in Migrators THEN "rename" ELSE "read")
    /\ UNCHANGED <<log, cut, synced, ids, faults, acked, sent, glued>>

\* Mutant: a call whose review timed out on the lock goes ahead without one.
LockTimeoutOpen(p) ==
    /\ At(p, "lock")
    /\ lock # Nobody
    /\ job' = [job EXCEPT ![p] =
                  IF p \in Callers THEN [@ EXCEPT !.pc = "reviewed"]
                                   ELSE After(p, "error")]
    /\ UNCHANGED <<log, cut, synced, lock, ids, faults, acked, sent, glued>>

\* The lock stayed contended for 30 seconds: fail closed.
LockTimeout(p) ==
    /\ At(p, "lock")
    /\ lock # Nobody
    /\ job' = [job EXCEPT ![p] = After(p, "error")]
    /\ UNCHANGED <<log, cut, synced, lock, ids, faults, acked, sent, glued>>

\* A review parses the last line only; an outcome parses them all, wants its
\* review there and no outcome of it yet.
ReadFails(said) ==
    IF said.kind \in Decisions
    THEN log # <<>> /\ ~Readable(log[Len(log)])
    ELSE ~AllReadable \/ ~HasReview(said.review)

\* Mutant: an outcome is not checked against the one already there.
ResolvedNever(said) == FALSE

Resolved(said) == said.kind \in Outcomes /\ HasOutcome(said.review)

\* The scan under the lock, and the hash of the tail.  A review gets its id.
Read(p) ==
    LET said == job[p].said IN
    /\ At(p, "read")
    /\ \/ ReadFails(said) /\ Return(p, "error") /\ UNCHANGED ids
       \/ /\ ~ReadFails(said) /\ Resolved(said)
          /\ Return(p, "already") /\ UNCHANGED ids
       \/ /\ ~ReadFails(said) /\ ~Resolved(said)
          /\ said.kind \in Decisions => ids < MaxReviews
          /\ ids' = IF said.kind \in Decisions THEN ids + 1 ELSE ids
          /\ job' = [job EXCEPT ![p].pc = "write", ![p].prev = TailHash,
                        ![p].said.review =
                            IF said.kind \in Decisions THEN ids + 1 ELSE @]
          /\ UNCHANGED lock
    /\ UNCHANGED <<log, cut, synced, faults, acked, sent, glued>>

\* An append to a last line without a newline makes one line of the two.
Appended(line) ==
    IF cut THEN [log EXCEPT ![Len(log)] = Unreadable] ELSE Append(log, line)

\* What is left of a line whose write ended early: an incomplete JSON text, or
\* all of it but the newline.
Torn(line, tear) == IF tear = "partial" THEN Unreadable ELSE line

NewLine(p) == LineOf(job[p].said, job[p].prev)

\* The entries of one line that no parser accepts: the one that lacked its newline
\* and the one appended to it.
Glued(p) ==
    IF cut THEN glued \cup {log[Len(log)].said, job[p].said}
           ELSE glued \ {job[p].said}

\* Mutant: the caller is told before the line is on disk.
WriteUnsynced(p) ==
    /\ At(p, "write")
    /\ log' = Appended(NewLine(p))
    /\ cut' = FALSE
    /\ glued' = Glued(p)
    /\ acked' = acked \cup {job[p].said}
    /\ Return(p, "ok")
    /\ UNCHANGED <<synced, ids, faults, sent>>

Write(p) ==
    /\ At(p, "write")
    /\ log' = Appended(NewLine(p))
    /\ cut' = FALSE
    /\ glued' = Glued(p)
    /\ Goto(p, "sync")
    /\ UNCHANGED <<synced, lock, ids, faults, acked, sent>>

\* The disk is full, before or within the line: the call fails closed.
WriteFails(p) ==
    /\ At(p, "write")
    /\ Fault("write")
    /\ \/ UNCHANGED <<log, cut, glued>>
       \/ /\ \E tear \in Tears : log' = Appended(Torn(NewLine(p), tear))
          /\ cut' = TRUE
          /\ glued' = Glued(p)
    /\ Return(p, "error")
    /\ UNCHANGED <<synced, ids, acked, sent>>

Sync(p) ==
    /\ At(p, "sync")
    /\ synced' = Len(log)
    /\ acked' = acked \cup {job[p].said}
    /\ Return(p, "ok")
    /\ UNCHANGED <<log, cut, ids, faults, sent, glued>>

SyncFails(p) ==
    /\ At(p, "sync")
    /\ Fault("write")
    /\ Return(p, "error")
    /\ UNCHANGED <<log, cut, synced, ids, acked, sent, glued>>

-----------------------------------------------------------------------------
(* Who writes: tool calls, turn cancels, the migration.                     *)

\* execute_call or record_denied asks for a review.
Review(c, decision) ==
    /\ At(c, "idle")
    /\ job' = [job EXCEPT ![c].pc = "lock",
                  ![c].said = [review |-> 0, kind |-> decision]]
    /\ UNCHANGED <<log, cut, synced, lock, ids, faults, acked, sent, glued>>

Send(c) ==
    /\ At(c, "reviewed")
    /\ sent' = sent \cup {job[c].said.review}
    /\ Goto(c, "sent")
    /\ UNCHANGED <<log, cut, synced, lock, ids, faults, acked, glued>>

\* The call came back, or was refused before it was sent.
Conclude(c, outcome) ==
    /\ At(c, IF outcome = "never_ran" THEN "reviewed" ELSE "sent")
    /\ job' = [job EXCEPT ![c].pc = "lock", ![c].said.kind = outcome]
    /\ UNCHANGED <<log, cut, synced, lock, ids, faults, acked, sent, glued>>

\* handle_turn_cancel lists the reviews in flight, without the lock.  With an
\* unreadable line it fails; with none in flight it has nothing to mark.
List(x) ==
    /\ At(x, "idle")
    /\ AllReadable
    /\ Inflight # {}
    /\ job' = [job EXCEPT ![x].pc = "marking", ![x].todo = Inflight]
    /\ UNCHANGED <<log, cut, synced, lock, ids, faults, acked, sent, glued>>

\* One after the other, in the order of the log.
Mark(x) ==
    /\ At(x, "marking")
    /\ job[x].todo # {}
    /\ job' = [job EXCEPT ![x].pc = "lock",
                  ![x].said = [review |-> Min(job[x].todo),
                               kind |-> "ambiguous"]]
    /\ UNCHANGED <<log, cut, synced, lock, ids, faults, acked, sent, glued>>

\* Every listed review is settled: the turn is interrupted.
Interrupt(x) ==
    /\ At(x, "marking")
    /\ job[x].todo = {}
    /\ job' = [job EXCEPT ![x] = Idle]
    /\ UNCHANGED <<log, cut, synced, lock, ids, faults, acked, sent, glued>>

\* scan_chainless_entries: every line parses and none has a hash.
Scan(m) ==
    /\ At(m, "idle")
    /\ log # <<>>
    /\ \A i \in DOMAIN log : Readable(log[i]) /\ log[i].hash = Genesis
    /\ job' = [job EXCEPT ![m].pc = "lock", ![m].scan = log]
    /\ UNCHANGED <<log, cut, synced, lock, ids, faults, acked, sent, glued>>

\* What the lines up to the n-th say: the hash of the n-th.
Upto(lines, n) == [i \in 1..n |-> lines[i].said]

Rechained(lines) ==
    [i \in DOMAIN lines |-> LineOf(lines[i].said, Upto(lines, i - 1))]

\* rechain_review_log: a temporary file, fsynced and renamed over the log.
Rename(m) ==
    /\ At(m, "rename")
    /\ log' = Rechained(job[m].scan)
    /\ cut' = FALSE
    /\ synced' = Len(job[m].scan)
    /\ lock' = Nobody
    /\ job' = [job EXCEPT ![m] = Idle]
    /\ UNCHANGED <<ids, faults, acked, sent, glued>>

-----------------------------------------------------------------------------
(* Faults.                                                                  *)

\* A process dies; the kernel frees its lock.
Kill(p) ==
    /\ ~At(p, "idle")
    /\ Fault("kill")
    /\ lock' = IF lock = p THEN Nobody ELSE lock
    /\ job' = [job EXCEPT ![p] = Idle]
    /\ UNCHANGED <<log, cut, synced, ids, acked, sent, glued>>

\* Every process dies.  What was synced survives; of the first line that did
\* not survive whole, a part may.
PowerLoss ==
    /\ Fault("power")
    /\ lock' = Nobody
    /\ job' = [p \in Procs |-> Idle]
    /\ \E n \in synced..Len(log) :
          \/ /\ log' = SubSeq(log, 1, n)
             /\ cut' = (cut /\ n = Len(log))
             /\ synced' = n
          \/ /\ n < Len(log)
             /\ Readable(log[n + 1])
             /\ \E tear \in Tears :
                   log' = Append(SubSeq(log, 1, n), Torn(log[n + 1], tear))
             /\ cut' = TRUE
             /\ synced' = n + 1
    /\ UNCHANGED <<ids, acked, sent, glued>>

Next ==
    \/ \E p \in Procs : \/ Acquire(p) \/ LockTimeout(p) \/ Read(p)
                        \/ Write(p) \/ WriteFails(p)
                        \/ Sync(p) \/ SyncFails(p) \/ Kill(p)
    \/ \E c \in Callers : \/ Send(c)
                          \/ \E d \in Decisions : Review(c, d)
                          \/ \E o \in Outcomes : Conclude(c, o)
    \/ \E x \in Cancellers : List(x) \/ Mark(x) \/ Interrupt(x)
    \/ \E m \in Migrators : Scan(m) \/ Rename(m)
    \/ PowerLoss

Spec == Init /\ [][Next]_vars

-----------------------------------------------------------------------------

\* Every variable has its type: the lines of the log, the work of the processes
\* and the history.
TypeOK ==
    /\ log \in Seq(Line \cup {Unreadable})
    /\ cut \in BOOLEAN
    /\ synced \in 0..Len(log)
    /\ lock \in Procs \cup {Nobody}
    /\ job \in [Procs -> Job]
    /\ ids \in 0..MaxReviews
    /\ faults \in 0..MaxFaults
    /\ acked \subseteq Content
    /\ sent \subseteq Reviews
    /\ glued \subseteq Content \cup {Unreadable.said}

\* Line i of a chained log links to the line before it and has its own hash.
Links(i) ==
    /\ log[i].prev = IF i = 1 THEN Genesis ELSE log[i - 1].hash
    /\ log[i].hash = Append(log[i].prev, log[i].said)

\* A log that begins with a chained line verifies (verify_review_chain) up to an
\* unreadable last line: no interleaving of writers, cancels, a migration,
\* kills, power losses and short writes forks or breaks the chain, or buries an
\* unreadable line under later ones.
ChainVerifies ==
    log # <<>> /\ Readable(log[1]) /\ log[1].hash # Genesis =>
        \A i \in DOMAIN log :
            \/ Readable(log[i]) /\ Links(i)
            \/ ~Readable(log[i]) /\ i = Len(log)

\* A review has at most one outcome, and no outcome comes before its review or
\* without one, whichever of the call and a turn cancel gets there first
\* (record_attempt_outcome).
OneOutcome ==
    \A i \in DOMAIN log : Readable(log[i]) /\ log[i].said.kind \in Outcomes =>
        /\ \E j \in 1..i - 1 :
              /\ Readable(log[j])
              /\ log[j].said.review = log[i].said.review
              /\ log[j].said.kind \in Decisions
        /\ \A j \in DOMAIN log \ {i} :
              Readable(log[j]) /\ log[j].said.review = log[i].said.review
                => log[j].said.kind \in Decisions

\* The entries a power loss leaves.
OnDisk == {log[i].said : i \in {j \in 1..synced : Readable(log[j])}}

\* What a writer was told is durable is then on disk and stays there, after
\* kills, power losses and torn writes too, and a call is sent only after its
\* approval was.  Two things may lose an entry: the re-chaining of an old log,
\* which rewrites it from what it read before it had the lock, and a tear that
\* leaves a whole line without its newline, whose entry and the next one appended
\* end up in one line that no parser accepts (no others: `glued`).
AckedStays ==
    [][(\A m \in Migrators : ~Rename(m)) =>
          /\ ((acked \cap OnDisk) \cup (acked' \ acked)) \ glued' \subseteq OnDisk'
          /\ \A r \in sent' \ sent : [review |-> r, kind |-> "approved"] \in acked]_vars

\* A cancel passes over a review it listed only once the log has an outcome of
\* it (its own or the one of the call that finished meanwhile), or its own was
\* appended to a line that lacked its newline.
CancelSettles ==
    [][\A x \in Cancellers :
          At(x, "lock") \/ At(x, "read") \/ At(x, "write") \/ At(x, "sync") =>
             (At(x, "marking")' => \/ HasOutcome(job[x].said.review)'
                                   \/ job[x].said \in glued')]_vars

=============================================================================
