---------------------------- MODULE GrantWriter ------------------------------
(***************************************************************************)
(* Remembered approvals: the group-commit writer (grant_writer.rs), its     *)
(* audit log (grant_audit.rs) and grants.json (grant_store.rs).             *)
(*                                                                          *)
(* Several processes, the hosts, share the two files.  In each the threads  *)
(* that got a person's approval queue their grant and block; one writer     *)
(* thread drains the queue, appends an audit line per grant, fsyncs, edits  *)
(* grants.json optimistically, and only then answers.  A host reconciles    *)
(* the files before it serves; the supervisor is a host without threads.    *)
(*                                                                          *)
(* A hash is the number of the line it is of, 0 being the genesis hash: the *)
(* log only grows while a process that read it lives.  grants.json is the   *)
(* set of its keys (flatten_grant_keys).  A file that cannot be read or      *)
(* parsed is read as empty, except for the tail of the log.                 *)
(***************************************************************************)
EXTENDS Naturals, Sequences

CONSTANTS
    Hosts,        \* processes that share the files
    Threads,      \* threads with an approval to remember
    HostOf,       \* the host of each thread
    Keys,         \* grant keys
    KeyOf,        \* the grant each thread asks for
    Legacy,       \* grants from before the audit log
    Nobody,       \* no holder of a lock
    Faults,       \* which faults happen
    MaxFaults     \* bound on the faults

ASSUME HostsAssumption == Nobody \notin Hosts /\ HostOf \in [Threads -> Hosts]
ASSUME KeysAssumption == KeyOf \in [Threads -> Keys] /\ Legacy \subseteq Keys
ASSUME FaultsAssumption ==
    Faults \subseteq {"error", "read", "kill", "power", "wake"} /\ MaxFaults \in Nat

VARIABLES
    audit,      \* entries of grant-audit.jsonl: the key and the hash linked to
    torn,       \* how the log ends: "none", in part of an entry ("partial"), or in
                \* an entry without its newline ("newline")
    joined,     \* entries whose line goes on with the next one: both unreadable
    synced,     \* number of audit entries that survive a power loss
    auditLock,  \* holder of the lock of the audit log
    grants,     \* the keys of grants.json
    durable,    \* the keys of the grants.json a power loss leaves
    grantLock,  \* holder of the lock of grants.json
    queue,      \* per host: the threads queued for its writer
    w,          \* per host: its writer, before that its reconciliation
    thread,     \* per thread: where it stands
    acked,      \* history: keys some caller was told are durable
    wiped,      \* history: keys that an edit dropped because it could not read
                \* grants.json or their audit entry, and not granted again since
    faults

auditVars == <<audit, torn, joined, synced, auditLock>>
grantVars == <<grants, durable, grantLock>>
vars == <<auditVars, grantVars, queue, w, thread, acked, wiped, faults>>

Line == [key : Keys, prev : Nat]

\* Where a host stands, the batch it commits, the tail hash it read, the keys
\* its edit removes, grants.json as it read it and the files it could not read.
Writer == [pc : {"boot", "reconcile", "quarantine", "drain", "empty", "waiting",
                 "audit", "append", "sync", "load", "lock", "rename", "dirsync"},
           batch : Seq(Threads), tail : Nat, del : SUBSET Keys, snap : SUBSET Keys,
           blind : SUBSET {"grants", "audit"}]

Stage(pc, batch, tail, del, snap) ==
    [pc |-> pc, batch |-> batch, tail |-> tail, del |-> del, snap |-> snap, blind |-> {}]

Boot == Stage("boot", <<>>, 0, {}, {})
Serving == Stage("drain", <<>>, 0, {}, {})

\* "checked": found no grant, asks the person; "queued": in the queue, the
\* writer not notified yet; "blocked": waiting for the answer.
ThreadPc == {"idle", "checked", "queued", "blocked"}

Init ==
    /\ audit = <<>> /\ torn = "none" /\ joined = {} /\ synced = 0 /\ auditLock = Nobody
    /\ grants = Legacy /\ durable = Legacy /\ grantLock = Nobody
    /\ queue = [h \in Hosts |-> <<>>]
    /\ w = [h \in Hosts |-> Boot]
    /\ thread = [t \in Threads |-> "idle"]
    /\ acked = {} /\ wiped = {}
    /\ faults = 0

At(h, pc) == w[h].pc = pc
Goto(h, pc) == w' = [w EXCEPT ![h].pc = pc]
Fault(kind) == kind \in Faults /\ faults < MaxFaults /\ faults' = faults + 1

\* The host still reconciles.
Starting(h) == w[h].pc \in {"boot", "reconcile", "quarantine"} \/ w[h].del # {}

Batch(h) == {w[h].batch[i] : i \in DOMAIN w[h].batch}
BatchKeys(h) == {KeyOf[t] : t \in Batch(h)}
Readable(i) == i \notin joined /\ \A j \in joined : j + 1 # i
Audited == {audit[i].key : i \in {j \in DOMAIN audit : Readable(j)}}
Garbled == {audit[i].key : i \in {j \in DOMAIN audit : ~Readable(j)}}
Recorded == {audit[i].key : i \in 1..synced}

-----------------------------------------------------------------------------
(* The threads: already_granted, then the person's approval, then submit.   *)

Check(t) ==
    /\ ~Starting(HostOf[t])
    /\ thread[t] = "idle"
    /\ \/ KeyOf[t] \notin grants /\ UNCHANGED faults
       \/ Fault("read")
    /\ thread' = [thread EXCEPT ![t] = "checked"]
    /\ UNCHANGED <<auditVars, grantVars, queue, w, acked, wiped>>

Submit(t) ==
    /\ thread[t] = "checked"
    /\ queue' = [queue EXCEPT ![HostOf[t]] = Append(@, t)]
    /\ thread' = [thread EXCEPT ![t] = "queued"]
    /\ UNCHANGED <<auditVars, grantVars, w, acked, wiped, faults>>

\* notify_one: reaches the writer only while it waits.
Notify(t) ==
    /\ thread[t] = "queued"
    /\ thread' = [thread EXCEPT ![t] = "blocked"]
    /\ IF At(HostOf[t], "waiting") THEN Goto(HostOf[t], "drain") ELSE UNCHANGED w
    /\ UNCHANGED <<auditVars, grantVars, queue, acked, wiped, faults>>

-----------------------------------------------------------------------------
(* The writer: writer_loop and commit_batch_at.                             *)

Drain(h) ==
    /\ At(h, "drain")
    /\ w' = [w EXCEPT ![h] = Stage(IF queue[h] = <<>> THEN "empty" ELSE "audit",
                                   queue[h], 0, {}, {})]
    /\ queue' = [queue EXCEPT ![h] = <<>>]
    /\ UNCHANGED <<auditVars, grantVars, thread, acked, wiped, faults>>

\* wait_for_work does not look at the queue again.
Wait(h) ==
    /\ At(h, "empty")
    /\ Goto(h, "waiting")
    /\ UNCHANGED <<auditVars, grantVars, queue, thread, acked, wiped, faults>>

\* A condition variable may also wake up by itself.
SpuriousWake(h) ==
    /\ At(h, "waiting")
    /\ Fault("wake")
    /\ Goto(h, "drain")
    /\ UNCHANGED <<auditVars, grantVars, queue, thread, acked, wiped>>

\* Every caller of the batch gets the answer; the writer takes the next batch.
Answer(h) ==
    /\ thread' = [t \in Threads |-> IF t \in Batch(h) THEN "idle" ELSE thread[t]]
    /\ w' = [w EXCEPT ![h] = Serving]

\* What last_entry_hash_at finds at the end of the log is an entry.
TailParses == torn # "partial" /\ Readable(Len(audit))

\* Mutant: the lock file excludes nobody.
AcquireAuditShared(h) ==
    /\ At(h, "audit")
    /\ TailParses
    /\ auditLock' = h
    /\ w' = [w EXCEPT ![h] = Stage("append", @.batch, Len(audit), {}, {})]
    /\ UNCHANGED <<audit, torn, joined, synced, grantVars, queue, thread, acked, wiped, faults>>

\* acquire_audit_lock and last_entry_hash_at, when the last line parses.
AcquireAudit(h) ==
    /\ At(h, "audit")
    /\ auditLock = Nobody
    /\ TailParses
    /\ auditLock' = h
    /\ w' = [w EXCEPT ![h] = Stage("append", @.batch, Len(audit), {}, {})]
    /\ UNCHANGED <<audit, torn, joined, synced, grantVars, queue, thread, acked, wiped, faults>>

\* The last line does not parse, or the lock was held for 30 seconds.
RefuseAudit(h) ==
    /\ At(h, "audit")
    /\ ~TailParses \/ auditLock # Nobody
    /\ Answer(h)
    /\ UNCHANGED <<auditVars, grantVars, queue, acked, wiped, faults>>

\* Mutant: an entry is chained to the line before the tail.
EntriesStale(h, n) ==
    [i \in 1..n |-> [key |-> KeyOf[w[h].batch[i]], prev |-> w[h].tail + i - 2]]

\* build_entry for every grant of the batch, the first n of which get written.
Entries(h, n) ==
    [i \in 1..n |-> [key |-> KeyOf[w[h].batch[i]], prev |-> w[h].tail + i - 1]]

\* What is appended goes on the line of an entry that lost its newline.
Joined == IF torn = "newline" THEN joined \cup {Len(audit)} ELSE joined

AppendAudit(h) ==
    /\ At(h, "append")
    /\ audit' = audit \o Entries(h, Len(w[h].batch))
    /\ torn' = "none" /\ joined' = Joined
    /\ Goto(h, "sync")
    /\ UNCHANGED <<synced, auditLock, grantVars, queue, thread, acked, wiped, faults>>

\* Mutant: the grants are written without waiting for the log.
SyncAuditLazy(h) ==
    /\ At(h, "sync")
    /\ auditLock' = Nobody
    /\ Goto(h, "load")
    /\ UNCHANGED <<audit, torn, joined, synced, grantVars, queue, thread, acked, wiped, faults>>

SyncAudit(h) ==
    /\ At(h, "sync")
    /\ synced' = Len(audit)
    /\ auditLock' = Nobody
    /\ Goto(h, "load")
    /\ UNCHANGED <<audit, torn, joined, grantVars, queue, thread, acked, wiped, faults>>

-----------------------------------------------------------------------------
(* edit_grants_at: read and change outside the lock, write under it if the   *)
(* file is still the one read, else start again.                            *)

Found(r, pc, keys, blind) == [r EXCEPT !.pc = pc, !.snap = keys, !.blind = blind]

\* edit_grants_at: a file that cannot be read or parsed is one without grants.
Load(h) ==
    /\ At(h, "load")
    /\ \/ /\ w' = [w EXCEPT ![h] = Found(@, "lock", grants, @.blind \ {"grants"})]
          /\ UNCHANGED faults
       \/ /\ w' = [w EXCEPT ![h] = Found(@, "lock", {}, @.blind \cup {"grants"})]
          /\ Fault("read")
    /\ UNCHANGED <<auditVars, grantVars, queue, thread, acked, wiped>>

\* Mutant: the file is not compared with the one read.
LockBlind(h) ==
    /\ At(h, "lock")
    /\ grantLock = Nobody
    /\ grantLock' = h
    /\ Goto(h, "rename")
    /\ UNCHANGED <<auditVars, grants, durable, queue, thread, acked, wiped, faults>>

\* Mutant: a conflict leaves the file locked.
LockKept(h) ==
    /\ At(h, "lock")
    /\ grantLock = Nobody
    /\ grantLock' = h
    /\ Goto(h, IF grants = w[h].snap THEN "rename" ELSE "load")
    /\ UNCHANGED <<auditVars, grants, durable, queue, thread, acked, wiped, faults>>

\* A file that was not read is found unchanged when it is corrupt or still
\* cannot be read.
Lock(h) ==
    /\ At(h, "lock")
    /\ grantLock = Nobody
    /\ \/ /\ grants = w[h].snap \/ "grants" \in w[h].blind
          /\ grantLock' = h /\ Goto(h, "rename")
       \/ /\ grants # w[h].snap \/ "grants" \in w[h].blind
          /\ UNCHANGED grantLock /\ Goto(h, "load")
    /\ UNCHANGED <<auditVars, grants, durable, queue, thread, acked, wiped, faults>>

\* Where there was no file to read, one that appeared since and cannot be read
\* goes unnoticed.
LockUnread(h) ==
    /\ At(h, "lock")
    /\ grantLock = Nobody
    /\ w[h].snap = {}
    /\ Fault("read")
    /\ grantLock' = h
    /\ w' = [w EXCEPT ![h] = Found(@, "rename", {}, @.blind \cup {"grants"})]
    /\ UNCHANGED <<auditVars, grants, durable, queue, thread, acked, wiped>>

\* The edit: apply_grant_mutation for the batch, or remove_grants.
Edited(h) == (w[h].snap \cup BatchKeys(h)) \ w[h].del

\* write_grants_bytes_at, up to the rename.
Rename(h) ==
    LET dropped == grants \ Edited(h) IN
    /\ At(h, "rename")
    /\ grants' = Edited(h)
    /\ wiped' = wiped \cup (IF w[h].blind # {} THEN dropped ELSE dropped \cap Garbled)
    /\ Goto(h, "dirsync")
    /\ UNCHANGED <<auditVars, durable, grantLock, queue, thread, acked, faults>>

\* Mutant: the directory is not synced before the callers are told.
SyncDirLazy(h) ==
    /\ At(h, "dirsync")
    /\ grantLock' = Nobody
    /\ Answer(h)
    /\ acked' = acked \cup BatchKeys(h)
    /\ wiped' = wiped \ BatchKeys(h)
    /\ UNCHANGED <<auditVars, grants, durable, queue, faults>>

SyncDir(h) ==
    /\ At(h, "dirsync")
    /\ durable' = grants
    /\ grantLock' = Nobody
    /\ Answer(h)
    /\ acked' = acked \cup BatchKeys(h)
    /\ wiped' = wiped \ BatchKeys(h)
    /\ UNCHANGED <<auditVars, grants, queue, faults>>

-----------------------------------------------------------------------------
(* reconcile_grants, before a host serves: grants.json is read first, then   *)
(* the audit log, while other hosts write both.                             *)

ReadGrants(h) ==
    /\ At(h, "boot")
    /\ \/ /\ w' = [w EXCEPT ![h] = Stage("reconcile", <<>>, 0, {}, grants)]
          /\ UNCHANGED faults
       \/ /\ w' = [w EXCEPT ![h] = Stage("reconcile", <<>>, 0, {}, {})]
          /\ Fault("read")
    /\ UNCHANGED <<auditVars, grantVars, queue, thread, acked, wiped>>

\* The grants that the audit log, as it was read, does not explain are orphaned.
Orphan(h, explained, blind) ==
    LET orphaned == w[h].snap \ explained
    IN  w' = [w EXCEPT ![h] =
                 IF orphaned = {} THEN Serving
                 ELSE [Stage("quarantine", <<>>, 0, orphaned, @.snap) EXCEPT !.blind = blind]]

\* audited_grant_keys: a log that cannot be read explains nothing.
ReadAudit(h) ==
    /\ At(h, "reconcile")
    /\ \/ Orphan(h, Audited, {}) /\ UNCHANGED faults
       \/ Orphan(h, {}, {"audit"}) /\ Fault("read")
    /\ UNCHANGED <<auditVars, grantVars, queue, thread, acked, wiped>>

\* The quarantine file is written, then remove_grants edits grants.json.
Quarantine(h) ==
    /\ At(h, "quarantine")
    /\ Goto(h, "load")
    /\ UNCHANGED <<auditVars, grantVars, queue, thread, acked, wiped, faults>>

-----------------------------------------------------------------------------
(* Faults.                                                                  *)

Committing == {"audit", "append", "sync", "load", "lock", "rename", "dirsync"}

Released(lock, h) == IF lock = h THEN Nobody ELSE lock

\* A step of the commit or of the reconciliation fails or panics: its callers
\* get an error.  A write that fails leaves a part of what it was to write: some
\* entries, and then part of one or all of one but its newline.
Fail(h) ==
    /\ w[h].pc \in Committing \cup {"quarantine"}
    /\ Fault("error")
    /\ \/ UNCHANGED <<audit, torn, joined>>
       \/ /\ At(h, "append")
          /\ \E n \in 0..Len(w[h].batch) :
                /\ audit' = audit \o Entries(h, n)
                /\ torn' \in {"none", "partial", "newline"}
                /\ n = 0 => torn' = "partial"
                /\ n = Len(w[h].batch) => torn' = "newline"
          /\ joined' = Joined
    /\ auditLock' = Released(auditLock, h)
    /\ grantLock' = Released(grantLock, h)
    /\ Answer(h)
    /\ UNCHANGED <<synced, grants, durable, queue, acked, wiped>>

\* A host is killed and starts again.
Kill(h) ==
    /\ Fault("kill")
    /\ auditLock' = Released(auditLock, h)
    /\ grantLock' = Released(grantLock, h)
    /\ queue' = [queue EXCEPT ![h] = <<>>]
    /\ w' = [w EXCEPT ![h] = Boot]
    /\ thread' = [t \in Threads |-> IF HostOf[t] = h THEN "idle" ELSE thread[t]]
    /\ UNCHANGED <<audit, torn, joined, synced, grants, durable, acked, wiped>>

\* The log is cut after entry n, after a part of what follows it, or before its
\* newline, unless that was synced.
CutAfter(n) ==
    IF n \in joined
    THEN \/ torn' = "newline" /\ joined' = {i \in joined : i < n}
         \/ torn' = "partial" /\ joined' = {i \in joined : i <= n}
    ELSE /\ joined' = {i \in joined : i <= n}
         /\ IF n = Len(audit) /\ torn = "newline" THEN torn' = "newline"
            ELSE \/ torn' = "none"
                 \/ torn' = "partial" /\ (n < Len(audit) \/ torn = "partial")
                 \/ torn' = "newline" /\ n > synced

\* The machine loses power: of what was not synced any part may be lost.
Power ==
    /\ Fault("power")
    /\ \E n \in synced..Len(audit) :
          /\ audit' = SubSeq(audit, 1, n)
          /\ synced' = n
          /\ CutAfter(n)
    /\ grants' \in {grants, durable}
    /\ durable' = grants'
    /\ auditLock' = Nobody /\ grantLock' = Nobody
    /\ queue' = [h \in Hosts |-> <<>>]
    /\ w' = [h \in Hosts |-> Boot]
    /\ thread' = [t \in Threads |-> "idle"]
    /\ UNCHANGED <<acked, wiped>>

Commit(h) == \/ AcquireAudit(h) \/ RefuseAudit(h) \/ AppendAudit(h) \/ SyncAudit(h)
             \/ Load(h) \/ Lock(h) \/ LockUnread(h) \/ Rename(h) \/ SyncDir(h)

Reconcile(h) == ReadGrants(h) \/ ReadAudit(h) \/ Quarantine(h)

Next ==
    \/ \E t \in Threads : Check(t) \/ Submit(t) \/ Notify(t)
    \/ \E h \in Hosts :
          \/ Drain(h) \/ Wait(h) \/ SpuriousWake(h)
          \/ Commit(h) \/ Reconcile(h)
          \/ Fail(h) \/ Kill(h)
    \/ Power

\* A writer that runs goes on; the operating system need not wake one nobody
\* notified.
Fairness ==
    \A h \in Hosts : WF_vars(Drain(h) \/ Wait(h) \/ Commit(h) \/ Reconcile(h))

Spec == Init /\ [][Next]_vars /\ Fairness

\* The callers run too, though no person need approve.
CallerSpec == Spec /\ \A t \in Threads : WF_vars(Notify(t))

-----------------------------------------------------------------------------
(* Properties.                                                              *)

\* Every variable has its type; the entries of a batch link to lines from the
\* genesis hash on (append_batch_at).
TypeOK ==
    /\ audit \in Seq(Line) /\ synced \in 0..Len(audit)
    /\ torn \in {"none", "partial", "newline"} /\ joined \subseteq DOMAIN audit
    /\ torn = "newline" => audit # <<>>
    /\ auditLock \in Hosts \cup {Nobody} /\ grantLock \in Hosts \cup {Nobody}
    /\ grants \subseteq Keys /\ durable \subseteq Keys
    /\ acked \subseteq Keys /\ wiped \subseteq Keys
    /\ queue \in [Hosts -> Seq(Threads)]
    /\ w \in [Hosts -> Writer]
    /\ thread \in [Threads -> ThreadPc]
    /\ faults \in 0..MaxFaults

\* Write-ahead: whatever happens next, power loss included, every grant a
\* reader can find has an audit entry that is already on disk, unless it is
\* older than the audit log (doctor_check_grants_subset).  The entry may have
\* become unreadable: see joined.
WriteAhead == grants \cup durable \subseteq Recorded \cup Legacy

\* The audit entries of all hosts form one chain: no two link to the same one
\* (verify_grant_audit), also those that share a line after a lost newline.
ChainVerifies == \A i \in DOMAIN audit : audit[i].prev = i - 1

\* A grant whose caller was told it is durable is in grants.json and stays
\* there: no other host's edit, reconciliation, kill or power loss undoes it,
\* except an edit or a reconciliation that could not read grants.json, the audit
\* log or the entry of the grant, and then until it is granted again.
AckedKept == acked \ (Legacy \cup wiped) \subseteq grants \cap durable

\* A drained batch is always answered, with success or an error.
BatchAnswered == \A h \in Hosts : w[h].batch # <<>> ~> w[h].batch = <<>>

\* The files implement the promise of the store.
Promise == INSTANCE AuditedGrants WITH recorded <- Recorded, granted <- durable
KeepsPromise == Promise!Spec

-----------------------------------------------------------------------------
(* What the comments say and the code does not do.                          *)

\* "a notify sent before this wait is not lost" (wait_for_work): a thread that
\* submitted a grant gets an answer.
EveryCallerAnswered == \A t \in Threads : thread[t] = "blocked" ~> thread[t] # "blocked"
=============================================================================
