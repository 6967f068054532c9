------------------------- MODULE GrantWriterProofs --------------------------
(***************************************************************************)
(* For any number of hosts, threads, keys and faults: the audit log is one  *)
(* chain, it is ahead of grants.json, an acknowledged grant is kept, and    *)
(* the files implement AuditedGrants.                                       *)
(***************************************************************************)
EXTENDS GrantWriter, TLAPS

\* Who appends holds the lock of the audit log; who renames holds the other.
LocksOK ==
    \A h \in Hosts :
        /\ w[h].pc \in {"append", "sync"} => auditLock = h
        /\ w[h].pc \in {"rename", "dirsync"} => grantLock = h

\* The tail hash an appender read is still that of the last line.
TailOK == \A h \in Hosts : w[h].pc = "append" => w[h].tail = Len(audit)

\* The keys of all entries of the log, readable or not.
Logged == {audit[i].key : i \in DOMAIN audit}

\* A host that edits grants.json has its batch on disk in the audit log, what
\* it read of grants.json was explained, and, unless it could not read the files,
\* it removes legacy grants and those whose entries are unreadable.
Sound(r) ==
    /\ r.snap \subseteq Recorded \cup Legacy
    /\ "audit" \notin r.blind => r.del \subseteq Legacy \cup Garbled
    /\ "grants" \in r.blind => r.snap = {}
    /\ r.pc = "quarantine" \/ r.del # {} => r.batch = <<>>

EditOK ==
    \A h \in Hosts :
        /\ Sound(w[h])
        /\ w[h].pc = "sync" => BatchKeys(h) \subseteq Logged
        /\ w[h].pc \in {"load", "lock", "rename", "dirsync"} => BatchKeys(h) \subseteq Recorded
        /\ w[h].pc = "rename" /\ "grants" \notin w[h].blind => w[h].snap = grants
        /\ w[h].pc = "dirsync" => BatchKeys(h) \subseteq grants

\* How grants.json and its durable version may differ.
DiskOK ==
    /\ grants \ durable \subseteq Recorded
    /\ durable \ grants \subseteq Legacy \cup wiped

IInv == /\ TypeOK /\ LocksOK /\ TailOK /\ EditOK /\ DiskOK
        /\ WriteAhead /\ ChainVerifies /\ AckedKept

-----------------------------------------------------------------------------
(* Types.                                                                   *)

LEMMA ServingType == Serving \in Writer /\ Boot \in Writer
BY DEF Serving, Boot, Stage, Writer

\* The pc and the read state of a writer are updated in place.
LEMMA GotoType ==
    ASSUME w \in [Hosts -> Writer], NEW h \in Hosts,
           NEW pc \in {"boot", "reconcile", "quarantine", "drain", "empty",
                       "waiting", "audit", "append", "sync", "load", "lock",
                       "rename", "dirsync"},
           Goto(h, pc)
    PROVE  w' \in [Hosts -> Writer]
BY DEF Goto, Writer

LEMMA UpdateType ==
    ASSUME w \in [Hosts -> Writer], NEW h \in Hosts, NEW r \in Writer,
           w' = [w EXCEPT ![h] = r]
    PROVE  w' \in [Hosts -> Writer]
OBVIOUS

\* What a host is after it looked for the file.
LEMMA FoundType ==
    ASSUME NEW v \in Writer, NEW pc \in {"lock", "rename"}, NEW keys \in SUBSET Keys,
           NEW blind \in SUBSET {"grants", "audit"}
    PROVE  LET r == Found(v, pc, keys, blind) IN
           /\ r \in Writer /\ r.pc = pc /\ r.batch = v.batch
           /\ r.snap = keys /\ r.del = v.del /\ r.blind = blind
BY DEF Found, Writer

\* What a host is after it compared the grants with the audit log.
Orphans(h, explained, blind) ==
    IF w[h].snap \ explained = {} THEN Serving
    ELSE [Stage("quarantine", <<>>, 0, w[h].snap \ explained, w[h].snap) EXCEPT !.blind = blind]

LEMMA OrphanType ==
    ASSUME w \in [Hosts -> Writer], NEW h \in Hosts, NEW e,
           NEW b \in SUBSET {"grants", "audit"}, Orphan(h, e, b)
    PROVE  LET r == Orphans(h, e, b) IN
           /\ w' = [w EXCEPT ![h] = r]
           /\ r \in Writer /\ r.batch = <<>> /\ r.pc \in {"drain", "quarantine"}
           /\ \/ r.snap = {} /\ r.del = {} /\ r.blind = {}
              \/ r.snap = w[h].snap /\ r.del = w[h].snap \ e /\ r.blind = b
<1>1. w' = [w EXCEPT ![h] = Orphans(h, e, b)]
  BY DEF Orphan, Orphans
<1>2. w[h].snap \in SUBSET Keys /\ w[h].snap \ e \in SUBSET Keys
  BY DEF Writer
<1>3. <<>> \in Seq(Threads) /\ 0 \in Nat
  OBVIOUS
<1> DEFINE q == Stage("quarantine", <<>>, 0, w[h].snap \ e, w[h].snap)
<1>4. /\ q \in Writer /\ q.pc = "quarantine" /\ q.batch = <<>>
      /\ q.del = w[h].snap \ e /\ q.snap = w[h].snap
  BY <1>2, <1>3 DEF Stage, Writer
<1>5. Serving \in Writer /\ Serving.pc = "drain" /\ Serving.batch = <<>>
      /\ Serving.snap = {} /\ Serving.del = {} /\ Serving.blind = {}
  BY ServingType DEF Serving, Stage
<1>6. Orphans(h, e, b) = IF w[h].snap \ e = {} THEN Serving ELSE [q EXCEPT !.blind = b]
  BY DEF Orphans
<1> HIDE DEF q
<1>7. CASE w[h].snap \ e = {}
  BY <1>1, <1>5, <1>6, <1>7
<1>8. CASE w[h].snap \ e # {}
  <2> DEFINE r == [q EXCEPT !.blind = b]
  <2>1. /\ r \in Writer /\ r.pc = "quarantine" /\ r.batch = <<>>
        /\ r.del = w[h].snap \ e /\ r.snap = w[h].snap /\ r.blind = b
    BY <1>4 DEF Writer
  <2>2. Orphans(h, e, b) = r
    BY <1>6, <1>8
  <2> HIDE DEF r
  <2> QED
    BY <1>1, <2>1, <2>2
<1> QED
  BY <1>7, <1>8

LEMMA ConcatType ==
    ASSUME NEW S, NEW a \in Seq(S), NEW b \in Seq(S)
    PROVE  a \o b \in Seq(S) /\ Len(a \o b) = Len(a) + Len(b)
OBVIOUS

LEMMA EntriesType ==
    ASSUME TypeOK, NEW h \in Hosts, NEW n \in 0..Len(w[h].batch)
    PROVE  /\ Entries(h, n) \in Seq(Line)
           /\ Len(Entries(h, n)) = n
           /\ \A i \in 1..n : Entries(h, n)[i] =
                 [key |-> KeyOf[w[h].batch[i]], prev |-> w[h].tail + i - 1]
<1>1. w[h].batch \in Seq(Threads) /\ w[h].tail \in Nat
  BY DEF TypeOK, Writer
<1>2. \A i \in 1..n : w[h].batch[i] \in Threads
  BY <1>1
<1>3. \A i \in 1..n : [key |-> KeyOf[w[h].batch[i]], prev |-> w[h].tail + i - 1] \in Line
  BY <1>1, <1>2, KeysAssumption DEF Line
<1>4. n \in Nat
  BY <1>1
<1> QED
  BY <1>3, <1>4 DEF Entries

LEMMA AnswerType ==
    ASSUME TypeOK, NEW h \in Hosts, Answer(h)
    PROVE  thread' \in [Threads -> ThreadPc] /\ w' \in [Hosts -> Writer]
BY ServingType DEF TypeOK, Answer, ThreadPc

LEMMA FaultType ==
    ASSUME TypeOK, NEW kind, Fault(kind) \/ UNCHANGED faults
    PROVE  faults' \in 0..MaxFaults
BY FaultsAssumption DEF TypeOK, Fault

LEMMA JoinedType == ASSUME TypeOK PROVE Joined \subseteq DOMAIN audit
<1>1. audit # <<>> => Len(audit) \in DOMAIN audit
  BY DEF TypeOK
<1> QED
  BY <1>1 DEF TypeOK, Joined

LEMMA TypeStep == ASSUME TypeOK, [Next]_vars PROVE TypeOK'
<1> USE DEF TypeOK
<1>1. ASSUME NEW t \in Threads, Check(t) PROVE TypeOK'
  <2>1. faults' \in 0..MaxFaults
    BY <1>1, FaultType DEF Check
  <2> QED
    BY <1>1, <2>1 DEF Check, auditVars, grantVars, ThreadPc
<1>2. ASSUME NEW t \in Threads, Submit(t) PROVE TypeOK'
  <2>1. HostOf[t] \in Hosts
    BY HostsAssumption
  <2> QED
    BY <1>2, <2>1 DEF Submit, auditVars, grantVars, ThreadPc
<1>3. ASSUME NEW t \in Threads, Notify(t) PROVE TypeOK'
  <2>1. HostOf[t] \in Hosts
    BY HostsAssumption
  <2>2. w' \in [Hosts -> Writer]
    BY <1>3, <2>1, GotoType DEF Notify
  <2> QED
    BY <1>3, <2>2 DEF Notify, auditVars, grantVars, ThreadPc
<1>4. ASSUME NEW h \in Hosts, Drain(h) PROVE TypeOK'
  <2>1. w' \in [Hosts -> Writer]
    BY <1>4 DEF Drain, Writer, Stage
  <2> QED
    BY <1>4, <2>1 DEF Drain, auditVars, grantVars
<1>5. ASSUME NEW h \in Hosts, Wait(h) \/ SpuriousWake(h) PROVE TypeOK'
  <2>1. w' \in [Hosts -> Writer]
    BY <1>5, GotoType DEF Wait, SpuriousWake
  <2>2. faults' \in 0..MaxFaults
    BY <1>5, FaultsAssumption DEF Wait, SpuriousWake, Fault
  <2> QED
    BY <1>5, <2>1, <2>2 DEF Wait, SpuriousWake, auditVars, grantVars
<1>6. ASSUME NEW h \in Hosts, AcquireAudit(h) PROVE TypeOK'
  <2>1. w' \in [Hosts -> Writer]
    BY <1>6 DEF AcquireAudit, Writer, Stage
  <2> QED
    BY <1>6, <2>1 DEF AcquireAudit, grantVars
<1>7. ASSUME NEW h \in Hosts, RefuseAudit(h) PROVE TypeOK'
  BY <1>7, AnswerType DEF RefuseAudit, auditVars, grantVars
<1>8. ASSUME NEW h \in Hosts, AppendAudit(h) PROVE TypeOK'
  <2>1. w' \in [Hosts -> Writer]
    BY <1>8, GotoType DEF AppendAudit
  <2>2. Len(w[h].batch) \in 0..Len(w[h].batch)
    BY DEF Writer
  <2>3. Entries(h, Len(w[h].batch)) \in Seq(Line)
    BY <2>2, EntriesType
  <2>4. audit' \in Seq(Line) /\ Len(audit') >= Len(audit) /\ DOMAIN audit \subseteq DOMAIN audit'
    BY <1>8, <2>3 DEF AppendAudit
  <2>5. joined' \subseteq DOMAIN audit' /\ torn' = "none"
    BY <1>8, <2>4, JoinedType DEF AppendAudit
  <2> QED
    BY <1>8, <2>1, <2>4, <2>5 DEF AppendAudit, grantVars
<1>9. ASSUME NEW h \in Hosts, SyncAudit(h) PROVE TypeOK'
  <2>1. w' \in [Hosts -> Writer]
    BY <1>9, GotoType DEF SyncAudit
  <2> QED
    BY <1>9, <2>1 DEF SyncAudit, grantVars
<1>10. ASSUME NEW h \in Hosts, Load(h) \/ ReadGrants(h) PROVE TypeOK'
  <2>1. ASSUME Load(h) PROVE w' \in [Hosts -> Writer]
    <3>1. w[h] \in Writer /\ grants \in SUBSET Keys /\ {} \in SUBSET Keys
      OBVIOUS
    <3>2. w[h].blind \cup {"grants"} \in SUBSET {"grants", "audit"}
          /\ w[h].blind \ {"grants"} \in SUBSET {"grants", "audit"}
      BY <3>1 DEF Writer
    <3>3. /\ Found(w[h], "lock", grants, w[h].blind \ {"grants"}) \in Writer
          /\ Found(w[h], "lock", {}, w[h].blind \cup {"grants"}) \in Writer
      BY <3>1, <3>2, FoundType
    <3> QED
      BY <2>1, <3>3, UpdateType DEF Load
  <2>2. ASSUME ReadGrants(h) PROVE w' \in [Hosts -> Writer]
    <3>1. <<>> \in Seq(Threads) /\ 0 \in Nat /\ grants \in SUBSET Keys /\ {} \in SUBSET Keys
      OBVIOUS
    <3>2. /\ Stage("reconcile", <<>>, 0, {}, grants) \in Writer
          /\ Stage("reconcile", <<>>, 0, {}, {}) \in Writer
      BY <3>1 DEF Stage, Writer
    <3> QED
      BY <2>2, <3>2, UpdateType DEF ReadGrants
  <2>3. faults' \in 0..MaxFaults
    BY <1>10, FaultType DEF Load, ReadGrants
  <2> QED
    BY <1>10, <2>1, <2>2, <2>3 DEF Load, ReadGrants, auditVars, grantVars
<1>11. ASSUME NEW h \in Hosts, Lock(h) \/ LockUnread(h) PROVE TypeOK'
  <2>1. ASSUME Lock(h) PROVE w' \in [Hosts -> Writer]
    BY <2>1, GotoType DEF Lock
  <2>2. ASSUME LockUnread(h) PROVE w' \in [Hosts -> Writer]
    <3>1. /\ w[h] \in Writer /\ {} \in SUBSET Keys
          /\ w[h].blind \cup {"grants"} \in SUBSET {"grants", "audit"}
      BY DEF Writer
    <3>2. Found(w[h], "rename", {}, w[h].blind \cup {"grants"}) \in Writer
      BY <3>1, FoundType
    <3> QED
      BY <2>2, <3>2, UpdateType DEF LockUnread
  <2>3. faults' \in 0..MaxFaults
    BY <1>11, FaultType DEF Lock, LockUnread
  <2> QED
    BY <1>11, <2>1, <2>2, <2>3 DEF Lock, LockUnread, auditVars
<1>12. ASSUME NEW h \in Hosts, Rename(h) PROVE TypeOK'
  <2>1. w' \in [Hosts -> Writer]
    BY <1>12, GotoType DEF Rename
  <2>2. Edited(h) \subseteq Keys
    BY KeysAssumption DEF Edited, BatchKeys, Batch, Writer
  <2> QED
    BY <1>12, <2>1, <2>2 DEF Rename, auditVars
<1>13. ASSUME NEW h \in Hosts, SyncDir(h) PROVE TypeOK'
  <2>1. BatchKeys(h) \subseteq Keys
    BY KeysAssumption DEF BatchKeys, Batch, Writer
  <2> QED
    BY <1>13, <2>1, AnswerType DEF SyncDir, auditVars
<1>14. ASSUME NEW h \in Hosts, ReadAudit(h) PROVE TypeOK'
  <2>1. ASSUME NEW e, NEW b \in SUBSET {"grants", "audit"}, Orphan(h, e, b)
        PROVE  w' \in [Hosts -> Writer]
    <3>1. Orphans(h, e, b) \in Writer /\ w' = [w EXCEPT ![h] = Orphans(h, e, b)]
      BY <2>1, OrphanType
    <3> QED
      BY <3>1, UpdateType
  <2>2. w' \in [Hosts -> Writer]
    BY <1>14, <2>1 DEF ReadAudit
  <2>3. faults' \in 0..MaxFaults
    BY <1>14, FaultType DEF ReadAudit
  <2> QED
    BY <1>14, <2>2, <2>3 DEF ReadAudit, auditVars, grantVars
<1>15. ASSUME NEW h \in Hosts, Quarantine(h) PROVE TypeOK'
  <2>1. w' \in [Hosts -> Writer]
    BY <1>15, GotoType DEF Quarantine
  <2> QED
    BY <1>15, <2>1 DEF Quarantine, auditVars, grantVars
<1>16. ASSUME NEW h \in Hosts, Fail(h) PROVE TypeOK'
  <2>1. /\ audit' \in Seq(Line) /\ Len(audit') >= Len(audit)
        /\ torn' \in {"none", "partial", "newline"} /\ joined' \subseteq DOMAIN audit'
        /\ torn' = "newline" => audit' # <<>>
    <3>1. ASSUME NEW n \in 0..Len(w[h].batch), audit' = audit \o Entries(h, n),
                 torn' \in {"none", "partial", "newline"}, n = 0 => torn' = "partial",
                 joined' = Joined
          PROVE  /\ audit' \in Seq(Line) /\ Len(audit') >= Len(audit)
                 /\ joined' \subseteq DOMAIN audit'
                 /\ torn' = "newline" => audit' # <<>>
      <4>1. Entries(h, n) \in Seq(Line) /\ Len(Entries(h, n)) = n /\ n \in Nat
        BY EntriesType DEF Writer
      <4> DEFINE new == Entries(h, n)
      <4> HIDE DEF new
      <4>5. audit \in Seq(Line) /\ new \in Seq(Line) /\ audit' = audit \o new /\ Len(new) = n
        BY <3>1, <4>1 DEF new
      <4>6. audit \o new \in Seq(Line) /\ Len(audit \o new) = Len(audit) + Len(new)
        BY <4>5, ConcatType
      <4>2. audit' \in Seq(Line) /\ Len(audit') = Len(audit) + n
        BY <4>5, <4>6
      <4>3. DOMAIN audit \subseteq DOMAIN audit'
        BY <4>1, <4>2
      <4>4. n # 0 => audit' # <<>>
        BY <4>1, <4>2
      <4> QED
        BY <3>1, <4>1, <4>2, <4>3, <4>4, JoinedType
    <3>2. ASSUME UNCHANGED <<audit, torn, joined>>
          PROVE  /\ audit' \in Seq(Line) /\ Len(audit') >= Len(audit)
                 /\ joined' \subseteq DOMAIN audit'
                 /\ torn' = "newline" => audit' # <<>>
      BY <3>2
    <3>3. torn' \in {"none", "partial", "newline"}
      BY <1>16 DEF Fail
    <3> QED
      BY <1>16, <3>1, <3>2, <3>3 DEF Fail
  <2>2. faults' \in 0..MaxFaults
    BY <1>16, FaultType DEF Fail
  <2> QED
    <3>1. auditLock' \in Hosts \cup {Nobody} /\ grantLock' \in Hosts \cup {Nobody}
      BY <1>16 DEF Fail, Released
    <3>2. synced' \in 0..Len(audit')
      BY <1>16, <2>1 DEF Fail
    <3>3. thread' \in [Threads -> ThreadPc] /\ w' \in [Hosts -> Writer]
      BY <1>16, AnswerType DEF Fail
    <3> QED
      BY <1>16, <2>1, <2>2, <3>1, <3>2, <3>3 DEF Fail
<1>17. ASSUME NEW h \in Hosts, Kill(h) PROVE TypeOK'
  <2>1. faults' \in 0..MaxFaults
    BY <1>17, FaultsAssumption DEF Kill, Fault
  <2> QED
    BY <1>17, <2>1, ServingType DEF Kill, Released, ThreadPc
<1>18. ASSUME Power PROVE TypeOK'
  <2>1. faults' \in 0..MaxFaults
    BY <1>18, FaultsAssumption DEF Power, Fault
  <2>2. /\ audit' \in Seq(Line) /\ synced' \in 0..Len(audit')
        /\ torn' \in {"none", "partial", "newline"} /\ joined' \subseteq DOMAIN audit'
        /\ torn' = "newline" => audit' # <<>>
    <3>1. PICK n \in synced..Len(audit) :
            audit' = SubSeq(audit, 1, n) /\ synced' = n /\ CutAfter(n)
      BY <1>18 DEF Power
    <3>2. n \in 0..Len(audit) /\ DOMAIN audit = 1..Len(audit)
      OBVIOUS
    <3>3. audit' \in Seq(Line) /\ Len(audit') = n /\ DOMAIN audit' = 1..n
      BY <3>1, <3>2
    <3>4. torn' \in {"none", "partial", "newline"}
      BY <3>1 DEF CutAfter
    <3>9. joined \subseteq Nat
      BY <3>2
    <3>5. joined' \subseteq {i \in joined : i <= n}
      <4>1. \A i \in Nat : i < n => i <= n
        BY <3>2
      <4>2. \/ joined' = {i \in joined : i < n}
            \/ joined' = {i \in joined : i <= n}
        BY <3>1, Zenon DEF CutAfter
      <4> QED
        BY <3>9, <4>1, <4>2
    <3>6. joined' \subseteq DOMAIN audit'
      BY <3>2, <3>3, <3>5
    <3>7. ASSUME torn' = "newline" PROVE n >= 1
      <4>1. n \in joined \/ n > synced \/ (n = Len(audit) /\ torn = "newline")
        BY <3>1, <3>7 DEF CutAfter
      <4>2. CASE n \in joined
        BY <3>2, <4>2
      <4>3. CASE n > synced
        BY <3>2, <4>3
      <4>4. CASE n = Len(audit) /\ torn = "newline"
        BY <3>2, <4>4
      <4> QED
        BY <4>1, <4>2, <4>3, <4>4
    <3>8. n >= 1 => audit' # <<>>
      BY <3>2, <3>3
    <3>10. synced' \in 0..Len(audit')
      BY <3>1, <3>2, <3>3
    <3> QED
      BY <3>3, <3>4, <3>6, <3>7, <3>8, <3>10
  <2>3. /\ grants' \subseteq Keys /\ durable' \subseteq Keys
        /\ auditLock' = Nobody /\ grantLock' = Nobody /\ UNCHANGED <<acked, wiped>>
    BY <1>18 DEF Power
  <2>4. /\ queue' \in [Hosts -> Seq(Threads)] /\ w' \in [Hosts -> Writer]
        /\ thread' \in [Threads -> ThreadPc]
    BY <1>18, ServingType DEF Power, ThreadPc
  <2> QED
    BY <2>1, <2>2, <2>3, <2>4
<1>19. ASSUME UNCHANGED vars PROVE TypeOK'
  BY <1>19 DEF vars, auditVars, grantVars
<1> QED
  BY <1>1, <1>2, <1>3, <1>4, <1>5, <1>6, <1>7, <1>8, <1>9, <1>10, <1>11, <1>12,
     <1>13, <1>14, <1>15, <1>16, <1>17, <1>18, <1>19 DEF Next, Commit, Reconcile

LEMMA TypeInit == Init => TypeOK
<1> SUFFICES ASSUME Init PROVE TypeOK
  OBVIOUS
<1>1. audit \in Seq(Line) /\ synced \in 0..Len(audit)
  BY DEF Init
<1>2. torn = "none" /\ joined = {} /\ wiped = {}
  BY DEF Init
<1>3. queue \in [Hosts -> Seq(Threads)]
  BY DEF Init
<1>4. w \in [Hosts -> Writer] /\ thread \in [Threads -> ThreadPc]
  BY ServingType DEF Init, ThreadPc
<1> QED
  BY <1>1, <1>2, <1>3, <1>4, KeysAssumption, FaultsAssumption DEF Init, TypeOK

\* The type invariant of the writer, its files and its callers.
THEOREM TypeCorrect == Spec => []TypeOK
<1>1. TypeOK /\ [Next]_vars => TypeOK'
  BY TypeStep
<1> QED
  BY <1>1, TypeInit, PTL DEF Spec

-----------------------------------------------------------------------------
(* The audit log grows.                                                     *)

LEMMA LogGrows ==
    ASSUME TypeOK, [Next]_vars
    PROVE  synced <= synced' /\ \A i \in 1..synced : audit'[i] = audit[i]
<1> USE DEF TypeOK
<1>1. ASSUME UNCHANGED <<audit, synced>>
      PROVE  synced <= synced' /\ \A i \in 1..synced : audit'[i] = audit[i]
  BY <1>1
<1>2. ASSUME NEW h \in Hosts, NEW n \in 0..Len(w[h].batch),
             audit' = audit \o Entries(h, n), UNCHANGED synced
      PROVE  synced <= synced' /\ \A i \in 1..synced : audit'[i] = audit[i]
  <2>1. Entries(h, n) \in Seq(Line)
    BY EntriesType
  <2> QED
    BY <1>2, <2>1
<1>3. ASSUME NEW h \in Hosts, SyncAudit(h)
      PROVE  synced <= synced' /\ \A i \in 1..synced : audit'[i] = audit[i]
  BY <1>3 DEF SyncAudit
<1>4. ASSUME Power
      PROVE  synced <= synced' /\ \A i \in 1..synced : audit'[i] = audit[i]
  <2>1. PICK n \in synced..Len(audit) : audit' = SubSeq(audit, 1, n) /\ synced' = n
    BY <1>4 DEF Power
  <2> QED
    BY <2>1
<1>5. ASSUME NEW h \in Hosts, AppendAudit(h)
      PROVE  synced <= synced' /\ \A i \in 1..synced : audit'[i] = audit[i]
  <2>1. Len(w[h].batch) \in 0..Len(w[h].batch)
    BY DEF Writer
  <2> QED
    BY <1>2, <1>5, <2>1 DEF AppendAudit
<1>6. ASSUME NEW h \in Hosts, Fail(h)
      PROVE  synced <= synced' /\ \A i \in 1..synced : audit'[i] = audit[i]
  <2>1. ASSUME NEW n \in 0..Len(w[h].batch), audit' = audit \o Entries(h, n)
        PROVE  synced <= synced' /\ \A i \in 1..synced : audit'[i] = audit[i]
    BY <1>2, <1>6, <2>1 DEF Fail
  <2> QED
    BY <1>1, <1>6, <2>1 DEF Fail
<1>7. ASSUME NEW t \in Threads, Check(t) \/ Submit(t) \/ Notify(t) PROVE UNCHANGED <<audit, synced>>
  BY <1>7 DEF Check, Submit, Notify, auditVars
<1>8. ASSUME NEW h \in Hosts,
             \/ Drain(h) \/ Wait(h) \/ SpuriousWake(h) \/ Reconcile(h) \/ Kill(h)
             \/ AcquireAudit(h) \/ RefuseAudit(h) \/ Load(h) \/ Lock(h) \/ LockUnread(h)
             \/ Rename(h) \/ SyncDir(h)
      PROVE  UNCHANGED <<audit, synced>>
  BY <1>8 DEF Drain, Wait, SpuriousWake, Reconcile, ReadGrants, ReadAudit, Quarantine,
     Kill, AcquireAudit, RefuseAudit, Load, Lock, LockUnread, Rename, SyncDir, auditVars
<1>9. ASSUME UNCHANGED vars PROVE UNCHANGED <<audit, synced>>
  BY <1>9 DEF vars, auditVars
<1> QED
  BY <1>1, <1>3, <1>4, <1>5, <1>6, <1>7, <1>8, <1>9 DEF Next, Commit

LEMMA RecordedGrows ==
    ASSUME TypeOK, [Next]_vars
    PROVE  Recorded \subseteq Recorded'
<1>1. synced <= synced' /\ \A i \in 1..synced : audit'[i] = audit[i]
  BY LogGrows
<1>2. synced \in Nat /\ synced' \in Nat
  BY TypeStep DEF TypeOK
<1> QED
  BY <1>1, <1>2 DEF Recorded

-----------------------------------------------------------------------------
(* The invariant.                                                           *)

\* Steps that leave the files alone need only keep what is said of the hosts.
LEMMA QuietStep ==
    ASSUME IInv, TypeOK', UNCHANGED <<audit, joined, synced, grants, durable, acked, wiped>>,
           LocksOK', TailOK', EditOK'
    PROVE  IInv'
BY DEF IInv, DiskOK, WriteAhead, ChainVerifies, AckedKept, Recorded

\* A host that takes up a stage in which it holds nothing and edits nothing.
LEMMA IdleStep ==
    ASSUME IInv, TypeOK', NEW h \in Hosts, NEW r \in Writer,
           UNCHANGED <<audit, joined, synced, grants, durable, acked, wiped, auditLock, grantLock>>,
           w' = [w EXCEPT ![h] = r],
           r.pc \notin {"append", "sync", "load", "lock", "rename", "dirsync"},
           Sound(r)
    PROVE  IInv'
<1> USE DEF IInv
<1>1. w' \in [Hosts -> Writer] /\ w'[h] = r /\ \A g \in Hosts \ {h} : w'[g] = w[g]
  BY DEF TypeOK
<1>2. LocksOK' /\ TailOK'
  BY <1>1 DEF LocksOK, TailOK
<1>3. Recorded' = Recorded /\ Logged' = Logged /\ Garbled' = Garbled
  BY DEF Recorded, Logged, Garbled, Readable
<1>4. \A g \in Hosts \ {h} : BatchKeys(g)' = BatchKeys(g)
  BY <1>1 DEF BatchKeys, Batch
<1>5. EditOK'
  BY <1>1, <1>3, <1>4 DEF EditOK, Sound
<1> QED
  BY <1>2, <1>5, QuietStep

LEMMA ThreadSteps ==
    ASSUME IInv, TypeOK', NEW t \in Threads, Check(t) \/ Submit(t) \/ Notify(t)
    PROVE  IInv'
<1>1. CASE UNCHANGED w
  <2>1. UNCHANGED <<audit, joined, synced, grants, durable, acked, wiped, auditLock, grantLock>>
    BY DEF Check, Submit, Notify, auditVars, grantVars
  <2>2. /\ Recorded' = Recorded /\ Logged' = Logged /\ Garbled' = Garbled
        /\ \A h \in Hosts : BatchKeys(h)' = BatchKeys(h)
    BY <1>1, <2>1 DEF BatchKeys, Batch, Recorded, Logged, Garbled, Readable
  <2>3. LocksOK' /\ TailOK' /\ EditOK'
    BY <1>1, <2>1, <2>2 DEF IInv, LocksOK, TailOK, EditOK, Sound
  <2> QED
    BY <2>1, <2>3, QuietStep
<1>2. CASE Notify(t) /\ At(HostOf[t], "waiting") /\ Goto(HostOf[t], "drain")
  <2> DEFINE h == HostOf[t]
             r == [w[h] EXCEPT !.pc = "drain"]
  <2>1. h \in Hosts /\ w[h] \in Writer
    BY HostsAssumption DEF IInv, TypeOK
  <2>2. /\ r \in Writer /\ r.pc = "drain" /\ r.snap = w[h].snap /\ r.del = w[h].del
        /\ r.batch = w[h].batch /\ r.blind = w[h].blind
    BY <2>1 DEF Writer
  <2>3. w' = [w EXCEPT ![h] = r]
    BY <1>2 DEF Goto
  <2>4. Sound(r)
    <3>1. Sound(w[h])
      BY <2>1 DEF IInv, EditOK
    <3> HIDE DEF r, h
    <3> QED
      BY <2>2, <3>1 DEF Sound
  <2>5. UNCHANGED <<audit, joined, synced, grants, durable, acked, wiped, auditLock, grantLock>>
    BY <1>2 DEF Notify, auditVars, grantVars
  <2> HIDE DEF r, h
  <2> QED
    BY <2>1, <2>2, <2>3, <2>4, <2>5, IdleStep
<1> QED
  BY <1>1, <1>2 DEF Check, Submit, Notify

LEMMA WaitSteps ==
    ASSUME IInv, TypeOK', NEW h \in Hosts,
           Wait(h) \/ SpuriousWake(h) \/ Drain(h) \/ RefuseAudit(h)
    PROVE  IInv'
<1>1. w[h] \in Writer /\ queue[h] \in Seq(Threads)
  BY DEF IInv, TypeOK
<1>2. Sound(w[h])
  BY DEF IInv, EditOK
<1>3. UNCHANGED <<audit, joined, synced, grants, durable, acked, wiped, auditLock, grantLock>>
  BY DEF Wait, SpuriousWake, Drain, RefuseAudit, auditVars, grantVars
<1>4. ASSUME NEW pc \in {"waiting", "drain"}, Goto(h, pc) PROVE IInv'
  <2> DEFINE r == [w[h] EXCEPT !.pc = pc]
  <2>1. /\ r \in Writer /\ r.pc = pc /\ r.snap = w[h].snap /\ r.del = w[h].del
        /\ r.batch = w[h].batch /\ r.blind = w[h].blind
    BY <1>1 DEF Writer
  <2>2. w' = [w EXCEPT ![h] = r]
    BY <1>4 DEF Goto
  <2> HIDE DEF r
  <2>3. Sound(r)
    BY <1>2, <2>1 DEF Sound
  <2> QED
    BY <1>3, <2>1, <2>2, <2>3, IdleStep
<1>5. CASE Drain(h)
  <2> DEFINE r == Stage(IF queue[h] = <<>> THEN "empty" ELSE "audit", queue[h], 0, {}, {})
  <2>1. /\ r \in Writer /\ r.pc \in {"empty", "audit"}
        /\ r.snap = {} /\ r.del = {} /\ r.blind = {}
    BY <1>1 DEF Stage, Writer
  <2>2. w' = [w EXCEPT ![h] = r]
    BY <1>5 DEF Drain
  <2> HIDE DEF r
  <2>3. Sound(r)
    BY <2>1 DEF Sound
  <2> QED
    BY <1>3, <2>1, <2>2, <2>3, IdleStep
<1>6. CASE RefuseAudit(h)
  <2>1. w' = [w EXCEPT ![h] = Serving]
    BY <1>6 DEF RefuseAudit, Answer
  <2>2. Serving \in Writer /\ Serving.pc = "drain" /\ Sound(Serving)
    BY ServingType DEF Serving, Stage, Sound
  <2> QED
    BY <1>3, <2>1, <2>2, IdleStep
<1> QED
  BY <1>4, <1>5, <1>6 DEF Wait, SpuriousWake

\* What the log has and does not show is unreadable.
LEMMA Explained == ASSUME TypeOK PROVE Recorded \subseteq Audited \cup Garbled
BY DEF TypeOK, Recorded, Audited, Garbled

LEMMA ReconcileSteps ==
    ASSUME IInv, TypeOK', NEW h \in Hosts, ReadGrants(h) \/ ReadAudit(h)
    PROVE  IInv'
<1>1. w \in [Hosts -> Writer] /\ w[h] \in Writer /\ grants \subseteq Keys
  BY DEF IInv, TypeOK
<1>2. w[h].snap \subseteq Recorded \cup Legacy /\ grants \subseteq Recorded \cup Legacy
  BY DEF IInv, EditOK, Sound, WriteAhead
<1>3. UNCHANGED <<audit, joined, synced, grants, durable, acked, wiped, auditLock, grantLock>>
  BY DEF ReadGrants, ReadAudit, auditVars, grantVars
<1>4. ASSUME NEW keys \in SUBSET grants, w' = [w EXCEPT ![h] = Stage("reconcile", <<>>, 0, {}, keys)]
      PROVE  IInv'
  <2> DEFINE r == Stage("reconcile", <<>>, 0, {}, keys)
  <2>1. r \in Writer /\ r.pc = "reconcile" /\ r.snap = keys /\ r.del = {} /\ r.blind = {}
    BY <1>1 DEF Stage, Writer
  <2>2. w' = [w EXCEPT ![h] = r]
    BY <1>4
  <2> HIDE DEF r
  <2>3. Sound(r)
    BY <1>2, <2>1 DEF Sound
  <2> QED
    BY <1>3, <2>1, <2>2, <2>3, IdleStep
<1>5. ASSUME NEW e, NEW b \in SUBSET {"grants", "audit"}, Orphan(h, e, b),
             "grants" \notin b,
             "audit" \notin b => w[h].snap \ e \subseteq Legacy \cup Garbled
      PROVE  IInv'
  <2> DEFINE r == Orphans(h, e, b)
  <2>1. /\ w' = [w EXCEPT ![h] = r]
        /\ r \in Writer /\ r.batch = <<>> /\ r.pc \in {"drain", "quarantine"}
        /\ \/ r.snap = {} /\ r.del = {} /\ r.blind = {}
           \/ r.snap = w[h].snap /\ r.del = w[h].snap \ e /\ r.blind = b
    BY <1>1, <1>5, OrphanType
  <2> HIDE DEF r
  <2>2. Sound(r)
    BY <1>2, <1>5, <2>1 DEF Sound
  <2> QED
    BY <1>3, <2>1, <2>2, IdleStep
<1>6. w[h].snap \ Audited \subseteq Legacy \cup Garbled
  BY <1>2, Explained DEF IInv
<1>7. {} \in SUBSET grants /\ grants \in SUBSET grants
  OBVIOUS
<1>8. CASE ReadGrants(h)
  BY <1>4, <1>7, <1>8 DEF ReadGrants
<1>9. CASE ReadAudit(h)
  <2>1. CASE Orphan(h, Audited, {})
    BY <1>5, <1>6, <2>1
  <2>2. CASE Orphan(h, {}, {"audit"})
    BY <1>5, <2>2
  <2> QED
    BY <1>9, <2>1, <2>2 DEF ReadAudit
<1> QED
  BY <1>8, <1>9

\* A host that goes on with its edit, its batch being on disk.
LEMMA EditStep ==
    ASSUME IInv, TypeOK', NEW h \in Hosts, NEW r \in Writer,
           UNCHANGED <<audit, joined, synced, grants, durable, acked, wiped>>,
           w' = [w EXCEPT ![h] = r],
           r.pc \in {"load", "lock", "rename"},
           BatchKeys(h)' \subseteq Recorded,
           Sound(r),
           r.pc = "rename" /\ "grants" \notin r.blind => r.snap = grants,
           LocksOK'
    PROVE  IInv'
<1> USE DEF IInv
<1>1. w'[h] = r /\ \A g \in Hosts \ {h} : w'[g] = w[g]
  BY DEF TypeOK
<1>2. TailOK'
  BY <1>1 DEF TailOK
<1>3. Recorded' = Recorded /\ Logged' = Logged /\ Garbled' = Garbled
  BY DEF Recorded, Logged, Garbled, Readable
<1>4. \A g \in Hosts \ {h} : BatchKeys(g)' = BatchKeys(g)
  BY <1>1 DEF BatchKeys, Batch
<1>5. EditOK'
  BY <1>1, <1>3, <1>4 DEF EditOK, Sound
<1> QED
  BY <1>2, <1>5, QuietStep

LEMMA EditSteps ==
    ASSUME IInv, TypeOK', NEW h \in Hosts,
           Quarantine(h) \/ Load(h) \/ Lock(h) \/ LockUnread(h)
    PROVE  IInv'
<1>1. w \in [Hosts -> Writer] /\ w[h] \in Writer /\ grants \subseteq Keys
  BY DEF IInv, TypeOK
<1>2. Sound(w[h]) /\ grants \subseteq Recorded \cup Legacy
  BY DEF IInv, EditOK, WriteAhead
<1>3. UNCHANGED <<audit, joined, synced, grants, durable, acked, wiped, auditLock>>
  BY DEF Quarantine, Load, Lock, LockUnread, auditVars, grantVars
<1>4. BatchKeys(h) \subseteq Recorded
  <2>1. CASE At(h, "quarantine")
    <3>1. w[h].batch = <<>>
      BY <1>2, <2>1 DEF Sound, At
    <3> QED
      BY <3>1 DEF BatchKeys, Batch
  <2>2. CASE At(h, "load") \/ At(h, "lock")
    BY <2>2 DEF IInv, EditOK, At
  <2> QED
    BY <2>1, <2>2 DEF Quarantine, Load, Lock, LockUnread
<1>5. ASSUME NEW r \in Writer, w' = [w EXCEPT ![h] = r], r.batch = w[h].batch,
             r.del = w[h].del, r.pc \in {"load", "lock", "rename"},
             r.snap \subseteq Recorded \cup Legacy, "grants" \in r.blind => r.snap = {},
             "audit" \in w[h].blind => "audit" \in r.blind,
             r.pc = "rename" /\ "grants" \notin r.blind => r.snap = grants,
             \/ UNCHANGED grantLock /\ r.pc # "rename"
             \/ grantLock = Nobody /\ grantLock' = h
      PROVE  IInv'
  <2>1. w'[h] = r /\ \A g \in Hosts \ {h} : w'[g] = w[g]
    BY <1>1, <1>5
  <2>2. BatchKeys(h)' \subseteq Recorded
    BY <1>4, <1>5, <2>1 DEF BatchKeys, Batch
  <2>3. Sound(r)
    BY <1>2, <1>5 DEF Sound
  <2>4. LocksOK'
    BY <1>3, <1>5, <2>1, HostsAssumption DEF IInv, LocksOK
  <2> QED
    BY <1>3, <1>5, <2>2, <2>3, <2>4, EditStep
<1>6. ASSUME NEW pc \in {"lock", "rename"}, NEW keys \in SUBSET grants,
             NEW blind \in SUBSET {"grants", "audit"},
             w' = [w EXCEPT ![h] = Found(w[h], pc, keys, blind)],
             "grants" \in blind => keys = {},
             "audit" \in w[h].blind => "audit" \in blind,
             pc = "rename" => "grants" \in blind,
             \/ UNCHANGED grantLock /\ pc # "rename"
             \/ grantLock = Nobody /\ grantLock' = h
      PROVE  IInv'
  <2> DEFINE r == Found(w[h], pc, keys, blind)
  <2>1. keys \in SUBSET Keys
    BY <1>1
  <2>2. /\ r \in Writer /\ r.pc = pc /\ r.batch = w[h].batch
        /\ r.snap = keys /\ r.del = w[h].del /\ r.blind = blind
    BY <1>1, <2>1, FoundType
  <2>3. w' = [w EXCEPT ![h] = r]
    BY <1>6
  <2> HIDE DEF r
  <2> QED
    BY <1>2, <1>5, <1>6, <2>2, <2>3
<1>7. ASSUME NEW pc \in {"load", "rename"}, Goto(h, pc),
             pc = "rename" /\ "grants" \notin w[h].blind => w[h].snap = grants,
             \/ UNCHANGED grantLock /\ pc # "rename"
             \/ grantLock = Nobody /\ grantLock' = h
      PROVE  IInv'
  <2> DEFINE r == [w[h] EXCEPT !.pc = pc]
  <2>1. /\ r \in Writer /\ r.pc = pc /\ r.batch = w[h].batch
        /\ r.snap = w[h].snap /\ r.del = w[h].del /\ r.blind = w[h].blind
    BY <1>1 DEF Writer
  <2>2. w' = [w EXCEPT ![h] = r]
    BY <1>7 DEF Goto
  <2> HIDE DEF r
  <2>3. r.snap \subseteq Recorded \cup Legacy /\ ("grants" \in r.blind => r.snap = {})
    BY <1>2, <2>1 DEF Sound
  <2> QED
    BY <1>5, <1>7, <2>1, <2>2, <2>3
<1>8. /\ w[h].blind \cup {"grants"} \in SUBSET {"grants", "audit"}
      /\ w[h].blind \ {"grants"} \in SUBSET {"grants", "audit"}
      /\ {} \in SUBSET grants /\ grants \in SUBSET grants
  BY <1>1 DEF Writer
<1>9. CASE Quarantine(h)
  BY <1>7, <1>9 DEF Quarantine, grantVars
<1>10. CASE Load(h)
  <2>1. UNCHANGED grantLock
    BY <1>10 DEF Load, grantVars
  <2>2. CASE w' = [w EXCEPT ![h] = Found(w[h], "lock", grants, w[h].blind \ {"grants"})]
    BY <1>6, <1>8, <2>1, <2>2
  <2>3. CASE w' = [w EXCEPT ![h] = Found(w[h], "lock", {}, w[h].blind \cup {"grants"})]
    BY <1>6, <1>8, <2>1, <2>3
  <2> QED
    BY <1>10, <2>2, <2>3 DEF Load
<1>11. CASE Lock(h)
  <2>1. \/ /\ grants = w[h].snap \/ "grants" \in w[h].blind
           /\ Goto(h, "rename") /\ grantLock = Nobody /\ grantLock' = h
        \/ Goto(h, "load") /\ UNCHANGED grantLock
    BY <1>11 DEF Lock
  <2> QED
    BY <1>7, <2>1
<1>12. CASE LockUnread(h)
  <2>1. /\ w' = [w EXCEPT ![h] = Found(w[h], "rename", {}, w[h].blind \cup {"grants"})]
        /\ grantLock = Nobody /\ grantLock' = h
    BY <1>12 DEF LockUnread
  <2> QED
    BY <1>6, <1>8, <2>1
<1> QED
  BY <1>9, <1>10, <1>11, <1>12

\* Appending the entries built from the tail keeps the chain.
LEMMA ChainStep ==
    ASSUME IInv, NEW h \in Hosts, w[h].pc = "append", NEW n \in 0..Len(w[h].batch),
           audit' = audit \o Entries(h, n), joined' = Joined, UNCHANGED synced
    PROVE  /\ ChainVerifies'
           /\ Recorded' = Recorded
           /\ Logged \subseteq Logged' /\ Garbled \subseteq Garbled'
           /\ \A i \in 1..n : KeyOf[w[h].batch[i]] \in Logged'
<1> DEFINE new == Entries(h, n)
<1>1. /\ new \in Seq(Line) /\ Len(new) = n
      /\ \A i \in 1..n : new[i] = [key |-> KeyOf[w[h].batch[i]], prev |-> w[h].tail + i - 1]
  BY EntriesType DEF IInv
<1>2. audit \in Seq(Line) /\ synced \in 0..Len(audit) /\ n \in Nat
  BY DEF IInv, TypeOK, Writer
<1>3. w[h].tail = Len(audit)
  BY DEF IInv, TailOK
<1> HIDE DEF new
<1>4. audit' = audit \o new
  BY DEF new
<1>5. /\ Len(audit') = Len(audit) + n
      /\ \A i \in 1..Len(audit) : audit'[i] = audit[i]
      /\ \A i \in 1..n : audit'[Len(audit) + i] = new[i]
      /\ DOMAIN audit = 1..Len(audit) /\ DOMAIN audit' = 1..Len(audit')
  <2>1. Len(audit') = Len(audit) + n
    <3>0. new \in Seq(Line) /\ audit \in Seq(Line)
      BY <1>1, <1>2
    <3>1. Len(audit \o new) = Len(audit) + Len(new)
      BY <3>0
    <3> QED
      BY <1>1, <1>4, <3>1
  <2>2. DOMAIN audit = 1..Len(audit) /\ DOMAIN audit' = 1..Len(audit')
    BY <1>1, <1>2, <1>4
  <2>3. \A i \in 1..Len(audit) : audit'[i] = audit[i]
    BY <1>1, <1>2, <1>4
  <2>4. \A i \in 1..n : audit'[Len(audit) + i] = new[i]
    BY <1>1, <1>2, <1>4
  <2> QED
    BY <2>1, <2>2, <2>3, <2>4
<1>10. \A i \in 1..Len(audit) : audit[i].prev = i - 1
  BY <1>2 DEF IInv, ChainVerifies
<1>6. ChainVerifies'
  <2> SUFFICES ASSUME NEW i \in 1..Len(audit') PROVE audit'[i].prev = i - 1
    BY <1>5 DEF ChainVerifies
  <2>1. CASE i <= Len(audit)
    BY <1>2, <1>5, <1>10, <2>1
  <2>2. CASE i > Len(audit)
    <3> DEFINE k == i - Len(audit)
    <3>1. k \in 1..n /\ i = Len(audit) + k
      BY <1>2, <1>5, <2>2
    <3> HIDE DEF k
    <3>2. audit'[i] = [key |-> KeyOf[w[h].batch[k]], prev |-> w[h].tail + k - 1]
      BY <1>1, <1>5, <3>1
    <3> QED
      BY <1>2, <1>3, <3>1, <3>2
  <2> QED
    BY <1>2, <1>5, <2>1, <2>2
<1>7. Recorded' = Recorded
  BY <1>2, <1>5 DEF Recorded
<1>8. Logged \subseteq Logged' /\ Garbled \subseteq Garbled'
  <2>1. joined \subseteq joined'
    BY DEF Joined
  <2>2. \A i \in DOMAIN audit : i \in DOMAIN audit' /\ audit'[i] = audit[i]
    BY <1>2, <1>5
  <2>3. \A i \in DOMAIN audit : ~Readable(i) => ~Readable(i)'
    BY <2>1 DEF Readable
  <2> QED
    BY <2>2, <2>3 DEF Logged, Garbled
<1>9. ASSUME NEW i \in 1..n PROVE KeyOf[w[h].batch[i]] \in Logged'
  <2>1. Len(audit) + i \in DOMAIN audit'
    BY <1>2, <1>5
  <2>2. audit'[Len(audit) + i].key = KeyOf[w[h].batch[i]]
    BY <1>1, <1>5
  <2> QED
    BY <2>1, <2>2 DEF Logged
<1> QED
  BY <1>6, <1>7, <1>8, <1>9

LEMMA AuditSteps ==
    ASSUME IInv, TypeOK', NEW h \in Hosts, AcquireAudit(h) \/ AppendAudit(h) \/ SyncAudit(h)
    PROVE  IInv'
<1>1. w \in [Hosts -> Writer] /\ w[h] \in Writer /\ w[h].batch \in Seq(Threads)
  BY DEF IInv, TypeOK, Writer
<1>2. UNCHANGED <<grants, durable, acked, wiped, grantLock>>
  BY DEF AcquireAudit, AppendAudit, SyncAudit, grantVars
<1>3. CASE AcquireAudit(h)
  <2>1. w'[h] = Stage("append", w[h].batch, Len(audit), {}, {})
    BY <1>1, <1>3 DEF AcquireAudit
  <2>2. /\ w'[h].pc = "append" /\ w'[h].tail = Len(audit)
        /\ w'[h].snap = {} /\ w'[h].del = {} /\ w'[h].blind = {}
    BY <2>1 DEF Stage
  <2>3. \A g \in Hosts \ {h} : w'[g] = w[g]
    BY <1>1, <1>3 DEF AcquireAudit
  <2>4. auditLock = Nobody /\ auditLock' = h /\ UNCHANGED <<audit, joined, synced>>
    BY <1>3 DEF AcquireAudit
  <2>5. LocksOK' /\ TailOK'
    BY <1>2, <2>2, <2>3, <2>4, HostsAssumption DEF IInv, LocksOK, TailOK
  <2>6. \A g \in Hosts \ {h} : BatchKeys(g)' = BatchKeys(g)
    BY <2>3 DEF BatchKeys, Batch
  <2>7. Recorded' = Recorded /\ Logged' = Logged /\ Garbled' = Garbled
    BY <2>4 DEF Recorded, Logged, Garbled, Readable
  <2>8. EditOK'
    BY <1>2, <2>2, <2>3, <2>6, <2>7 DEF IInv, EditOK, Sound
  <2> QED
    BY <1>2, <2>4, <2>5, <2>8, QuietStep
<1>4. CASE AppendAudit(h)
  <2> DEFINE n == Len(w[h].batch)
  <2>1. n \in 0..Len(w[h].batch) /\ w[h].pc = "append"
    BY <1>1, <1>4 DEF AppendAudit, At
  <2>2. audit' = audit \o Entries(h, n) /\ joined' = Joined /\ UNCHANGED <<synced, auditLock>>
    BY <1>4 DEF AppendAudit
  <2>3. /\ w'[h].pc = "sync" /\ w'[h].batch = w[h].batch
        /\ w'[h].snap = w[h].snap /\ w'[h].del = w[h].del /\ w'[h].blind = w[h].blind
        /\ \A g \in Hosts \ {h} : w'[g] = w[g]
    BY <1>1, <1>4 DEF AppendAudit, Goto, Writer
  <2>4. /\ ChainVerifies' /\ Recorded' = Recorded
        /\ Logged \subseteq Logged' /\ Garbled \subseteq Garbled'
        /\ \A i \in 1..n : KeyOf[w[h].batch[i]] \in Logged'
    BY <2>1, <2>2, ChainStep
  <2>5. \A g \in Hosts : BatchKeys(g)' = BatchKeys(g)
    BY <2>3 DEF BatchKeys, Batch
  <2>6. BatchKeys(h) \subseteq Logged'
    BY <1>1, <2>4 DEF BatchKeys, Batch
  <2>7. auditLock = h /\ \A g \in Hosts \ {h} : w[g].pc # "append"
    BY <2>1 DEF IInv, LocksOK
  <2>8. LocksOK' /\ TailOK'
    BY <1>2, <2>2, <2>3, <2>7 DEF IInv, LocksOK, TailOK
  <2>9. EditOK'
    <3> SUFFICES ASSUME NEW g \in Hosts
                 PROVE  /\ Sound(w[g])'
                        /\ w'[g].pc = "sync" => BatchKeys(g)' \subseteq Logged'
                        /\ w'[g].pc \in {"load", "lock", "rename", "dirsync"}
                              => BatchKeys(g)' \subseteq Recorded'
                        /\ w'[g].pc = "rename" /\ "grants" \notin w'[g].blind
                              => w'[g].snap = grants'
                        /\ w'[g].pc = "dirsync" => BatchKeys(g)' \subseteq grants'
      BY DEF EditOK
    <3>1. CASE g = h
      BY <2>3, <2>4, <2>5, <2>6, <3>1 DEF IInv, EditOK, Sound
    <3>2. CASE g # h
      BY <1>2, <2>3, <2>4, <2>5, <3>2 DEF IInv, EditOK, Sound
    <3> QED
      BY <3>1, <3>2
  <2> QED
    BY <1>2, <2>4, <2>8, <2>9 DEF IInv, DiskOK, WriteAhead, AckedKept
<1>5. CASE SyncAudit(h)
  <2>1. synced' = Len(audit) /\ auditLock' = Nobody /\ UNCHANGED <<audit, joined>> /\ w[h].pc = "sync"
    BY <1>5 DEF SyncAudit, At
  <2>2. /\ w'[h].pc = "load" /\ w'[h].batch = w[h].batch
        /\ w'[h].snap = w[h].snap /\ w'[h].del = w[h].del /\ w'[h].blind = w[h].blind
        /\ \A g \in Hosts \ {h} : w'[g] = w[g]
    BY <1>1, <1>5 DEF SyncAudit, Goto, Writer
  <2>3. audit \in Seq(Line) /\ synced \in 0..Len(audit)
    BY DEF IInv, TypeOK
  <2>4. /\ Recorded' = Logged /\ Recorded \subseteq Recorded'
        /\ Logged' = Logged /\ Garbled' = Garbled
    BY <2>1, <2>3 DEF Recorded, Logged, Garbled, Readable
  <2>5. \A g \in Hosts : BatchKeys(g)' = BatchKeys(g)
    BY <2>2 DEF BatchKeys, Batch
  <2>6. BatchKeys(h) \subseteq Recorded'
    BY <2>1, <2>4 DEF IInv, EditOK
  <2>7. auditLock = h /\ \A g \in Hosts \ {h} : w[g].pc \notin {"append", "sync"}
    BY <2>1 DEF IInv, LocksOK
  <2>8. LocksOK' /\ TailOK'
    BY <1>2, <2>1, <2>2, <2>7 DEF IInv, LocksOK, TailOK
  <2>9. EditOK'
    BY <1>2, <2>2, <2>4, <2>5, <2>6 DEF IInv, EditOK, Sound
  <2>10. ChainVerifies'
    BY <2>1 DEF IInv, ChainVerifies
  <2> QED
    BY <1>2, <2>4, <2>8, <2>9, <2>10 DEF IInv, DiskOK, WriteAhead, AckedKept
<1> QED
  BY <1>3, <1>4, <1>5

LEMMA StoreSteps ==
    ASSUME IInv, TypeOK', NEW h \in Hosts, Rename(h) \/ SyncDir(h)
    PROVE  IInv'
<1>1. w \in [Hosts -> Writer] /\ w[h] \in Writer
  BY DEF IInv, TypeOK
<1>2. UNCHANGED <<audit, joined, synced, auditLock>>
  BY DEF Rename, SyncDir, auditVars
<1>3. Recorded' = Recorded /\ Logged' = Logged /\ Garbled' = Garbled /\ ChainVerifies'
  BY <1>2 DEF Recorded, Logged, Garbled, Readable, IInv, ChainVerifies
<1>4. /\ BatchKeys(h) \subseteq Recorded /\ Sound(w[h]) /\ grantLock = h
      /\ \A g \in Hosts \ {h} : w[g].pc \notin {"rename", "dirsync"}
  BY DEF IInv, EditOK, LocksOK, Rename, SyncDir, At
<1>5. CASE Rename(h)
  <2> DEFINE e == Edited(h)
             dropped == grants \ e
  <2>1. /\ e = (w[h].snap \cup BatchKeys(h)) \ w[h].del
        /\ w[h].snap = grants \/ ("grants" \in w[h].blind /\ w[h].snap = {})
    BY <1>4, <1>5 DEF Rename, Edited, IInv, EditOK, Sound, At
  <2>2. /\ grants' = e /\ UNCHANGED <<durable, acked, grantLock>>
        /\ wiped' = wiped \cup (IF w[h].blind # {} THEN dropped ELSE dropped \cap Garbled)
    BY <1>5 DEF Rename
  <2>3. /\ w'[h].pc = "dirsync" /\ w'[h].batch = w[h].batch
        /\ w'[h].snap = w[h].snap /\ w'[h].del = w[h].del /\ w'[h].blind = w[h].blind
        /\ \A g \in Hosts \ {h} : w'[g] = w[g]
    BY <1>1, <1>5 DEF Rename, Goto, Writer
  <2> HIDE DEF e
  <2>4. \A g \in Hosts : BatchKeys(g)' = BatchKeys(g)
    BY <2>3 DEF BatchKeys, Batch
  <2>5. LocksOK' /\ TailOK'
    BY <1>2, <1>4, <2>2, <2>3 DEF IInv, LocksOK, TailOK
  <2>6. BatchKeys(h) \subseteq e
    <3>1. w[h].del # {} => BatchKeys(h) = {}
      BY <1>4 DEF Sound, BatchKeys, Batch
    <3> QED
      BY <2>1, <3>1
  <2>7. EditOK'
    BY <1>3, <1>4, <2>2, <2>3, <2>4, <2>6 DEF IInv, EditOK, Sound
  <2>8. dropped \subseteq Legacy \cup wiped'
    <3>1. CASE w[h].blind # {}
      BY <2>2, <3>1
    <3>2. CASE w[h].blind = {}
      <4>1. dropped \subseteq w[h].del /\ w[h].del \subseteq Legacy \cup Garbled
        BY <1>4, <2>1, <3>2 DEF Sound
      <4>2. dropped \cap Garbled \subseteq wiped'
        BY <2>2, <3>2
      <4> QED
        BY <4>1, <4>2
    <3> QED
      BY <3>1, <3>2
  <2>9. wiped \subseteq wiped'
    BY <2>2
  <2>10. e \subseteq grants \cup Recorded
    BY <1>4, <2>1
  <2>11. grants' = e /\ durable' = durable /\ acked' = acked /\ Recorded' = Recorded
    BY <1>3, <2>2
  <2>12. DiskOK' /\ WriteAhead' /\ AckedKept'
    BY <2>8, <2>9, <2>10, <2>11 DEF IInv, DiskOK, WriteAhead, AckedKept
  <2> QED
    BY <1>3, <2>5, <2>7, <2>12 DEF IInv
<1>6. CASE SyncDir(h)
  <2>1. /\ durable' = grants /\ UNCHANGED grants /\ grantLock' = Nobody
        /\ acked' = acked \cup BatchKeys(h) /\ wiped' = wiped \ BatchKeys(h)
        /\ w' = [w EXCEPT ![h] = Serving]
    BY <1>6 DEF SyncDir, Answer
  <2>2. BatchKeys(h) \subseteq grants
    BY <1>6 DEF SyncDir, At, IInv, EditOK
  <2>3. w'[h] = Serving /\ \A g \in Hosts \ {h} : w'[g] = w[g]
    BY <1>1, <2>1
  <2>4. Serving.pc = "drain" /\ Serving.snap = {} /\ Serving.del = {} /\ Serving.blind = {}
    BY DEF Serving, Stage
  <2>5. \A g \in Hosts \ {h} : BatchKeys(g)' = BatchKeys(g)
    BY <2>3 DEF BatchKeys, Batch
  <2>6. LocksOK' /\ TailOK'
    BY <1>2, <1>4, <2>3, <2>4 DEF IInv, LocksOK, TailOK
  <2>7. EditOK'
    BY <1>3, <2>1, <2>3, <2>4, <2>5 DEF IInv, EditOK, Sound
  <2>8. DiskOK' /\ WriteAhead' /\ AckedKept'
    BY <1>3, <2>1, <2>2 DEF IInv, DiskOK, WriteAhead, AckedKept
  <2> QED
    BY <1>3, <2>6, <2>7, <2>8 DEF IInv
<1> QED
  BY <1>5, <1>6

LEMMA FaultSteps ==
    ASSUME IInv, TypeOK', NEW h \in Hosts, Fail(h) \/ Kill(h)
    PROVE  IInv'
<1>1. w \in [Hosts -> Writer] /\ UNCHANGED <<synced, grants, durable, acked, wiped>>
  BY DEF IInv, TypeOK, Fail, Kill
<1>2. auditLock' = Released(auditLock, h) /\ grantLock' = Released(grantLock, h)
  BY DEF Fail, Kill
<1>4. w' = [w EXCEPT ![h] = Serving] \/ w' = [w EXCEPT ![h] = Boot]
  BY DEF Fail, Kill, Answer
<1>5. /\ w'[h].pc \in {"drain", "boot"}
      /\ w'[h].snap = {} /\ w'[h].del = {} /\ w'[h].blind = {}
      /\ \A g \in Hosts \ {h} : w'[g] = w[g]
  BY <1>1, <1>4 DEF Serving, Boot, Stage
<1>6. /\ ChainVerifies' /\ Recorded' = Recorded
      /\ Logged \subseteq Logged' /\ Garbled \subseteq Garbled'
      /\ audit' = audit \/ \A g \in Hosts \ {h} : w[g].pc # "append"
  <2>1. CASE UNCHANGED <<audit, joined>>
    BY <1>1, <2>1 DEF Recorded, Logged, Garbled, Readable, IInv, ChainVerifies
  <2>2. ASSUME NEW n \in 0..Len(w[h].batch), audit' = audit \o Entries(h, n),
               joined' = Joined, w[h].pc = "append"
        PROVE  /\ ChainVerifies' /\ Recorded' = Recorded
               /\ Logged \subseteq Logged' /\ Garbled \subseteq Garbled'
               /\ \A g \in Hosts \ {h} : w[g].pc # "append"
    <3>1. \A g \in Hosts \ {h} : w[g].pc # "append"
      BY <2>2 DEF IInv, LocksOK
    <3> QED
      BY <1>1, <2>2, <3>1, ChainStep
  <2> QED
    BY <2>1, <2>2 DEF Fail, Kill, At
<1>7. \A g \in Hosts \ {h} : BatchKeys(g)' = BatchKeys(g)
  BY <1>5 DEF BatchKeys, Batch
<1>8. LocksOK'
  BY <1>2, <1>5 DEF IInv, LocksOK, Released
<1>9. TailOK'
  BY <1>5, <1>6 DEF IInv, TailOK
<1>10. EditOK'
  BY <1>1, <1>5, <1>6, <1>7 DEF IInv, EditOK, Sound
<1> QED
  BY <1>1, <1>6, <1>8, <1>9, <1>10 DEF IInv, DiskOK, WriteAhead, AckedKept

LEMMA PowerStep == ASSUME IInv, TypeOK', [Next]_vars, Power PROVE IInv'
<1>1. \A h \in Hosts : w'[h] = Boot
  BY DEF Power
<1>2. Boot.pc = "boot" /\ Boot.snap = {} /\ Boot.del = {} /\ Boot.blind = {}
  BY DEF Boot, Stage
<1>3. LocksOK' /\ TailOK' /\ EditOK'
  BY <1>1, <1>2 DEF LocksOK, TailOK, EditOK, Sound
<1>4. Recorded \subseteq Recorded'
  BY RecordedGrows DEF IInv
<1>5. PICK n \in synced..Len(audit) : audit' = SubSeq(audit, 1, n)
  BY DEF Power
<1>6. audit \in Seq(Line) /\ n \in 0..Len(audit)
  BY DEF IInv, TypeOK
<1>7. \A i \in 1..Len(audit) : audit[i].prev = i - 1
  BY <1>6 DEF IInv, ChainVerifies
<1>8. ChainVerifies'
  BY <1>5, <1>6, <1>7 DEF ChainVerifies
<1>9. grants' \in {grants, durable} /\ durable' = grants' /\ UNCHANGED <<acked, wiped>>
  BY DEF Power
<1>10. DiskOK' /\ WriteAhead' /\ AckedKept'
  BY <1>4, <1>9 DEF IInv, DiskOK, WriteAhead, AckedKept
<1> QED
  BY <1>3, <1>8, <1>10 DEF IInv

LEMMA InvariantInit == Init => IInv
<1> SUFFICES ASSUME Init PROVE IInv
  OBVIOUS
<1>1. TypeOK
  BY TypeInit
<1>2. audit = <<>> /\ grants = Legacy /\ durable = Legacy /\ acked = {} /\ wiped = {}
  BY DEF Init
<1>3. \A h \in Hosts : w[h] = Boot
  BY DEF Init
<1>4. Boot.pc = "boot" /\ Boot.snap = {} /\ Boot.del = {} /\ Boot.blind = {}
  BY DEF Boot, Stage
<1>5. LocksOK /\ TailOK /\ EditOK
  BY <1>3, <1>4 DEF LocksOK, TailOK, EditOK, Sound
<1>6. DiskOK /\ WriteAhead /\ AckedKept
  BY <1>2 DEF DiskOK, WriteAhead, AckedKept
<1>7. ChainVerifies
  BY <1>2 DEF ChainVerifies
<1> QED
  BY <1>1, <1>5, <1>6, <1>7 DEF IInv

LEMMA InvariantStep == ASSUME IInv, [Next]_vars PROVE IInv'
<1>1. TypeOK'
  BY TypeStep DEF IInv
<1>2. ASSUME UNCHANGED vars PROVE IInv'
  <2>1. /\ UNCHANGED <<audit, joined, synced, grants, durable, acked, wiped, auditLock, grantLock>>
        /\ UNCHANGED w
    BY <1>2 DEF vars, auditVars, grantVars
  <2>2. /\ Recorded' = Recorded /\ Logged' = Logged /\ Garbled' = Garbled
        /\ \A h \in Hosts : BatchKeys(h)' = BatchKeys(h)
    BY <2>1 DEF BatchKeys, Batch, Recorded, Logged, Garbled, Readable
  <2>3. LocksOK' /\ TailOK' /\ EditOK'
    BY <2>1, <2>2 DEF IInv, LocksOK, TailOK, EditOK, Sound
  <2> QED
    BY <1>1, <2>1, <2>3, QuietStep
<1> QED
  BY <1>1, <1>2, ThreadSteps, WaitSteps, ReconcileSteps, EditSteps, AuditSteps,
     StoreSteps, FaultSteps, PowerStep DEF Next, Commit, Reconcile

LEMMA Invariance == Spec => []IInv
<1>1. IInv /\ [Next]_vars => IInv'
  BY InvariantStep
<1> QED
  BY <1>1, InvariantInit, PTL DEF Spec

-----------------------------------------------------------------------------
(* The theorems.                                                            *)

\* grants.json, and what a power loss leaves of it, never has a grant whose
\* audit entry is not on disk: commit_batch_at syncs the log first.
THEOREM GrantsExplained == Spec => []WriteAhead
<1>1. IInv => WriteAhead
  BY DEF IInv
<1> QED
  BY <1>1, Invariance, PTL

\* Whatever hosts append, and wherever they fail, the audit log is one chain.
THEOREM OneChain == Spec => []ChainVerifies
<1>1. IInv => ChainVerifies
  BY DEF IInv
<1> QED
  BY <1>1, Invariance, PTL

\* A grant acknowledged to its caller is in grants.json from then on, unless an
\* edit dropped it that could not read grants.json, the audit log (edit_grants_at,
\* audited_grant_keys) or the entry of the grant.
THEOREM AckedGrantsKept == Spec => []AckedKept
<1>1. IInv => AckedKept
  BY DEF IInv
<1> QED
  BY <1>1, Invariance, PTL

\* Of the durable grants.json a step adds what was audited before it and removes
\* what is older than the audit log or was wiped; what is no longer counted as
\* wiped is granted again.
LEMMA DurableStep ==
    ASSUME IInv, [Next]_vars
    PROVE  \/ UNCHANGED <<synced, audit, durable>> /\ wiped \subseteq wiped'
           \/ /\ durable' \subseteq durable \cup Recorded
              /\ durable \ durable' \subseteq Legacy \cup wiped
              /\ wiped' \subseteq wiped
              /\ wiped \ wiped' \subseteq Recorded \cap durable'
<1>1. ASSUME UNCHANGED <<durable, wiped>>
      PROVE  /\ durable' \subseteq durable \cup Recorded
             /\ durable \ durable' \subseteq Legacy \cup wiped
             /\ wiped' \subseteq wiped
             /\ wiped \ wiped' \subseteq Recorded \cap durable'
  BY <1>1
<1>2. ASSUME durable' = grants, UNCHANGED wiped
      PROVE  /\ durable' \subseteq durable \cup Recorded
             /\ durable \ durable' \subseteq Legacy \cup wiped
             /\ wiped' \subseteq wiped
             /\ wiped \ wiped' \subseteq Recorded \cap durable'
  BY <1>2 DEF IInv, DiskOK
<1>3. ASSUME NEW t \in Threads, Check(t) \/ Submit(t) \/ Notify(t)
      PROVE  UNCHANGED <<durable, wiped>>
  BY <1>3 DEF Check, Submit, Notify, grantVars
<1>4. ASSUME NEW h \in Hosts, Drain(h) \/ Wait(h) \/ SpuriousWake(h) \/ Reconcile(h) \/ Fail(h) \/ Kill(h)
      PROVE  UNCHANGED <<durable, wiped>>
  BY <1>4 DEF Drain, Wait, SpuriousWake, Reconcile, ReadGrants, ReadAudit, Quarantine,
     Fail, Kill, grantVars
<1>5. ASSUME NEW h \in Hosts,
             \/ AcquireAudit(h) \/ RefuseAudit(h) \/ AppendAudit(h) \/ SyncAudit(h)
             \/ Load(h) \/ Lock(h) \/ LockUnread(h)
      PROVE  UNCHANGED <<durable, wiped>>
  BY <1>5 DEF AcquireAudit, RefuseAudit, AppendAudit, SyncAudit, Load, Lock, LockUnread,
     grantVars
<1>6. ASSUME NEW h \in Hosts, Rename(h)
      PROVE  UNCHANGED <<synced, audit, durable>> /\ wiped \subseteq wiped'
  BY <1>6 DEF Rename, auditVars
<1>7. ASSUME NEW h \in Hosts, SyncDir(h)
      PROVE  /\ durable' \subseteq durable \cup Recorded
             /\ durable \ durable' \subseteq Legacy \cup wiped
             /\ wiped' \subseteq wiped
             /\ wiped \ wiped' \subseteq Recorded \cap durable'
  <2>1. BatchKeys(h) \subseteq Recorded \cap grants
    BY <1>7 DEF SyncDir, At, IInv, EditOK
  <2>2. durable' = grants /\ wiped' = wiped \ BatchKeys(h)
    BY <1>7 DEF SyncDir
  <2> QED
    BY <2>1, <2>2 DEF IInv, DiskOK
<1>8. ASSUME Power PROVE UNCHANGED wiped /\ (UNCHANGED durable \/ durable' = grants)
  BY <1>8 DEF Power
<1>9. ASSUME UNCHANGED vars PROVE UNCHANGED <<durable, wiped>>
  BY <1>9 DEF vars, grantVars
<1> QED
  BY <1>1, <1>2, <1>3, <1>4, <1>5, <1>6, <1>7, <1>8, <1>9 DEF Next, Commit

\* The writer, the audit log and grants.json implement AuditedGrants.
THEOREM Implements == Spec => KeepsPromise
<1>1. Init => Promise!Init
  BY DEF Init, Promise!Init, Recorded
<1>2. IInv /\ [Next]_vars => [Promise!Next]_(Promise!vars)
  <2> SUFFICES ASSUME IInv, [Next]_vars PROVE Promise!Next
    OBVIOUS
  <2> DEFINE R == Recorded'
             G == (durable' \ durable) \cup (wiped \ wiped')
             Q == durable \ durable'
  <2>1. TypeOK /\ TypeOK'
    BY TypeStep DEF IInv
  <2>2. /\ R \in SUBSET Keys /\ G \in SUBSET Keys /\ Q \in SUBSET Keys
        /\ wiped' \in SUBSET Keys
    <3>1. synced' \in 0..Len(audit') /\ audit' \in Seq(Line)
      BY <2>1 DEF TypeOK
    <3>2. \A i \in 1..synced' : audit'[i] \in Line
      BY <3>1
    <3>3. \A i \in 1..synced' : audit'[i].key \in Keys
      BY <3>2 DEF Line
    <3>4. Recorded' \subseteq Keys
      BY <3>3 DEF Recorded
    <3> QED
      BY <2>1, <3>4 DEF TypeOK
  <2>3. Recorded \subseteq Recorded'
    BY <2>1, RecordedGrows
  <2>4. CASE UNCHANGED <<synced, audit, durable>> /\ wiped \subseteq wiped'
    <3>1. Recorded' = Recorded
      BY <2>4 DEF Recorded
    <3>2. Promise!Wipe(wiped')
      BY <2>4, <3>1 DEF Promise!Wipe
    <3> QED
      BY <2>2, <3>2 DEF Promise!Next
  <2>5. CASE /\ durable' \subseteq durable \cup Recorded
             /\ durable \ durable' \subseteq Legacy \cup wiped
             /\ wiped' \subseteq wiped
             /\ wiped \ wiped' \subseteq Recorded \cap durable'
    <3>1. Promise!Commit(R, G, Q)
      <4>1. G \subseteq Recorded /\ Q \subseteq Legacy \cup wiped
        BY <2>5
      <4>2. Recorded' = Recorded \cup R /\ durable' = (durable \cup G) \ Q
        BY <2>3, <2>5
      <4>3. wiped \ G \subseteq wiped' /\ wiped' \subseteq wiped
        BY <2>5
      <4> HIDE DEF R, G, Q
      <4> QED
        BY <4>1, <4>2, <4>3 DEF Promise!Commit
    <3> HIDE DEF R, G, Q
    <3> QED
      BY <2>2, <3>1 DEF Promise!Next
  <2> QED
    BY <2>4, <2>5, DurableStep
<1> QED
  BY <1>1, <1>2, Invariance, PTL DEF Spec, KeepsPromise, Promise!Spec
=============================================================================
