---------------------------- MODULE SessionWrites ----------------------------
(***************************************************************************)
(* Writes with a write_id to the terminal of one session, and the handoff   *)
(* of that session from one PTY core to the next (write_deliveries.rs, the  *)
(* Write command of session_io.rs, core_reactor.rs, pty_core.rs).           *)
(*                                                                          *)
(* A client may send one write over several transports, and again.  Each    *)
(* arrives on a command thread of the core that serves the session, which   *)
(* checks the id, records "delivering", types the bytes and records         *)
(* "applied" under the core's runtime lock.  Cores share the terminal,      *)
(* write-deliveries.jsonl and the name of the file that a compaction writes *)
(* before it renames it to the log, and neither memory nor lock.            *)
(*                                                                          *)
(* The log is abstracted to what latest_state reads of it, its number of    *)
(* lines and whether its last line is cut short.  Writes without an id are  *)
(* left out: they are never checked.                                        *)
(***************************************************************************)
EXTENDS Naturals, Sequences, FiniteSets

CONSTANTS
    Cores,         \* processes that can serve the session
    First,         \* the one that serves it first
    Commands,      \* transports a client sends a write over
    Ids,           \* write ids
    IdOf,          \* the write each command carries
    History,       \* WRITE_ID_HISTORY
    CompactLines,  \* COMPACT_LINES
    Nobody,        \* no holder of a lock
    Faults,        \* which faults happen
    MaxFaults      \* bound on the faults

ASSUME CoresAssumption == First \in Cores /\ Nobody \notin Cores
ASSUME CommandsAssumption == IdOf \in [Commands -> Ids] /\ Nobody \notin Commands
ASSUME IdsAssumption == IsFiniteSet(Ids) /\ Nobody \notin Ids
ASSUME BoundsAssumption == History \in Nat /\ CompactLines \in Nat /\ MaxFaults \in Nat
ASSUME FaultsAssumption ==
    Faults \subseteq {"handoff", "refuse", "slow", "kill", "panic", "pty", "disk"}

VARIABLES
    core,      \* per core: its part in the handoff
    from,      \* per core: the one it takes the session from, while that one
               \* and it are connected
    recent,    \* per core: RecentWriteIds, oldest first
    lock,      \* per core: the command that holds the runtime lock
    poisoned,  \* cores whose runtime lock a panic has poisoned
    command,   \* per command: where it stands
    disk,      \* per id: the latest readable state in the log
    tmp,       \* the same of write-deliveries.jsonl.tmp, or Absent
    lines,     \* number of lines of the log
    cut,       \* the last line, when it has no newline: its id and the state
               \* that the log falls back to when the line becomes unreadable
    typed,     \* history: attempts that put bytes of the id on the terminal
    whole,     \* history: ids that were typed to the end
    told,      \* history: ids some client got ok for
    exposed,   \* history: ids that fell under a gap that the code leaves open
    faults

logVars == <<disk, lines, cut, tmp>>
coreVars == <<core, from>>
history == <<typed, whole, told>>
vars == <<coreVars, recent, lock, poisoned, command, logVars, history, exposed, faults>>

\* "exported": paused, waits for the commit; "committed": has got it;
\* "timedout": gave up waiting; "forgotten": the other core owns the session;
\* "adopting", "adopted": the new core before it commits.
Stage == {"off", "serving", "exported", "committed", "timedout", "forgotten",
          "adopting", "adopted"}
State == {"none", "delivering", "applied"}
Pc == {"idle", "wait", "open", "write", "scan", "compact", "fill", "rename", "type"}

\* The file a command has open: the log, the tmp file, the tmp file while
\* another command is also between its opening and its renaming, or a log that
\* a renaming has replaced.
File == {"none", "log", "tmp", "shared", "gone"}
Absent == <<>>
Empty == [i \in Ids |-> "none"]
Uncut == [id |-> Nobody, back |-> "none"]
Idle == [pc |-> "idle", core |-> Nobody, st |-> "none", file |-> "none", snap |-> <<>>]

Init ==
    /\ core = [c \in Cores |-> IF c = First THEN "serving" ELSE "off"]
    /\ from = [c \in Cores |-> Nobody]
    /\ recent = [c \in Cores |-> <<>>]
    /\ lock = [c \in Cores |-> Nobody]
    /\ poisoned = {}
    /\ command = [w \in Commands |-> Idle]
    /\ disk = Empty /\ lines = 0 /\ cut = Uncut /\ tmp = Absent
    /\ typed = [i \in Ids |-> 0] /\ whole = {} /\ told = {}
    /\ exposed = {}
    /\ faults = 0

Fault(kind) == kind \in Faults /\ faults < MaxFaults /\ faults' = faults + 1
Accepting(c) == core[c] \in {"serving", "adopted"}
At(w, pc) == command[w].pc = pc
CoreOf(w) == command[w].core
Goto(w, pc) == command' = [command EXCEPT ![w].pc = pc]

\* The command ends, with or without an answer, and its guards drop.
Leave(w) ==
    /\ command' = [command EXCEPT ![w] = Idle]
    /\ lock' = [c \in Cores |-> IF lock[c] = w THEN Nobody ELSE lock[c]]

Exposing(S) == exposed' = exposed \cup S

-----------------------------------------------------------------------------
(* The Write command.                                                       *)

Connect(w, c) ==
    /\ At(w, "idle")
    /\ Accepting(c)
    /\ command' = [command EXCEPT ![w] = [Idle EXCEPT !.pc = "wait", !.core = c]]
    /\ UNCHANGED <<coreVars, recent, lock, poisoned, logVars, history, exposed, faults>>

Known(c, i) == \E n \in DOMAIN recent[c] : recent[c][n] = i

\* record_applied: the oldest id goes when there are more than History.
Remembered(c, i) ==
    LET all == Append(recent[c], i)
    IN  IF Known(c, i) THEN recent[c]
        ELSE IF Len(all) > History THEN Tail(all) ELSE all

\* check_write_delivery for an id that was seen before: AlreadyApplied is
\* answered ok, OutcomeUnknown with an error.
Seen(w) ==
    LET c == CoreOf(w)  i == IdOf[w] IN
    /\ At(w, "wait") /\ lock[c] = Nobody
    /\ Known(c, i) \/ disk[i] # "none"
    /\ IF Known(c, i) \/ disk[i] = "applied"
       THEN /\ recent' = [recent EXCEPT ![c] = Remembered(c, i)]
            /\ told' = told \cup {i}
       ELSE UNCHANGED <<recent, told>>
    /\ Leave(w)
    /\ UNCHANGED <<coreVars, poisoned, logVars, typed, whole, exposed, faults>>

\* Mutant: the log is not consulted.
FreshInMemory(w) ==
    LET c == CoreOf(w)  i == IdOf[w] IN
    /\ At(w, "wait") /\ lock[c] = Nobody
    /\ ~Known(c, i)
    /\ lock' = [lock EXCEPT ![c] = w]
    /\ command' = [command EXCEPT ![w].pc = "open", ![w].st = "delivering"]
    /\ UNCHANGED <<coreVars, recent, poisoned, logVars, history, exposed, faults>>

\* No attempt is on record.
Fresh(w) ==
    LET c == CoreOf(w)  i == IdOf[w] IN
    /\ At(w, "wait") /\ lock[c] = Nobody
    /\ ~Known(c, i) /\ disk[i] = "none"
    /\ lock' = [lock EXCEPT ![c] = w]
    /\ command' = [command EXCEPT ![w].pc = "open", ![w].st = "delivering"]
    /\ UNCHANGED <<coreVars, recent, poisoned, logVars, history, exposed, faults>>

\* The log without its last line, when a new line is glued to that one.
Base == IF cut = Uncut THEN disk ELSE [disk EXCEPT ![cut.id] = cut.back]
Lines == IF cut = Uncut THEN lines + 1 ELSE lines

\* append_record opens the log; before the second one commit_write_applied
\* remembers the id.
OpenLog(w) ==
    /\ At(w, "open")
    /\ recent' = IF command[w].st = "applied"
                 THEN [recent EXCEPT ![CoreOf(w)] = Remembered(CoreOf(w), IdOf[w])]
                 ELSE recent
    /\ command' = [command EXCEPT ![w].pc = "write", ![w].file = "log"]
    /\ UNCHANGED <<coreVars, lock, poisoned, logVars, history, exposed, faults>>

\* The line is written and synced: glued to a cut line, nobody can read it.
Record(w) ==
    LET i == IdOf[w] IN
    /\ disk' = IF cut = Uncut THEN [disk EXCEPT ![i] = command[w].st] ELSE Base
    /\ lines' = Lines /\ cut' = Uncut
    /\ Exposing(IF cut = Uncut THEN {} ELSE {i})

\* A line written to a log that was replaced since it was opened is lost.
Lost(w) ==
    /\ UNCHANGED <<disk, lines, cut>>
    /\ Exposing(IF command[w].st = "delivering" THEN {IdOf[w]} ELSE {})

Write(w) ==
    /\ At(w, "write")
    /\ IF command[w].file = "log" THEN Record(w) ELSE Lost(w)
    /\ command' = [command EXCEPT ![w].pc = "scan", ![w].file = "none"]
    /\ UNCHANGED <<coreVars, recent, lock, poisoned, tmp, history, faults>>

\* append_record returns: the bytes are typed next, or the answer is ok.
Done(w, commands) ==
    IF command[w].st = "delivering"
    THEN /\ command' = [commands EXCEPT ![w].pc = "type", ![w].file = "none",
                                       ![w].snap = <<>>]
         /\ UNCHANGED <<lock, told>>
    ELSE /\ command' = [commands EXCEPT ![w] = Idle]
         /\ lock' = [c \in Cores |-> IF lock[c] = w THEN Nobody ELSE lock[c]]
         /\ told' = told \cup {IdOf[w]}

\* maybe_compact reads the log.
Scan(w) ==
    /\ At(w, "scan")
    /\ IF lines > CompactLines
       THEN /\ command' = [command EXCEPT ![w].pc = "compact", ![w].snap = disk]
            /\ UNCHANGED <<lock, told>>
       ELSE Done(w, command)
    /\ UNCHANGED <<coreVars, recent, poisoned, logVars, typed, whole, exposed, faults>>

\* The tmp file is created or emptied, under the one name that all cores use.
Rewriting == {v \in Commands : command[v].pc \in {"fill", "rename"}}

OpenTmp(w) ==
    /\ At(w, "compact")
    /\ tmp' = Empty
    /\ command' = [v \in Commands |->
          IF v = w
          THEN [command[v] EXCEPT !.pc = "fill",
                                  !.file = IF Rewriting = {} THEN "tmp" ELSE "shared"]
          ELSE [command[v] EXCEPT !.file = IF @ = "tmp" THEN "shared" ELSE @]]
    /\ UNCHANGED <<coreVars, recent, lock, poisoned, disk, lines, cut, history, exposed, faults>>

\* The latest record of every id.
Compacted(snap) == snap

\* A file that two commands write from its start: some records of one, some of
\* the other, and some are overwritten in part or fall into a hole.
Mixed(content, snap) ==
    {f \in [Ids -> State] : \A i \in Ids : f[i] \in {"none", content[i], Compacted(snap)[i]}}

Present(content) == Cardinality({i \in Ids : content[i] # "none"})

\* The records are written to the file that was opened.  Alone with it, this is
\* one step; a file that another compaction also writes, or has renamed to the
\* log by now, changes a part at a time.
FillAlone(w) ==
    /\ command[w].file = "tmp" /\ tmp' = Compacted(command[w].snap)
    /\ UNCHANGED <<disk, lines, cut, exposed>>

FillShared(w) ==
    /\ command[w].file = "shared" /\ tmp' \in Mixed(tmp, command[w].snap)
    /\ UNCHANGED <<disk, lines, cut, exposed>>

FillLog(w) ==
    /\ command[w].file = "log"
    /\ disk' \in Mixed(disk, command[w].snap)
    /\ lines' = Present(disk') /\ cut' \in {cut, Uncut}
    /\ Exposing({i \in Ids : disk'[i] # disk[i] \/ (cut # Uncut /\ cut.id = i)})
    /\ UNCHANGED tmp

Fill(w) ==
    /\ At(w, "fill")
    /\ \/ FillAlone(w) /\ Goto(w, "rename")
       \/ /\ FillShared(w) \/ FillLog(w)
          /\ Goto(w, "rename") \/ UNCHANGED command
       \/ command[w].file = "gone" /\ Goto(w, "rename") /\ UNCHANGED <<logVars, exposed>>
    /\ UNCHANGED <<coreVars, recent, lock, poisoned, history, faults>>

\* The tmp file, whatever it holds now, replaces the log, with what another core
\* has recorded since it was read.  Without a tmp file it fails.
Renamed == [v \in Commands |->
    [command[v] EXCEPT !.file = CASE @ = "log" -> "gone"
                                  [] @ \in {"tmp", "shared"} -> "log"
                                  [] OTHER -> @]]

Rename(w) ==
    LET snap == command[w].snap IN
    /\ At(w, "rename")
    /\ IF tmp = Absent
       THEN Leave(w) /\ UNCHANGED <<logVars, told, exposed>>
       ELSE /\ disk' = tmp /\ lines' = Present(tmp) /\ cut' = Uncut /\ tmp' = Absent
            /\ Exposing({i \in Ids : disk[i] # snap[i] \/ tmp[i] # Compacted(snap)[i]})
            /\ Done(w, Renamed)
    /\ UNCHANGED <<coreVars, recent, poisoned, typed, whole, faults>>

\* forget_after_handoff replaced the writer by a sink, unless the lock was
\* poisoned.
Disarmed(c) == core[c] = "forgotten" /\ c \notin poisoned

\* Mutant: an error of the terminal is dropped.
TypeUnchecked(w) ==
    /\ At(w, "type")
    /\ \/ UNCHANGED <<typed, whole>>
       \/ /\ typed' = [typed EXCEPT ![IdOf[w]] = IF @ < 2 THEN @ + 1 ELSE @]
          /\ whole' = whole \cup {IdOf[w]}
    /\ command' = [command EXCEPT ![w].pc = "open", ![w].st = "applied"]
    /\ UNCHANGED <<coreVars, recent, lock, poisoned, logVars, told, exposed, faults>>

\* The bytes are typed; then commit_write_applied.
Type(w) ==
    /\ At(w, "type")
    /\ IF Disarmed(CoreOf(w)) THEN UNCHANGED <<typed, whole>>
       ELSE /\ typed' = [typed EXCEPT ![IdOf[w]] = IF @ < 2 THEN @ + 1 ELSE @]
            /\ whole' = whole \cup {IdOf[w]}
    /\ command' = [command EXCEPT ![w].pc = "open", ![w].st = "applied"]
    /\ UNCHANGED <<coreVars, recent, lock, poisoned, logVars, told, exposed, faults>>

-----------------------------------------------------------------------------
(* The handoff.                                                             *)

\* The commands of core c end with its process.
Dead(c) == {w \in Commands : CoreOf(w) = c}

Die(c) ==
    /\ command' = [w \in Commands |-> IF w \in Dead(c) THEN Idle ELSE command[w]]
    /\ lock' = [lock EXCEPT ![c] = Nobody]
    /\ recent' = [recent EXCEPT ![c] = <<>>]
    /\ poisoned' = poisoned \ {c}
    /\ from' = [d \in Cores |-> IF d = c \/ from[d] = c THEN Nobody ELSE from[d]]

\* The reactor of the old core stops serving and, once it got the lock, sends
\* the session.  It does not wait for commands that are after the lock.
Export(c, d) ==
    /\ core[c] = "serving" /\ core[d] = "off"
    /\ lock[c] = Nobody
    /\ Fault("handoff")
    /\ core' = [core EXCEPT ![c] = "exported", ![d] = "adopting"]
    /\ from' = [from EXCEPT ![d] = c]
    /\ Exposing({IdOf[w] : w \in Dead(c)})
    /\ UNCHANGED <<recent, lock, poisoned, command, logVars, history>>

\* rebuild_from_handoff and adopt_session: the new core serves at once, with
\* an empty memory.
Adopt(d) ==
    /\ core[d] = "adopting"
    /\ core' = [core EXCEPT ![d] = "adopted"]
    /\ UNCHANGED <<from, recent, lock, poisoned, command, logVars, history, exposed, faults>>

Listening(d) == from[d] # Nobody

\* The new core commits; it cannot if the old one has closed the connection.
\* One that gave up does not read the commit.
CommitHandoff(d) ==
    /\ core[d] = "adopted"
    /\ IF Listening(d)
       THEN /\ core' = [core EXCEPT ![d] = "serving",
                                    ![from[d]] = IF @ = "exported" THEN "committed" ELSE @]
            /\ from' = [from EXCEPT ![d] = Nobody]
            /\ UNCHANGED <<recent, lock, poisoned, command>>
       ELSE core' = [core EXCEPT ![d] = "off"] /\ Die(d)
    /\ UNCHANGED <<logVars, history, exposed, faults>>

\* A session could not be rebuilt, or the record not written.
Refuse(d) ==
    /\ core[d] \in {"adopting", "adopted"}
    /\ Fault("refuse")
    /\ core' = [core EXCEPT ![d] = "off"]
    /\ Die(d)
    /\ UNCHANGED <<logVars, history, exposed>>

\* forget_after_handoff.
Forget(c) ==
    /\ core[c] = "committed"
    /\ lock[c] = Nobody
    /\ core' = [core EXCEPT ![c] = "forgotten"]
    /\ UNCHANGED <<from, recent, lock, poisoned, command, logVars, history, exposed, faults>>

Exit(c) ==
    /\ core[c] = "forgotten"
    /\ core' = [core EXCEPT ![c] = "off"]
    /\ Die(c)
    /\ UNCHANGED <<logVars, history, exposed, faults>>

\* No commit within 30 seconds.
TimeOut(c) ==
    /\ core[c] = "exported" /\ \E d \in Cores : from[d] = c
    /\ Fault("slow")
    /\ core' = [core EXCEPT ![c] = "timedout"]
    /\ Exposing(Ids)
    /\ UNCHANGED <<from, recent, lock, poisoned, command, logVars, history>>

\* resume_after_handoff, when the new core refused, ended or was too late.
Resume(c) ==
    /\ \/ core[c] = "timedout"
       \/ core[c] = "exported" /\ \A d \in Cores : from[d] # c
    /\ core' = [core EXCEPT ![c] = "serving"]
    /\ from' = [d \in Cores |-> IF from[d] = c THEN Nobody ELSE from[d]]
    /\ UNCHANGED <<recent, lock, poisoned, command, logVars, history, exposed, faults>>

-----------------------------------------------------------------------------
(* Faults.                                                                  *)

\* A core is killed.
Kill(c) ==
    /\ core[c] # "off"
    /\ Fault("kill")
    /\ core' = [core EXCEPT ![c] = "off"]
    /\ Die(c)
    /\ UNCHANGED <<logVars, history, exposed>>

\* The session is started again.
Restart(c) ==
    /\ \A d \in Cores : core[d] = "off"
    /\ core' = [core EXCEPT ![c] = "serving"]
    /\ UNCHANGED <<from, recent, lock, poisoned, command, logVars, history, exposed, faults>>

\* The thread of a command panics while it holds the lock.
Panic(w) ==
    /\ \E c \in Cores : lock[c] = w
    /\ Fault("panic")
    /\ poisoned' = poisoned \cup {CoreOf(w)}
    /\ Leave(w)
    /\ UNCHANGED <<coreVars, recent, logVars, history, exposed>>

\* The terminal fails, before or after some of the bytes.
PtyFails(w) ==
    /\ At(w, "type")
    /\ Fault("pty")
    /\ \/ UNCHANGED typed
       \/ /\ ~Disarmed(CoreOf(w))
          /\ typed' = [typed EXCEPT ![IdOf[w]] = IF @ < 2 THEN @ + 1 ELSE @]
    /\ Leave(w)
    /\ UNCHANGED <<coreVars, recent, poisoned, logVars, whole, told, exposed>>

\* The disk fails under an append: nothing is written, a part of the line, all
\* but its newline, or everything and the error comes later.
AppendFails(w) ==
    LET i == IdOf[w]
        Short == [id |-> i, back |-> Base[i]]
    IN  \/ UNCHANGED <<disk, lines, cut>>
        \/ /\ command[w].file = "log" /\ lines' = Lines
           /\ \/ disk' = Base /\ cut' = Short
              \/ /\ disk' = IF cut = Uncut THEN [disk EXCEPT ![i] = command[w].st] ELSE Base
                 /\ cut' \in {Short, Uncut}

\* The disk fails under an append or a compaction.  A failed compaction leaves
\* its tmp file behind.
DiskFails(w) ==
    /\ Fault("disk")
    /\ \/ /\ At(w, "open")
          /\ recent' = IF command[w].st = "applied"
                       THEN [recent EXCEPT ![CoreOf(w)] = Remembered(CoreOf(w), IdOf[w])]
                       ELSE recent
          /\ UNCHANGED logVars
       \/ At(w, "write") /\ AppendFails(w) /\ UNCHANGED <<recent, tmp>>
       \/ /\ command[w].pc \in {"scan", "compact", "fill", "rename"}
          /\ UNCHANGED <<logVars, recent>>
    /\ Leave(w)
    /\ UNCHANGED <<coreVars, poisoned, history, exposed>>

Work(w) == \/ Seen(w) \/ Fresh(w) \/ OpenLog(w) \/ Write(w) \/ Scan(w)
           \/ OpenTmp(w) \/ Fill(w) \/ Rename(w) \/ Type(w)

Handoff(c) == Adopt(c) \/ CommitHandoff(c) \/ Forget(c) \/ Exit(c) \/ Resume(c)

Next ==
    \/ \E w \in Commands :
          \/ \E c \in Cores : Connect(w, c)
          \/ Work(w) \/ Panic(w) \/ PtyFails(w) \/ DiskFails(w)
    \/ \E c \in Cores :
          \/ \E d \in Cores : Export(c, d)
          \/ Handoff(c) \/ Refuse(c) \/ TimeOut(c) \/ Kill(c) \/ Restart(c)

Spec == Init /\ [][Next]_vars

-----------------------------------------------------------------------------
(* Properties.                                                              *)

\* Every variable has its type, and no core remembers more than History ids
\* (RecentWriteIds).
TypeOK ==
    /\ core \in [Cores -> Stage] /\ from \in [Cores -> Cores \cup {Nobody}]
    /\ recent \in [Cores -> Seq(Ids)]
    /\ \A c \in Cores : Len(recent[c]) <= History
    /\ lock \in [Cores -> Commands \cup {Nobody}]
    /\ poisoned \subseteq Cores
    /\ command \in [Commands -> [pc : Pc, core : Cores \cup {Nobody}, st : State,
                                  file : File, snap : [Ids -> State] \cup {<<>>}]]
    /\ disk \in [Ids -> State] /\ lines \in Nat
    /\ tmp \in [Ids -> State] \cup {Absent}
    /\ cut \in [id : Ids, back : State] \cup {Uncut}
    /\ typed \in [Ids -> 0..2] /\ whole \subseteq Ids /\ told \subseteq Ids
    /\ exposed \subseteq Ids
    /\ faults \in 0..MaxFaults

\* The bytes of a write reach the terminal in one attempt at most, whatever is
\* sent again, killed, evicted, compacted, handed over or taken back.  Exposed
\* are the writes that waited for the old core's lock when it exported the
\* session; those recorded on a cut line or in a log that was just replaced; those
\* another core recorded while the log was compacted; those that a compaction of
\* another core removed from the tmp file, or from the log when that file had
\* become the log, while both wrote it; and, after a handoff timed out, all.
DeliveredOnce == \A i \in Ids \ exposed : typed[i] <= 1

\* ok means typed to the end, also when it is answered from memory or the log.
OkTyped == told \ exposed \subseteq whole
=============================================================================
