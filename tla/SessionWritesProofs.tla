------------------------- MODULE SessionWritesProofs -------------------------
(***************************************************************************)
(* Theorems about write deliveries for every set of cores, commands and     *)
(* ids, every memory and compaction limit, every set and number of faults.  *)
(***************************************************************************)
EXTENDS SessionWrites, FiniteSetTheorems, TLAPS

Compacting == {"compact", "fill", "rename"}
Holding == {"open", "write", "scan", "type"} \cup Compacting
Live == {"serving", "adopting", "adopted"}
CommandType == [pc : Pc, core : Cores \cup {Nobody}, st : State, file : File,
                snap : [Ids -> State] \cup {<<>>}]

\* A step leaves a command where it is; the file it has open may have been
\* emptied or renamed.
Alike(v) ==
    /\ command'[v].pc = command[v].pc /\ command'[v].core = command[v].core
    /\ command'[v].st = command[v].st /\ command'[v].snap = command[v].snap

\* A command past the check holds the lock of its core and has a state to
\* record; one that compacts has read the log.
Locks ==
    /\ \A w \in Commands : command[w].pc \in Holding => lock[CoreOf(w)] = w
    /\ \A w \in Commands, c \in Cores : lock[c] = w => CoreOf(w) = c
    /\ \A w \in Commands :
          /\ command[w].pc \in Holding => command[w].st \in {"delivering", "applied"}
          /\ command[w].pc = "type" => command[w].st = "delivering"
          /\ command[w].pc \in Compacting => command[w].snap \in [Ids -> State]

\* A command is with a running core that accepts commands, or its id is exposed.
Placed ==
    \A w \in Commands :
        IF At(w, "idle") THEN CoreOf(w) = Nobody
        ELSE /\ CoreOf(w) \in Cores
             /\ core[CoreOf(w)] \notin {"off", "adopting"}
             /\ Accepting(CoreOf(w)) \/ IdOf[w] \in exposed

\* One core serves or is about to; while another waits for its commit, they are
\* connected.
Alone ==
    \A c, d \in Cores :
        /\ c # d => ~(core[c] \in Live /\ core[d] \in Live)
        /\ core[c] = "exported" /\ core[d] \in Live => core[d] # "serving" /\ from[d] = c
        /\ core[c] = "exported" /\ core[d] = "exported" => c = d
        /\ from[d] = c => core[c] = "exported" /\ core[d] \in {"adopting", "adopted"}
        /\ core[c] # "timedout"

OneServes == exposed = Ids \/ Alone

\* The log has the id, and keeps it when its cut line is lost.
Recorded(i) == disk[i] # "none" /\ Base[i] # "none"

\* The log says applied, or may say so again.
Applied(i) == disk[i] = "applied" \/ Base[i] = "applied"

\* What memory, log and terminal know of an id.
Accounted(i) ==
    /\ typed[i] <= 1
    /\ typed[i] > 0 => Recorded(i)
    /\ Applied(i) => i \in whole
    /\ \A c \in Cores : Known(c, i) => i \in whole
    /\ i \in told => i \in whole

\* What a command past the check knows of its id.
Underway(w) ==
    command[w].pc \in Holding =>
        /\ command[w].st = "delivering" => typed[IdOf[w]] = 0
        /\ command[w].st = "applied" => IdOf[w] \in whole
        /\ command[w].st = "applied" \/ command[w].pc \notin {"open", "write"} =>
              Recorded(IdOf[w])

Contents ==
    /\ \A i \in Ids \ exposed : Accounted(i)
    /\ \A w \in Commands : IdOf[w] \notin exposed => Underway(w)

\* The inductive invariant.
WriteInv == TypeOK /\ Locks /\ Placed /\ OneServes /\ Contents

-----------------------------------------------------------------------------
(* The operators.                                                           *)

\* Remembering an id keeps the memory within its limit and adds nothing else.
LEMMA RememberedFits ==
    ASSUME TypeOK, NEW c \in Cores, NEW i \in Ids
    PROVE  /\ Remembered(c, i) \in Seq(Ids)
           /\ Len(Remembered(c, i)) <= History
           /\ \A n \in DOMAIN Remembered(c, i) :
                 Remembered(c, i)[n] = i \/ Known(c, Remembered(c, i)[n])
<1> DEFINE r == recent[c]
           all == Append(r, i)
<1>1. r \in Seq(Ids) /\ Len(r) <= History /\ Len(r) \in Nat /\ History \in Nat
  BY BoundsAssumption DEF TypeOK
<1>2. /\ all \in Seq(Ids) /\ Len(all) = Len(r) + 1
      /\ \A n \in 1..Len(all) : all[n] = i \/ (n \in 1..Len(r) /\ all[n] = r[n])
  BY <1>1
<1>3. CASE Known(c, i)
  BY <1>1, <1>3 DEF Remembered, Known
<1>4. CASE ~Known(c, i) /\ Len(all) > History
  <2>1. /\ Remembered(c, i) = Tail(all) /\ Tail(all) \in Seq(Ids)
        /\ Len(Tail(all)) = Len(r)
        /\ \A n \in 1..Len(Tail(all)) : Tail(all)[n] = all[n + 1] /\ n + 1 \in 1..Len(all)
    BY <1>1, <1>2, <1>4 DEF Remembered
  <2> QED BY <1>1, <1>2, <2>1 DEF Known
<1>5. CASE ~Known(c, i) /\ ~(Len(all) > History)
  <2>1. Remembered(c, i) = all
    BY <1>5 DEF Remembered
  <2> QED BY <1>1, <1>2, <1>5, <2>1 DEF Known
<1> QED BY <1>3, <1>4, <1>5

\* Writing an id to a memory.
LEMMA RecentTyped ==
    ASSUME TypeOK, NEW c \in Cores, NEW i \in Ids,
           recent' = [recent EXCEPT ![c] = Remembered(c, i)]
    PROVE  /\ recent' \in [Cores -> Seq(Ids)]
           /\ \A d \in Cores : Len(recent'[d]) <= History
           /\ \A d \in Cores, j \in Ids : Known(d, j)' => j = i \/ Known(d, j)
<1>1. recent \in [Cores -> Seq(Ids)] /\ \A d \in Cores : Len(recent[d]) <= History
  BY DEF TypeOK
<1>2. \A d \in Cores : recent'[d] = IF d = c THEN Remembered(c, i) ELSE recent[d]
  BY <1>1
<1>3. recent' \in [Cores -> Seq(Ids)] /\ \A d \in Cores : Len(recent'[d]) <= History
  BY <1>1, <1>2, RememberedFits
<1>4. ASSUME NEW d \in Cores, NEW j \in Ids, Known(d, j)'
      PROVE  j = i \/ Known(d, j)
  <2>1. CASE d = c
    BY <1>2, <1>4, <2>1, RememberedFits DEF Known
  <2>2. CASE d # c
    BY <1>2, <1>4, <2>2 DEF Known
  <2> QED BY <2>1, <2>2
<1> QED BY <1>3, <1>4

\* A command that ends.
LEMMA LeaveEffect ==
    ASSUME TypeOK, NEW w \in Commands, Leave(w)
    PROVE  /\ command' \in [Commands -> CommandType]
           /\ lock' \in [Cores -> Commands \cup {Nobody}]
           /\ \A v \in Commands : command'[v] = IF v = w THEN Idle ELSE command[v]
           /\ \A c \in Cores : lock'[c] = IF lock[c] = w THEN Nobody ELSE lock[c]
  BY DEF TypeOK, CommandType, Leave, Idle, Pc, State, File

\* A process that ends.
LEMMA DieEffect ==
    ASSUME TypeOK, NEW c \in Cores, Die(c)
    PROVE  /\ command' \in [Commands -> CommandType]
           /\ lock' \in [Cores -> Commands \cup {Nobody}]
           /\ recent' \in [Cores -> Seq(Ids)]
           /\ \A d \in Cores : Len(recent'[d]) <= History
           /\ poisoned' \subseteq Cores
           /\ from' \in [Cores -> Cores \cup {Nobody}]
           /\ \A v \in Commands :
                 command'[v] = IF CoreOf(v) = c THEN Idle ELSE command[v]
           /\ \A d \in Cores : lock'[d] = IF d = c THEN Nobody ELSE lock[d]
           /\ \A d \in Cores : recent'[d] = IF d = c THEN <<>> ELSE recent[d]
           /\ \A d \in Cores :
                 from'[d] = IF d = c \/ from[d] = c THEN Nobody ELSE from[d]
<1>1. /\ command \in [Commands -> CommandType]
      /\ lock \in [Cores -> Commands \cup {Nobody}]
      /\ recent \in [Cores -> Seq(Ids)] /\ \A d \in Cores : Len(recent[d]) <= History
      /\ from \in [Cores -> Cores \cup {Nobody}] /\ poisoned \subseteq Cores
  BY DEF TypeOK, CommandType
<1>2. Idle \in CommandType /\ <<>> \in Seq(Ids) /\ Len(<<>>) <= History
  BY BoundsAssumption DEF Idle, CommandType, Pc, State, File
<1>3. \A v \in Commands : command'[v] = IF CoreOf(v) = c THEN Idle ELSE command[v]
  BY <1>1 DEF Die, Dead
<1>4. command' \in [Commands -> CommandType]
  BY <1>1, <1>2 DEF Die
<1>5. \A d \in Cores : recent'[d] = IF d = c THEN <<>> ELSE recent[d]
  BY <1>1 DEF Die
<1>6. recent' \in [Cores -> Seq(Ids)] /\ \A d \in Cores : Len(recent'[d]) <= History
  BY <1>1, <1>2, <1>5 DEF Die
<1>7. /\ lock' \in [Cores -> Commands \cup {Nobody}] /\ poisoned' \subseteq Cores
      /\ \A d \in Cores : lock'[d] = IF d = c THEN Nobody ELSE lock[d]
  BY <1>1 DEF Die
<1>8. /\ from' \in [Cores -> Cores \cup {Nobody}]
      /\ \A d \in Cores : from'[d] = IF d = c \/ from[d] = c THEN Nobody ELSE from[d]
  BY <1>1 DEF Die
<1> QED BY <1>3, <1>4, <1>5, <1>6, <1>7, <1>8

\* The log without its cut line.
LEMMA BaseTyped ==
    ASSUME TypeOK
    PROVE  /\ Base \in [Ids -> State]
           /\ \A i \in Ids :
                 Base[i] = IF cut # Uncut /\ cut.id = i THEN cut.back ELSE disk[i]
           /\ Lines \in Nat
           /\ cut # Uncut => cut.id \in Ids /\ cut.back \in State
  BY DEF TypeOK, Base, Lines, Uncut

-----------------------------------------------------------------------------
(* Types.                                                                   *)

LEMMA InitHolds == Init => WriteInv
<1> SUFFICES ASSUME Init PROVE WriteInv
  OBVIOUS
<1> USE CoresAssumption, CommandsAssumption, IdsAssumption, BoundsAssumption DEF Init
<1>1. TypeOK
  <2>1. command \in [Commands -> CommandType]
    BY DEF CommandType, Idle, Pc, State, File
  <2>2. core \in [Cores -> Stage]
    BY DEF Stage
  <2>3. recent \in [Cores -> Seq(Ids)] /\ \A c \in Cores : Len(recent[c]) <= History
    BY <2>1
  <2> QED BY <2>1, <2>2, <2>3 DEF TypeOK, CommandType, State, Empty
<1>2. Locks /\ Placed
  BY DEF Locks, Placed, Holding, Compacting, Idle, CoreOf, At
<1>3. Alone
  BY DEF Alone, Live
<1>4. Contents
  BY DEF Contents, Accounted, Underway, Recorded, Applied, Base, Known, Idle, Empty,
         Holding, Compacting
<1> QED BY <1>1, <1>2, <1>3, <1>4 DEF WriteInv, OneServes

\* An append of the log, whole or cut short.
LEMMA LogTyped ==
    ASSUME TypeOK, NEW w \in Commands, command[w].st \in State,
           Record(w) \/ AppendFails(w)
    PROVE  /\ disk' \in [Ids -> State] /\ lines' \in Nat
           /\ cut' \in [id : Ids, back : State] \cup {Uncut}
<1> DEFINE st == command[w].st
<1>1. /\ disk \in [Ids -> State] /\ lines \in Nat
      /\ cut \in [id : Ids, back : State] \cup {Uncut}
      /\ IdOf[w] \in Ids /\ st \in State
  BY CommandsAssumption DEF TypeOK
<1>2. Base \in [Ids -> State] /\ Lines \in Nat
  BY BaseTyped
<1>3. [disk EXCEPT ![IdOf[w]] = st] \in [Ids -> State]
  BY <1>1
<1>4. [id |-> IdOf[w], back |-> Base[IdOf[w]]] \in [id : Ids, back : State]
  BY <1>1, <1>2
<1>5. CASE Record(w)
  BY <1>1, <1>2, <1>3, <1>5 DEF Record
<1>6. CASE AppendFails(w)
  BY <1>1, <1>2, <1>3, <1>4, <1>6 DEF AppendFails
<1> QED BY <1>5, <1>6

\* A file has a number of records.
LEMMA PresentTyped ==
    ASSUME NEW content PROVE Present(content) \in Nat
<1>1. IsFiniteSet({i \in Ids : content[i] # "none"})
  BY IdsAssumption, FS_Subset
<1> QED BY <1>1, FS_CardinalityType DEF Present

\* A renaming leaves every command where it is.
LEMMA RenamedTyped ==
    ASSUME TypeOK
    PROVE  /\ Renamed \in [Commands -> CommandType]
           /\ \A v \in Commands :
                 /\ Renamed[v].pc = command[v].pc /\ Renamed[v].core = command[v].core
                 /\ Renamed[v].st = command[v].st /\ Renamed[v].snap = command[v].snap
<1>1. command \in [Commands -> CommandType]
  BY DEF TypeOK, CommandType
<1>2. ASSUME NEW v \in Commands
      PROVE  \E f \in File : Renamed[v] = [command[v] EXCEPT !.file = f]
  BY <1>1 DEF Renamed, CommandType, File
<1>3. ASSUME NEW v \in Commands
      PROVE  /\ Renamed[v] \in CommandType
             /\ Renamed[v].pc = command[v].pc /\ Renamed[v].core = command[v].core
             /\ Renamed[v].st = command[v].st /\ Renamed[v].snap = command[v].snap
  BY <1>1, <1>2 DEF CommandType
<1>4. Renamed = [v \in Commands |-> Renamed[v]]
  BY DEF Renamed
<1> QED BY <1>3, <1>4

\* After an append the command goes on to type, or ends.
LEMMA DoneEffect ==
    ASSUME TypeOK, NEW w \in Commands, NEW commands \in [Commands -> CommandType],
           Done(w, commands), commands[w].core = command[w].core,
           commands[w].st = command[w].st
    PROVE  /\ command' \in [Commands -> CommandType]
           /\ lock' \in [Cores -> Commands \cup {Nobody}]
           /\ \A v \in Commands : v # w => command'[v] = commands[v]
           /\ \/ /\ command'[w].pc = "type" /\ command'[w].core = command[w].core
                 /\ command'[w].st = command[w].st /\ command[w].st = "delivering"
                 /\ UNCHANGED <<lock, told>>
              \/ /\ command'[w] = Idle /\ told' = told \cup {IdOf[w]}
                 /\ command[w].st # "delivering"
                 /\ \A c \in Cores : lock'[c] = IF lock[c] = w THEN Nobody ELSE lock[c]
<1>1. lock \in [Cores -> Commands \cup {Nobody}] /\ Idle \in CommandType
  BY DEF TypeOK, CommandType, Idle, Pc, State, File
<1>2. CASE command[w].st = "delivering"
  BY <1>1, <1>2 DEF Done, CommandType, Pc, File
<1>3. CASE command[w].st # "delivering"
  BY <1>1, <1>3 DEF Done
<1> QED BY <1>2, <1>3

\* What a step of a command that holds the lock does to the commands.
LEMMA WorkEffect ==
    ASSUME TypeOK, Locks, NEW w \in Commands,
           \/ OpenLog(w) \/ Write(w) \/ Scan(w) \/ OpenTmp(w) \/ Fill(w)
           \/ Rename(w) \/ Type(w)
    PROVE  /\ command' \in [Commands -> CommandType]
           /\ lock' \in [Cores -> Commands \cup {Nobody}]
           /\ \A v \in Commands : v # w => Alike(v)
           /\ command[w].pc \in Holding
           /\ UNCHANGED coreVars /\ exposed \subseteq exposed'
           /\ \/ /\ command'[w] = Idle
                 /\ \A c \in Cores : lock'[c] = IF lock[c] = w THEN Nobody ELSE lock[c]
              \/ /\ command'[w].pc \in Holding
                 /\ command'[w].core = command[w].core
                 /\ command'[w].st \in {"delivering", "applied"}
                 /\ command'[w].pc = "type" => command'[w].st = "delivering"
                 /\ command'[w].pc \in Compacting => command'[w].snap \in [Ids -> State]
                 /\ UNCHANGED lock
<1>1. /\ command \in [Commands -> CommandType] /\ disk \in [Ids -> State]
      /\ lock \in [Cores -> Commands \cup {Nobody}]
  BY DEF TypeOK, CommandType
<1>2. command[w].pc \in Holding
  BY DEF OpenLog, Write, Scan, OpenTmp, Fill, Rename, Type, At, Holding, Compacting
<1>3. /\ command[w].st \in {"delivering", "applied"}
      /\ command[w].pc \in Compacting => command[w].snap \in [Ids -> State]
  BY <1>2 DEF Locks
<1>4. UNCHANGED coreVars /\ exposed \subseteq exposed'
  BY DEF OpenLog, Write, Record, Lost, Scan, OpenTmp, Fill, FillAlone, FillShared,
         FillLog, Rename, Type, Exposing
<1>5. CASE OpenLog(w) \/ Write(w) \/ Type(w)
  <2>1. UNCHANGED lock
    BY <1>5 DEF OpenLog, Write, Type
  <2>2. \E pc \in {"write", "scan", "open"}, st \in {"delivering", "applied"}, f \in File :
           command' = [command EXCEPT ![w] = [@ EXCEPT !.pc = pc, !.st = st, !.file = f]]
    <3>1. CASE OpenLog(w)
      <4>1. command' = [command EXCEPT ![w] = [@ EXCEPT !.pc = "write", !.st = command[w].st,
                                                        !.file = "log"]]
        BY <1>1, <3>1 DEF OpenLog, CommandType
      <4> QED BY <1>3, <4>1 DEF File
    <3>2. CASE Write(w)
      <4>1. command' = [command EXCEPT ![w] = [@ EXCEPT !.pc = "scan", !.st = command[w].st,
                                                        !.file = "none"]]
        BY <1>1, <3>2 DEF Write, CommandType
      <4> QED BY <1>3, <4>1 DEF File
    <3>3. CASE Type(w)
      <4>1. command' = [command EXCEPT ![w] = [@ EXCEPT !.pc = "open", !.st = "applied",
                                                        !.file = command[w].file]]
        BY <1>1, <3>3 DEF Type, CommandType
      <4>2. command[w].file \in File
        BY <1>1 DEF CommandType
      <4> QED BY <4>1, <4>2
    <3> QED BY <1>5, <3>1, <3>2, <3>3
  <2>3. PICK pc \in {"write", "scan", "open"}, st \in {"delivering", "applied"}, f \in File :
           command' = [command EXCEPT ![w] = [@ EXCEPT !.pc = pc, !.st = st, !.file = f]]
    BY <2>2
  <2>4. /\ command' \in [Commands -> CommandType]
        /\ \A v \in Commands : v # w => command'[v] = command[v]
        /\ command'[w].pc = pc /\ command'[w].st = st
        /\ command'[w].core = command[w].core
    BY <1>1, <2>3 DEF CommandType, Pc, State
  <2> QED BY <1>1, <1>2, <1>4, <2>1, <2>4 DEF Alike, Holding, Compacting
<1>6. CASE Scan(w)
  <2>1. CASE lines > CompactLines
    <3>1. /\ command' = [command EXCEPT ![w].pc = "compact", ![w].snap = disk]
          /\ UNCHANGED lock
      BY <1>6, <2>1 DEF Scan
    <3>2. /\ command' \in [Commands -> CommandType]
          /\ \A v \in Commands : v # w => command'[v] = command[v]
          /\ command'[w].pc = "compact" /\ command'[w].st = command[w].st
          /\ command'[w].core = command[w].core /\ command'[w].snap = disk
      BY <1>1, <3>1 DEF CommandType, Pc
    <3> QED BY <1>1, <1>2, <1>3, <1>4, <3>1, <3>2 DEF Alike, Holding, Compacting
  <2>2. CASE ~(lines > CompactLines)
    <3>1. Done(w, command)
      BY <1>6, <2>2 DEF Scan
    <3> QED BY <1>1, <1>2, <1>3, <1>4, <3>1, DoneEffect DEF Alike, Holding, Compacting
  <2> QED BY <2>1, <2>2
<1>7. CASE OpenTmp(w)
  <2>1. UNCHANGED lock /\ command[w].pc = "compact"
    BY <1>7 DEF OpenTmp, At
  <2>2. \E f \in File : command'[w] = [command[w] EXCEPT !.pc = "fill", !.file = f]
    BY <1>7 DEF OpenTmp, File
  <2>3. \A v \in Commands : v # w => \E f \in File : command'[v] = [command[v] EXCEPT !.file = f]
    BY <1>1, <1>7 DEF OpenTmp, File, CommandType
  <2>4. /\ command'[w] \in CommandType /\ command'[w].pc = "fill"
        /\ command'[w].core = command[w].core /\ command'[w].st = command[w].st
        /\ command'[w].snap = command[w].snap
    BY <1>1, <2>2 DEF CommandType, Pc
  <2>5. ASSUME NEW v \in Commands, v # w
        PROVE  command'[v] \in CommandType /\ Alike(v)
    <3>1. PICK f \in File : command'[v] = [command[v] EXCEPT !.file = f]
      BY <2>3, <2>5
    <3>2. command[v] \in CommandType
      BY <1>1
    <3>3. command'[v] \in CommandType
      BY <3>1, <3>2 DEF CommandType
    <3>4. Alike(v)
      BY <3>1, <3>2 DEF CommandType, Alike
    <3> QED BY <3>3, <3>4
  <2>6. command' = [v \in Commands |-> command'[v]]
    BY <1>7 DEF OpenTmp
  <2>7. command' \in [Commands -> CommandType]
    BY <2>4, <2>5, <2>6
  <2> QED BY <1>1, <1>2, <1>3, <1>4, <2>1, <2>4, <2>5, <2>7 DEF Holding, Compacting
<1>8. CASE Fill(w)
  <2>1. UNCHANGED lock /\ command[w].pc = "fill"
    BY <1>8 DEF Fill, At
  <2>2. \E pc \in {"fill", "rename"} : command' = [command EXCEPT ![w].pc = pc]
    <3>1. Goto(w, "rename") \/ UNCHANGED command
      BY <1>8 DEF Fill
    <3>2. UNCHANGED command => command' = [command EXCEPT ![w].pc = "fill"]
      BY <1>1, <2>1 DEF CommandType
    <3> QED BY <3>1, <3>2 DEF Goto
  <2>3. PICK pc \in {"fill", "rename"} : command' = [command EXCEPT ![w].pc = pc]
    BY <2>2
  <2>4. /\ command' \in [Commands -> CommandType]
        /\ \A v \in Commands : v # w => command'[v] = command[v]
        /\ command'[w].pc = pc /\ command'[w].st = command[w].st
        /\ command'[w].core = command[w].core /\ command'[w].snap = command[w].snap
    BY <1>1, <2>3 DEF CommandType, Pc
  <2> QED BY <1>1, <1>2, <1>3, <1>4, <2>1, <2>4 DEF Alike, Holding, Compacting
<1>9. CASE Rename(w)
  <2>1. CASE tmp = Absent
    BY <1>2, <1>4, <1>9, <2>1, LeaveEffect DEF Rename, Alike
  <2>2. CASE tmp # Absent
    <3>1. Done(w, Renamed)
      BY <1>9, <2>2 DEF Rename
    <3>2. /\ Renamed \in [Commands -> CommandType]
          /\ Renamed[w].core = command[w].core /\ Renamed[w].st = command[w].st
      BY RenamedTyped
    <3>3. /\ command' \in [Commands -> CommandType]
          /\ lock' \in [Cores -> Commands \cup {Nobody}]
          /\ \A v \in Commands : v # w => command'[v] = Renamed[v]
      BY <3>1, <3>2, DoneEffect
    <3>4. \A v \in Commands : v # w => Alike(v)
      BY <3>3, RenamedTyped DEF Alike
    <3>5. \/ /\ command'[w].pc = "type" /\ command'[w].core = command[w].core
             /\ command'[w].st = command[w].st /\ UNCHANGED lock
             /\ command[w].st = "delivering"
          \/ /\ command'[w] = Idle
             /\ \A c \in Cores : lock'[c] = IF lock[c] = w THEN Nobody ELSE lock[c]
      BY <3>1, <3>2, DoneEffect
    <3> QED BY <1>2, <1>3, <1>4, <3>3, <3>4, <3>5 DEF Holding, Compacting
  <2> QED BY <2>1, <2>2
<1> QED BY <1>5, <1>6, <1>7, <1>8, <1>9

\* Every step of a command keeps the types.
LEMMA CommandTypes ==
    ASSUME TypeOK, Locks, Placed, NEW w \in Commands,
           \/ \E c \in Cores : Connect(w, c)
           \/ Work(w) \/ Panic(w) \/ PtyFails(w) \/ DiskFails(w)
    PROVE  TypeOK'
<1>0. /\ core \in [Cores -> Stage] /\ from \in [Cores -> Cores \cup {Nobody}]
      /\ recent \in [Cores -> Seq(Ids)] /\ \A c \in Cores : Len(recent[c]) <= History
      /\ lock \in [Cores -> Commands \cup {Nobody}] /\ poisoned \subseteq Cores
      /\ command \in [Commands -> CommandType]
      /\ disk \in [Ids -> State] /\ lines \in Nat
      /\ cut \in [id : Ids, back : State] \cup {Uncut}
      /\ tmp \in [Ids -> State] \cup {Absent}
      /\ typed \in [Ids -> 0..2] /\ whole \subseteq Ids /\ told \subseteq Ids
      /\ exposed \subseteq Ids /\ faults \in 0..MaxFaults /\ MaxFaults \in Nat
      /\ IdOf[w] \in Ids
  BY CommandsAssumption, BoundsAssumption DEF TypeOK, CommandType
<1> DEFINE Log == /\ disk' \in [Ids -> State] /\ lines' \in Nat
                  /\ cut' \in [id : Ids, back : State] \cup {Uncut}
                  /\ tmp' \in [Ids -> State] \cup {Absent}
           Memory == /\ recent' \in [Cores -> Seq(Ids)]
                     /\ \A c \in Cores : Len(recent'[c]) <= History
           Marks == /\ typed' \in [Ids -> 0..2] /\ whole' \subseteq Ids
                    /\ told' \subseteq Ids /\ exposed' \subseteq Ids
           Threads == /\ command' \in [Commands -> CommandType]
                      /\ lock' \in [Cores -> Commands \cup {Nobody}]
<1>1. CoreOf(w) \in Cores \/ At(w, "idle")
  BY DEF Placed, At
<1>2. \A c \in Cores : lock[c] = w => CoreOf(w) = c
  BY DEF Locks
<1>3. ASSUME Log, Memory, Marks, Threads, poisoned' \subseteq Cores,
             UNCHANGED coreVars, faults' \in 0..MaxFaults
      PROVE  TypeOK'
  BY <1>0, <1>3 DEF TypeOK, CommandType, coreVars
<1>4. ASSUME NEW kind, Fault(kind) PROVE faults' \in 0..MaxFaults
  BY <1>0, <1>4 DEF Fault
<1>5. CASE \E c \in Cores : Connect(w, c)
  <2>1. Threads
    <3>1. PICK c \in Cores : Connect(w, c)
      BY <1>5
    <3>2. [Idle EXCEPT !.pc = "wait", !.core = c] \in CommandType
      BY DEF Idle, CommandType, Pc, State, File
    <3> QED BY <1>0, <3>1, <3>2 DEF Connect
  <2> QED BY <1>0, <1>3, <1>5, <2>1 DEF Connect, logVars, history
<1>6. CASE Seen(w)
  <2>1. Threads
    BY <1>6, LeaveEffect DEF Seen
  <2>2. CoreOf(w) \in Cores
    BY <1>1, <1>6 DEF Seen, At
  <2>3. Memory
    BY <1>0, <1>6, <2>2, RecentTyped DEF Seen
  <2> QED BY <1>0, <1>3, <1>6, <2>1, <2>3 DEF Seen, logVars
<1>7. CASE Fresh(w)
  <2>1. Threads
    <3>1. [command[w] EXCEPT !.pc = "open", !.st = "delivering"] \in CommandType
      <4>1. command[w] \in CommandType
        BY <1>0
      <4> QED BY <4>1 DEF CommandType, Pc, State
    <3>2. command' = [command EXCEPT ![w] = [command[w] EXCEPT !.pc = "open",
                                                              !.st = "delivering"]]
      BY <1>0, <1>7 DEF Fresh
    <3>3. command' \in [Commands -> CommandType]
      BY <1>0, <3>1, <3>2
    <3> QED BY <1>0, <1>1, <1>7, <3>3 DEF Fresh
  <2> QED BY <1>0, <1>3, <1>7, <2>1 DEF Fresh, logVars, history
<1>8. ASSUME OpenLog(w) \/ Write(w) \/ Scan(w) \/ OpenTmp(w) \/ Fill(w)
             \/ Rename(w) \/ Type(w)
      PROVE  Threads
  BY <1>8, WorkEffect
<1>9. CASE OpenLog(w)
  <2>1. Memory
    BY <1>0, <1>1, <1>9, RecentTyped DEF OpenLog, At
  <2> QED BY <1>0, <1>3, <1>8, <1>9, <2>1 DEF OpenLog, logVars, history
<1>10. CASE Write(w)
  <2>1. Log
    BY <1>0, <1>10, LogTyped DEF Write, Lost, CommandType
  <2> QED BY <1>0, <1>3, <1>8, <1>10, <2>1 DEF Write, Record, Lost, Exposing, history
<1>11. typed[IdOf[w]] < 2 => typed[IdOf[w]] + 1 \in 0..2
  <2>1. typed[IdOf[w]] \in 0..2
    BY <1>0
  <2> QED BY <2>1
<1>12. CASE Scan(w)
  <2>1. told' \subseteq Ids
    BY <1>0, <1>12 DEF Scan, Done
  <2> QED BY <1>0, <1>3, <1>8, <1>12, <2>1 DEF Scan, logVars
<1>13. CASE OpenTmp(w)
  <2>1. tmp' \in [Ids -> State]
    BY <1>13 DEF OpenTmp, Empty, State
  <2> QED BY <1>0, <1>3, <1>8, <1>13, <2>1 DEF OpenTmp, history
<1>14. CASE Fill(w)
  <2>1. command[w].snap \in [Ids -> State]
    BY <1>14 DEF Locks, Fill, At, Compacting
  <2>2. Log /\ exposed' \subseteq Ids
    <3>1. CASE FillAlone(w)
      BY <1>0, <2>1, <3>1 DEF FillAlone, Compacted
    <3>2. CASE FillShared(w)
      BY <1>0, <3>2 DEF FillShared, Mixed
    <3>3. CASE FillLog(w)
      BY <1>0, <3>3, PresentTyped DEF FillLog, Mixed, Exposing
    <3>4. CASE UNCHANGED <<logVars, exposed>>
      BY <1>0, <3>4 DEF logVars
    <3> QED BY <1>14, <3>1, <3>2, <3>3, <3>4 DEF Fill
  <2> QED BY <1>0, <1>3, <1>8, <1>14, <2>2 DEF Fill, history
<1>18. CASE Rename(w)
  <2>1. CASE tmp = Absent
    BY <1>0, <1>3, <1>8, <1>18, <2>1 DEF Rename, logVars
  <2>2. CASE tmp # Absent
    <3>1. Log /\ exposed' \subseteq Ids
      BY <1>0, <1>18, <2>2, PresentTyped DEF Rename, Exposing
    <3>2. told' \subseteq Ids
      BY <1>0, <1>18, <2>2 DEF Rename, Done
    <3> QED BY <1>0, <1>3, <1>8, <1>18, <3>1, <3>2 DEF Rename
  <2> QED BY <2>1, <2>2
<1>19. CASE Type(w)
  <2>1. typed' \in [Ids -> 0..2]
    BY <1>0, <1>11, <1>19 DEF Type
  <2> QED BY <1>0, <1>3, <1>8, <1>19, <2>1 DEF Type, logVars
<1>15. CASE Panic(w)
  <2>1. Threads
    BY <1>15, LeaveEffect DEF Panic
  <2>2. poisoned' \subseteq Cores
    BY <1>0, <1>2, <1>15 DEF Panic
  <2> QED BY <1>0, <1>3, <1>4, <1>15, <2>1, <2>2 DEF Panic, logVars, history
<1>16. CASE PtyFails(w)
  <2>1. Threads
    BY <1>16, LeaveEffect DEF PtyFails
  <2>2. typed' \in [Ids -> 0..2]
    BY <1>0, <1>11, <1>16 DEF PtyFails
  <2> QED BY <1>0, <1>3, <1>4, <1>16, <2>1, <2>2 DEF PtyFails, logVars
<1>17. CASE DiskFails(w)
  <2>1. Threads
    BY <1>17, LeaveEffect DEF DiskFails
  <2>2. Log
    BY <1>0, <1>17, LogTyped DEF DiskFails, CommandType, logVars
  <2>3. Memory
    BY <1>0, <1>1, <1>17, RecentTyped DEF DiskFails, At
  <2> QED BY <1>0, <1>3, <1>4, <1>17, <2>1, <2>2, <2>3 DEF DiskFails, history
<1> QED
  BY <1>5, <1>6, <1>7, <1>9, <1>10, <1>12, <1>13, <1>14, <1>15, <1>16, <1>17, <1>18,
     <1>19 DEF Work

\* Every step of a core keeps the types.
LEMMA CoreTypes ==
    ASSUME TypeOK, NEW c \in Cores,
           \/ \E d \in Cores : Export(c, d)
           \/ Handoff(c) \/ Refuse(c) \/ TimeOut(c) \/ Kill(c) \/ Restart(c)
    PROVE  TypeOK'
<1>0. /\ core \in [Cores -> Stage] /\ from \in [Cores -> Cores \cup {Nobody}]
      /\ exposed \subseteq Ids /\ faults \in 0..MaxFaults /\ MaxFaults \in Nat
      /\ \A w \in Commands : IdOf[w] \in Ids
  BY CommandsAssumption, BoundsAssumption DEF TypeOK
<1> DEFINE Threads ==
             /\ command' \in [Commands -> CommandType]
             /\ lock' \in [Cores -> Commands \cup {Nobody}]
             /\ recent' \in [Cores -> Seq(Ids)]
             /\ \A d \in Cores : Len(recent'[d]) <= History
             /\ poisoned' \subseteq Cores
<1>1. ASSUME core' \in [Cores -> Stage], from' \in [Cores -> Cores \cup {Nobody}],
             exposed' \subseteq Ids, faults' \in 0..MaxFaults,
             Threads, UNCHANGED <<logVars, history>>
      PROVE  TypeOK'
  BY <1>1 DEF TypeOK, CommandType, logVars, history
<1>2. UNCHANGED <<recent, lock, poisoned, command>> => Threads
  BY DEF TypeOK, CommandType
<1>3. Die(c) => Threads /\ from' \in [Cores -> Cores \cup {Nobody}]
  BY DieEffect
<1>4. ASSUME NEW kind, Fault(kind) PROVE faults' \in 0..MaxFaults
  BY <1>0, <1>4 DEF Fault
<1>5. CASE \E d \in Cores : Export(c, d)
  <2>1. core' \in [Cores -> Stage] /\ from' \in [Cores -> Cores \cup {Nobody}]
    BY <1>0, <1>5 DEF Export, Stage
  <2>2. exposed' \subseteq Ids
    BY <1>0, <1>5 DEF Export, Exposing, Dead
  <2> QED BY <1>1, <1>2, <1>4, <1>5, <2>1, <2>2 DEF Export
<1>6. CASE CommitHandoff(c)
  <2>1. CASE Listening(c)
    <3>1. core' \in [Cores -> Stage] /\ from' \in [Cores -> Cores \cup {Nobody}]
      BY <1>0, <1>6, <2>1 DEF CommitHandoff, Stage
    <3> QED BY <1>0, <1>1, <1>2, <1>6, <2>1, <3>1 DEF CommitHandoff
  <2>2. CASE ~Listening(c)
    <3>1. core' \in [Cores -> Stage]
      BY <1>0, <1>6, <2>2 DEF CommitHandoff, Stage
    <3> QED BY <1>0, <1>1, <1>3, <1>6, <2>2, <3>1 DEF CommitHandoff
  <2> QED BY <2>1, <2>2
<1>7. CASE Exit(c) \/ Refuse(c) \/ Kill(c)
  <2>1. core' \in [Cores -> Stage]
    BY <1>0, <1>7 DEF Exit, Refuse, Kill, Stage
  <2> QED BY <1>0, <1>1, <1>3, <1>4, <1>7, <2>1 DEF Exit, Refuse, Kill
<1>8. CASE Adopt(c) \/ Forget(c) \/ TimeOut(c) \/ Resume(c) \/ Restart(c)
  <2>1. core' \in [Cores -> Stage] /\ from' \in [Cores -> Cores \cup {Nobody}]
    BY <1>0, <1>8 DEF Adopt, Forget, TimeOut, Resume, Restart, Stage
  <2> QED BY <1>0, <1>1, <1>2, <1>4, <1>8, <2>1
      DEF Adopt, Forget, TimeOut, Resume, Restart, Exposing
<1> QED BY <1>5, <1>6, <1>7, <1>8 DEF Handoff

-----------------------------------------------------------------------------
(* Locks, and the core that serves.                                         *)

\* A step of a command that ends it, or that it takes under the lock, leaves
\* every lock with its command and every command with its core.
LEMMA StaysPlaced ==
    ASSUME TypeOK, TypeOK', Locks, Placed, OneServes, NEW w \in Commands,
           UNCHANGED coreVars, exposed \subseteq exposed',
           \A v \in Commands : v # w => Alike(v),
           \/ /\ command'[w] = Idle
              /\ \A c \in Cores : lock'[c] = IF lock[c] = w THEN Nobody ELSE lock[c]
           \/ /\ command[w].pc \in Holding /\ command'[w].pc \in Holding
              /\ command'[w].core = command[w].core
              /\ command'[w].st \in {"delivering", "applied"}
              /\ command'[w].pc = "type" => command'[w].st = "delivering"
              /\ command'[w].pc \in Compacting => command'[w].snap \in [Ids -> State]
              /\ UNCHANGED lock
    PROVE  Locks' /\ Placed' /\ OneServes'
<1> USE CoresAssumption, CommandsAssumption DEF CoreOf, Alike, Compacting
<1>0. /\ lock \in [Cores -> Commands \cup {Nobody}]
      /\ \A v \in Commands : command[v].pc \in Pc /\ command[v].core \in Cores \cup {Nobody}
      /\ \A v \in Commands : command[v].pc \in Holding => command[v].pc # "idle"
      /\ UNCHANGED <<core, from>>
  BY DEF TypeOK, Holding, coreVars
<1>1. Locks'
  <2>1. CASE command'[w] = Idle
    <3>1. \A c \in Cores : lock'[c] = IF lock[c] = w THEN Nobody ELSE lock[c]
      BY <2>1 DEF Idle, Holding
    <3>2. \A v \in Commands :
             command'[v].pc \in Holding => v # w /\ CoreOf(v) \in Cores
      BY <1>0, <2>1 DEF Placed, At, Idle, Holding
    <3> QED BY <1>0, <2>1, <3>1, <3>2 DEF Locks, Idle, Holding
  <2>2. CASE command'[w] # Idle
    BY <2>2 DEF Locks
  <2> QED BY <2>1, <2>2
<1>2. Placed'
  <2> SUFFICES ASSUME NEW v \in Commands
               PROVE  (IF At(v, "idle") THEN CoreOf(v) = Nobody
                       ELSE /\ CoreOf(v) \in Cores
                            /\ core[CoreOf(v)] \notin {"off", "adopting"}
                            /\ Accepting(CoreOf(v)) \/ IdOf[v] \in exposed)'
    BY DEF Placed
  <2>1. CASE v # w \/ command'[w] # Idle
    <3>1. /\ command'[v].core = command[v].core
          /\ command'[v].pc = "idle" <=> command[v].pc = "idle"
      BY <2>1 DEF Holding
    <3> QED BY <1>0, <3>1 DEF Placed, At, Accepting
  <2>2. CASE v = w /\ command'[w] = Idle
    BY <2>2 DEF At, Idle
  <2> QED BY <2>1, <2>2
<1>3. OneServes'
  BY <1>0 DEF OneServes, Alone, TypeOK
<1> QED BY <1>1, <1>2, <1>3

\* Every step of a command keeps the locks and the places.
LEMMA CommandPlaces ==
    ASSUME TypeOK, TypeOK', Locks, Placed, OneServes, NEW w \in Commands,
           \/ \E c \in Cores : Connect(w, c)
           \/ Work(w) \/ Panic(w) \/ PtyFails(w) \/ DiskFails(w)
    PROVE  Locks' /\ Placed' /\ OneServes'
<1> USE CoresAssumption, CommandsAssumption
<1>0. /\ lock \in [Cores -> Commands \cup {Nobody}]
      /\ command \in [Commands -> CommandType]
      /\ disk' \in [Ids -> State]
  BY DEF TypeOK, CommandType
<1>1. ASSUME NEW c \in Cores, Connect(w, c)
      PROVE  Locks' /\ Placed' /\ OneServes'
  <2>1. /\ UNCHANGED <<core, from, lock, exposed>>
        /\ \A v \in Commands : v # w => command'[v] = command[v]
        /\ command'[w].pc = "wait" /\ command'[w].core = c
        /\ command[w].pc = "idle" /\ core[c] \in {"serving", "adopted"}
    BY <1>0, <1>1 DEF Connect, coreVars, At, Accepting, Idle
  <2>2. \A d \in Cores : lock[d] # w
    BY <2>1 DEF Locks, Placed, At
  <2>3. Locks'
    BY <2>1, <2>2 DEF Locks, CoreOf, Holding, Compacting
  <2>4. Placed'
    BY <2>1 DEF Placed, CoreOf, At, Accepting
  <2> QED BY <2>1, <2>3, <2>4 DEF OneServes, Alone
<1>2. CASE Fresh(w)
  <2>1. CoreOf(w) \in Cores
    BY <1>2 DEF Placed, At, Fresh
  <2>2. /\ UNCHANGED <<core, from, exposed>>
        /\ \A v \in Commands : v # w => command'[v] = command[v]
        /\ command'[w].pc = "open" /\ command'[w].core = command[w].core
        /\ command'[w].st = "delivering"
        /\ command[w].pc = "wait" /\ lock[CoreOf(w)] = Nobody
        /\ \A d \in Cores : lock'[d] = IF d = CoreOf(w) THEN w ELSE lock[d]
    BY <1>0, <1>2, <2>1 DEF Fresh, coreVars, At, CommandType
  <2>3. \A v \in Commands : v # w /\ command[v].pc \in Holding => CoreOf(v) # CoreOf(w)
    BY <2>2 DEF Locks
  <2>4. \A v \in Commands : command[v].pc \in Holding => CoreOf(v) \in Cores
    BY DEF Placed, At, Holding, Compacting
  <2>5. Locks'
    BY <2>1, <2>2, <2>3, <2>4 DEF Locks, CoreOf, Holding, Compacting
  <2>6. Placed'
    BY <2>2 DEF Placed, CoreOf, At, Accepting
  <2> QED BY <2>2, <2>5, <2>6 DEF OneServes, Alone
<1>3. CASE Leave(w) /\ UNCHANGED coreVars /\ exposed \subseteq exposed'
  BY <1>3, LeaveEffect, StaysPlaced DEF Alike
<1>4. CASE Seen(w) \/ Panic(w) \/ PtyFails(w) \/ DiskFails(w)
  BY <1>3, <1>4 DEF Seen, Panic, PtyFails, DiskFails
<1>5. CASE OpenLog(w) \/ Write(w) \/ Scan(w) \/ OpenTmp(w) \/ Fill(w)
           \/ Rename(w) \/ Type(w)
  BY <1>5, WorkEffect, StaysPlaced
<1> QED BY <1>1, <1>2, <1>4, <1>5 DEF Work

\* A process that ends takes its commands, its lock and its connections along.
LEMMA DeathPlaces ==
    ASSUME TypeOK, TypeOK', Locks, Placed, OneServes, NEW c \in Cores,
           core' = [core EXCEPT ![c] = "off"], Die(c), UNCHANGED exposed
    PROVE  Locks' /\ Placed' /\ OneServes'
<1> USE CoresAssumption, CommandsAssumption
<1>0. /\ \A v \in Commands :
            command'[v] = IF CoreOf(v) = c THEN Idle ELSE command[v]
      /\ \A d \in Cores : lock'[d] = IF d = c THEN Nobody ELSE lock[d]
      /\ \A d \in Cores :
            from'[d] = IF d = c \/ from[d] = c THEN Nobody ELSE from[d]
      /\ \A d \in Cores : core'[d] = IF d = c THEN "off" ELSE core[d]
      /\ Idle.pc = "idle" /\ Idle.core = Nobody
  BY DieEffect DEF TypeOK, Idle
<1>1. Locks'
  <2>1. \A v \in Commands : command[v].pc \in Holding => CoreOf(v) \in Cores
    BY DEF Placed, At, Holding, Compacting
  <2> QED BY <1>0, <2>1 DEF Locks, CoreOf, Holding, Compacting
<1>2. Placed'
  BY <1>0 DEF Placed, CoreOf, At, Accepting
<1>3. Alone => Alone'
  BY <1>0 DEF Alone, Live
<1> QED BY <1>1, <1>2, <1>3 DEF OneServes

\* Every step of a core keeps the locks and the places: a handoff leaves one core
\* that serves, or exposes the ids it may deliver twice.
LEMMA CorePlaces ==
    ASSUME TypeOK, TypeOK', Locks, Placed, OneServes, NEW c \in Cores,
           \/ \E d \in Cores : Export(c, d)
           \/ Handoff(c) \/ Refuse(c) \/ TimeOut(c) \/ Kill(c) \/ Restart(c)
    PROVE  Locks' /\ Placed' /\ OneServes'
<1> USE CoresAssumption, CommandsAssumption
<1>0. core \in [Cores -> Stage] /\ from \in [Cores -> Cores \cup {Nobody}]
      /\ exposed \subseteq Ids /\ exposed' \subseteq Ids
  BY DEF TypeOK
<1>1. UNCHANGED <<command, lock>> => Locks'
  BY DEF Locks, CoreOf
<1>2. ASSUME NEW d \in Cores, Export(c, d)
      PROVE  Locks' /\ Placed' /\ OneServes'
  <2>1. /\ core[c] = "serving" /\ core[d] = "off" /\ c # d
        /\ \A e \in Cores : core'[e] = IF e = c THEN "exported"
                                       ELSE IF e = d THEN "adopting" ELSE core[e]
        /\ \A e \in Cores : from'[e] = IF e = d THEN c ELSE from[e]
        /\ UNCHANGED <<command, lock>>
        /\ exposed' = exposed \cup {IdOf[w] : w \in Dead(c)}
    BY <1>0, <1>2 DEF Export, Exposing
  <2>2. Placed'
    BY <2>1 DEF Placed, CoreOf, At, Accepting, Dead
  <2>3. Alone => Alone'
    BY <1>0, <2>1 DEF Alone, Live
  <2> QED BY <1>0, <1>1, <2>1, <2>2, <2>3 DEF OneServes
<1>3. CASE Adopt(c) \/ Forget(c)
  <2>1. /\ UNCHANGED <<command, lock, from, exposed>>
        /\ \A e \in Cores : e # c => core'[e] = core[e]
        /\ \/ core[c] = "adopting" /\ core'[c] = "adopted"
           \/ core[c] = "committed" /\ core'[c] = "forgotten"
    BY <1>0, <1>3 DEF Adopt, Forget
  <2>2. Placed'
    BY <2>1 DEF Placed, CoreOf, At, Accepting
  <2>3. Alone => Alone'
    BY <1>0, <2>1 DEF Alone, Live
  <2> QED BY <1>1, <2>1, <2>2, <2>3 DEF OneServes
<1>4. CASE CommitHandoff(c) /\ Listening(c)
  <2>1. /\ UNCHANGED <<command, lock, exposed>>
        /\ core[c] = "adopted" /\ from[c] \in Cores
        /\ \A e \in Cores : from'[e] = IF e = c THEN Nobody ELSE from[e]
    BY <1>0, <1>4 DEF CommitHandoff, Listening
  <2>2. \A e \in Cores :
           core'[e] = IF e = from[c] /\ core[e] = "exported" THEN "committed"
                      ELSE IF e = c THEN "serving" ELSE core[e]
    BY <1>0, <1>4, <2>1 DEF CommitHandoff
  <2>3. Placed'
    BY <2>1, <2>2 DEF Placed, CoreOf, At, Accepting
  <2>4. Alone => Alone'
    BY <1>0, <2>1, <2>2 DEF Alone, Live
  <2> QED BY <1>1, <2>1, <2>3, <2>4 DEF OneServes
<1>5. CASE \/ CommitHandoff(c) /\ ~Listening(c)
           \/ Refuse(c) \/ Exit(c) \/ Kill(c)
  BY <1>5, DeathPlaces DEF CommitHandoff, Refuse, Exit, Kill
<1>6. CASE TimeOut(c)
  <2>1. /\ UNCHANGED <<command, lock>> /\ exposed' = Ids
        /\ core[c] = "exported"
        /\ \A e \in Cores : core'[e] = IF e = c THEN "timedout" ELSE core[e]
    BY <1>0, <1>6 DEF TimeOut, Exposing
  <2>2. Placed'
    BY <2>1 DEF Placed, CoreOf, At, Accepting
  <2> QED BY <1>1, <2>1, <2>2 DEF OneServes
<1>7. CASE Resume(c)
  <2>1. /\ UNCHANGED <<command, lock, exposed>>
        /\ \/ core[c] = "timedout"
           \/ core[c] = "exported" /\ \A d \in Cores : from[d] # c
        /\ \A e \in Cores : core'[e] = IF e = c THEN "serving" ELSE core[e]
        /\ \A e \in Cores : from'[e] = IF from[e] = c THEN Nobody ELSE from[e]
    BY <1>0, <1>7 DEF Resume
  <2>2. Placed'
    BY <2>1 DEF Placed, CoreOf, At, Accepting
  <2>3. Alone => Alone'
    BY <1>0, <2>1 DEF Alone, Live
  <2> QED BY <1>1, <2>1, <2>2, <2>3 DEF OneServes
<1>8. CASE Restart(c)
  <2>1. /\ UNCHANGED <<command, lock, exposed, from>>
        /\ \A e \in Cores : core[e] = "off"
        /\ \A e \in Cores : core'[e] = IF e = c THEN "serving" ELSE core[e]
    BY <1>0, <1>8 DEF Restart
  <2>2. Placed'
    BY <2>1 DEF Placed, CoreOf, At, Accepting
  <2>3. Alone => Alone'
    BY <1>0, <2>1 DEF Alone, Live
  <2> QED BY <1>1, <2>1, <2>2, <2>3 DEF OneServes
<1> QED BY <1>2, <1>3, <1>4, <1>5, <1>6, <1>7, <1>8 DEF Handoff

-----------------------------------------------------------------------------
(* What is known of an id.                                                  *)

\* Past the check, an id that is not exposed has one command.
LEMMA Exclusive ==
    ASSUME TypeOK, Locks, Placed, OneServes, NEW v \in Commands, NEW w \in Commands,
           command[v].pc \in Holding, command[w].pc \in Holding,
           IdOf[v] = IdOf[w], IdOf[w] \notin exposed
    PROVE  v = w
<1>1. Alone
  BY CommandsAssumption DEF OneServes
<1>2. /\ CoreOf(v) \in Cores /\ core[CoreOf(v)] \in Live
      /\ CoreOf(w) \in Cores /\ core[CoreOf(w)] \in Live
  BY DEF Placed, At, Holding, Compacting, Accepting, Live
<1>3. CoreOf(v) = CoreOf(w)
  BY <1>1, <1>2 DEF Alone
<1> QED BY <1>3 DEF Locks

\* The log without its cut line, after a step.
LEMMA LaterBase ==
    ASSUME TypeOK'
    PROVE  \A k \in Ids :
              Base'[k] = IF cut' # Uncut /\ cut'.id = k THEN cut'.back ELSE disk'[k]
<1>1. /\ disk' \in [Ids -> State]
      /\ cut' \in [id : Ids, back : State] \cup {Uncut}
  BY DEF TypeOK, Uncut
<1> QED BY <1>1 DEF Base, Uncut

\* An append leaves the other ids alone, also when it is glued to a cut line or
\* cut short itself, and does not lose its own.
LEMMA AppendKeeps ==
    ASSUME TypeOK, TypeOK', NEW w \in Commands,
           Record(w) \/ (AppendFails(w) /\ UNCHANGED exposed),
           NEW j \in Ids, j \notin exposed', command[w].st # "none"
    PROVE  /\ Recorded(j) => Recorded(j)'
           /\ Applied(j)' => Applied(j) \/ (j = IdOf[w] /\ command[w].st = "applied")
           /\ Record(w) /\ j = IdOf[w] => Recorded(j)'
<1> DEFINE i == IdOf[w]
           st == command[w].st
<1>1. /\ i \in Ids /\ disk \in [Ids -> State] /\ disk' \in [Ids -> State]
  BY CommandsAssumption DEF TypeOK
<1>2. \A k \in Ids : Base[k] = IF cut # Uncut /\ cut.id = k THEN cut.back ELSE disk[k]
  BY BaseTyped
<1>3. Base \in [Ids -> State]
  BY BaseTyped
<1>4. \A k \in Ids :
         Base'[k] = IF cut' # Uncut /\ cut'.id = k THEN cut'.back ELSE disk'[k]
  BY LaterBase
<1>5. CASE Record(w)
  <2>1. cut' = Uncut /\ (cut # Uncut => i \in exposed')
    BY <1>5 DEF Record, Exposing
  <2>2. Base'[j] = disk'[j]
    BY <1>4, <2>1
  <2>3. CASE cut = Uncut
    <3>1. disk'[j] = IF j = i THEN st ELSE disk[j]
      BY <1>1, <1>5, <2>3 DEF Record
    <3> QED BY <1>2, <2>2, <2>3, <3>1 DEF Recorded, Applied
  <2>4. CASE cut # Uncut
    <3>1. disk' = Base /\ j # i
      BY <1>5, <2>1, <2>4 DEF Record
    <3> QED BY <2>2, <3>1 DEF Recorded, Applied
  <2> QED BY <2>3, <2>4
<1>6. CASE AppendFails(w) /\ UNCHANGED exposed /\ ~Record(w)
  <2>1. CASE UNCHANGED <<disk, lines, cut>>
    BY <1>6, <2>1 DEF Recorded, Applied, Base
  <2>2. CASE ~UNCHANGED <<disk, lines, cut>>
    <3>1. /\ disk' = Base \/ (cut = Uncut /\ disk' = [disk EXCEPT ![i] = st])
          /\ cut' = Uncut \/ (cut'.id = i /\ cut'.back = Base[i])
      BY <1>6, <2>2 DEF AppendFails
    <3>2. Base'[j] = disk'[j] \/ (j = i /\ Base'[j] = Base[j])
      BY <1>4, <3>1
    <3>3. disk'[j] = Base[j] \/ (j = i /\ disk'[j] = st) \/ disk'[j] = disk[j]
      BY <1>1, <3>1
    <3> QED BY <1>6, <3>2, <3>3 DEF Recorded, Applied
  <2> QED BY <2>1, <2>2
<1> QED BY <1>5, <1>6

\* A step that leaves the record of an id, and loses no cut line other than that
\* of another id, keeps what the log says of it.
LEMMA SameRecord ==
    ASSUME TypeOK, TypeOK', NEW j \in Ids, disk'[j] = disk[j], cut' = cut \/ cut' = Uncut
    PROVE  /\ Recorded(j) => Recorded(j)'
           /\ Applied(j)' => Applied(j)
<1>1. Base[j] = IF cut # Uncut /\ cut.id = j THEN cut.back ELSE disk[j]
  BY BaseTyped
<1>2. Base'[j] = IF cut' # Uncut /\ cut'.id = j THEN cut'.back ELSE disk'[j]
  BY LaterBase
<1> QED BY <1>1, <1>2 DEF Recorded, Applied

\* A compaction leaves the ids alone that nobody recorded since it read the log
\* and whose record no other compaction took out of its file.
LEMMA RenameKeeps ==
    ASSUME TypeOK, TypeOK', NEW w \in Commands, Rename(w),
           NEW j \in Ids, j \notin exposed'
    PROVE  disk'[j] = disk[j] /\ (cut' = cut \/ cut' = Uncut)
  BY DEF Rename, Compacted, Exposing, logVars

\* So does one that goes on writing what has become the log.
LEMMA FillKeeps ==
    ASSUME TypeOK, TypeOK', NEW w \in Commands, Fill(w),
           NEW j \in Ids, j \notin exposed'
    PROVE  disk'[j] = disk[j] /\ (cut' = cut \/ cut' = Uncut)
  BY DEF Fill, FillAlone, FillShared, FillLog, Exposing, logVars

\* A step that touches nothing that is known.
LEMMA QuietKeeps ==
    ASSUME Contents, exposed \subseteq exposed',
           UNCHANGED <<disk, cut, typed, whole, told>>,
           \A c \in Cores : recent'[c] = recent[c] \/ recent'[c] = <<>>,
           \A v \in Commands : Alike(v) \/ command'[v].pc \in {"idle", "wait"}
    PROVE  Contents'
<1>1. Base' = Base
  BY DEF Base
<1>2. \A c \in Cores, i \in Ids : Known(c, i)' => Known(c, i)
  BY DEF Known
<1>3. \A i \in Ids : /\ Recorded(i)' = Recorded(i)
                     /\ Applied(i)' = Applied(i)
  BY <1>1 DEF Recorded, Applied
<1>4. \A i \in Ids \ exposed' : Accounted(i)'
  BY <1>2, <1>3 DEF Contents, Accounted
<1>5. \A v \in Commands : IdOf[v] \notin exposed' => Underway(v)'
  BY <1>3, CommandsAssumption DEF Contents, Underway, Alike, Holding, Compacting
<1> QED BY <1>4, <1>5 DEF Contents

\* A step of one command concerns its own id.
LEMMA OwnKeeps ==
    ASSUME TypeOK, Locks, Placed, OneServes, Contents, NEW w \in Commands,
           exposed \subseteq exposed', whole \subseteq whole',
           \A v \in Commands : v # w => Alike(v),
           \A j \in Ids \ exposed' :
              /\ Recorded(j) => Recorded(j)'
              /\ j # IdOf[w] => /\ typed'[j] = typed[j]
                                /\ Applied(j)' => Applied(j)
                                /\ j \in told' => j \in told
                                /\ \A c \in Cores : Known(c, j)' => Known(c, j),
           IdOf[w] \notin exposed' => Accounted(IdOf[w])' /\ Underway(w)',
           command[w].pc \in Holding \/ UNCHANGED typed
    PROVE  Contents'
<1>1. ASSUME NEW j \in Ids \ exposed' PROVE Accounted(j)'
  <2>1. CASE j = IdOf[w]
    BY <2>1
  <2>2. CASE j # IdOf[w]
    <3>1. Accounted(j)
      BY DEF Contents
    <3> QED BY <2>2, <3>1 DEF Accounted
  <2> QED BY <2>1, <2>2
<1>2. ASSUME NEW v \in Commands, IdOf[v] \notin exposed' PROVE Underway(v)'
  <2>1. CASE v = w
    BY <1>2, <2>1
  <2>2. CASE v # w
    <3>1. Underway(v) /\ Alike(v) /\ IdOf[v] \in Ids
      BY <1>2, <2>2, CommandsAssumption DEF Contents
    <3>2. CASE command[v].pc \notin Holding
      BY <3>1, <3>2 DEF Underway, Alike
    <3>3. CASE command[v].pc \in Holding
      <4>1. typed'[IdOf[v]] = typed[IdOf[v]]
        <5>1. CASE IdOf[v] # IdOf[w]
          BY <1>2, <3>1, <5>1
        <5>2. CASE IdOf[v] = IdOf[w]
          BY <1>2, <2>2, <3>3, <5>2, Exclusive
        <5> QED BY <5>1, <5>2
      <4> QED BY <1>2, <3>1, <4>1 DEF Underway, Alike
    <3> QED BY <3>2, <3>3
  <2> QED BY <2>1, <2>2
<1> QED BY <1>1, <1>2 DEF Contents

\* Every step of a command keeps what is known.
LEMMA CommandKeeps ==
    ASSUME WriteInv, TypeOK', NEW w \in Commands,
           \/ \E c \in Cores : Connect(w, c)
           \/ Work(w) \/ Panic(w) \/ PtyFails(w) \/ DiskFails(w)
    PROVE  Contents'
<1> USE DEF WriteInv
<1> DEFINE i == IdOf[w]
<1>0. /\ i \in Ids /\ typed \in [Ids -> 0..2] /\ exposed' \subseteq Ids
      /\ command \in [Commands -> CommandType] /\ disk' \in [Ids -> State]
  BY CommandsAssumption DEF TypeOK, CommandType
<1>1. i \notin exposed => Accounted(i) /\ Underway(w)
  BY <1>0 DEF Contents
<1>2. command[w].pc # "idle" => CoreOf(w) \in Cores
  BY DEF Placed, At
<1>3. recent' = [recent EXCEPT ![CoreOf(w)] = Remembered(CoreOf(w), i)]
         /\ command[w].pc # "idle" =>
      \A c \in Cores, j \in Ids : Known(c, j)' => j = i \/ Known(c, j)
  BY <1>0, <1>2, RecentTyped
<1>4. UNCHANGED recent => \A c \in Cores, j \in Ids : Known(c, j)' => Known(c, j)
  BY DEF Known
<1>5. Leave(w) => /\ \A v \in Commands : v # w => Alike(v)
                  /\ command'[w].pc = "idle"
  BY LeaveEffect DEF Idle, Alike
<1>6. UNCHANGED <<disk, cut>> => \A j \in Ids : /\ Recorded(j)' = Recorded(j)
                                                /\ Applied(j)' = Applied(j)
  BY DEF Recorded, Applied, Base
<1>7. ASSUME NEW c \in Cores, Connect(w, c) PROVE Contents'
  <2>1. \A v \in Commands : Alike(v) \/ command'[v].pc = "wait"
    BY <1>0, <1>7 DEF Connect, Idle, Alike
  <2> QED BY <1>7, <2>1, QuietKeeps DEF Connect, logVars, history
<1>8. CASE Panic(w)
  BY <1>5, <1>8, QuietKeeps DEF Panic, logVars, history
<1>9. CASE Seen(w)
  <2>1. /\ command[w].pc = "wait" /\ command'[w].pc = "idle"
        /\ \A v \in Commands : v # w => Alike(v)
        /\ UNCHANGED <<disk, cut, typed, whole, exposed>>
    BY <1>5, <1>9 DEF Seen, At, logVars
  <2>2. \/ UNCHANGED <<recent, told>>
        \/ /\ Known(CoreOf(w), i) \/ Applied(i)
           /\ recent' = [recent EXCEPT ![CoreOf(w)] = Remembered(CoreOf(w), i)]
           /\ told' = told \cup {i}
    BY <1>9 DEF Seen, Applied
  <2>3. \A c \in Cores, j \in Ids : Known(c, j)' => Known(c, j) \/ (j = i /\ told' = told \cup {i})
    BY <1>3, <1>4, <2>1, <2>2
  <2>4. i \notin exposed' => Accounted(i)' /\ Underway(w)'
    <3> SUFFICES ASSUME i \notin exposed PROVE Accounted(i)' /\ Underway(w)'
      BY <2>1
    <3>1. UNCHANGED <<recent, told>> \/ i \in whole
      BY <1>1, <1>2, <2>1, <2>2 DEF Accounted
    <3> QED BY <1>0, <1>1, <1>4, <1>6, <2>1, <3>1, <2>2
        DEF Accounted, Underway, Holding, Compacting
  <2>5. \A j \in Ids : j # i => (j \in told' => j \in told)
    BY <2>2
  <2> QED BY <1>6, <2>1, <2>3, <2>4, <2>5, OwnKeeps
<1>10. CASE Fresh(w)
  <2>1. /\ command'[w].pc = "open" /\ command'[w].st = "delivering" /\ disk[i] = "none"
        /\ \A v \in Commands : v # w => Alike(v)
        /\ UNCHANGED <<disk, cut, typed, whole, told, recent, exposed>>
    BY <1>0, <1>10 DEF Fresh, logVars, history, CommandType, Alike
  <2>2. i \notin exposed => typed[i] = 0
    <3>1. typed[i] \in 0..2
      BY <1>0
    <3> QED BY <1>1, <2>1, <3>1 DEF Accounted, Recorded
  <2>3. i \notin exposed' => Accounted(i)' /\ Underway(w)'
    BY <1>0, <1>1, <1>4, <1>6, <2>1, <2>2 DEF Accounted, Underway
  <2> QED BY <1>4, <1>6, <2>1, <2>3, OwnKeeps
<1>20. ASSUME OpenLog(w) \/ Write(w) \/ Scan(w) \/ OpenTmp(w) \/ Fill(w)
              \/ Rename(w) \/ Type(w)
       PROVE  /\ \A v \in Commands : v # w => Alike(v)
              /\ command[w].pc \in Holding /\ exposed \subseteq exposed'
              /\ command[w].st \in {"delivering", "applied"}
  BY <1>20, WorkEffect DEF Locks
<1>11. CASE OpenLog(w)
  <2>1. /\ command[w].pc = "open" /\ command'[w].pc = "write"
        /\ command'[w].st = command[w].st
        /\ UNCHANGED <<disk, cut, typed, whole, told, exposed>>
    BY <1>0, <1>11 DEF OpenLog, At, logVars, history, CommandType
  <2>2. \/ UNCHANGED recent
        \/ /\ command[w].st = "applied"
           /\ recent' = [recent EXCEPT ![CoreOf(w)] = Remembered(CoreOf(w), i)]
    BY <1>11 DEF OpenLog
  <2>3. \A c \in Cores, j \in Ids :
           Known(c, j)' => Known(c, j) \/ (j = i /\ command[w].st = "applied")
    BY <1>3, <1>4, <2>1, <2>2
  <2>4. i \notin exposed' => Accounted(i)' /\ Underway(w)'
    BY <1>0, <1>1, <1>6, <1>11, <1>20, <2>1, <2>3 DEF Accounted, Underway
  <2> QED BY <1>6, <1>11, <1>20, <2>1, <2>3, <2>4, OwnKeeps
<1>12. CASE Write(w)
  <2>1. /\ command[w].pc = "write" /\ command'[w].pc = "scan"
        /\ command'[w].st = command[w].st
        /\ UNCHANGED <<typed, whole, told, recent>>
    BY <1>0, <1>12 DEF Write, At, history, CommandType
  <2>2. CASE Record(w)
    <3>1. \A j \in Ids \ exposed' :
             /\ Recorded(j) => Recorded(j)'
             /\ Applied(j)' => Applied(j) \/ (j = i /\ command[w].st = "applied")
             /\ j = i => Recorded(j)'
      BY <1>12, <1>20, <2>2, AppendKeeps
    <3>2. i \notin exposed' => Accounted(i)' /\ Underway(w)'
      BY <1>0, <1>1, <1>4, <1>12, <1>20, <2>1, <3>1 DEF Accounted, Underway
    <3> QED BY <1>4, <1>12, <1>20, <2>1, <3>1, <3>2, OwnKeeps
  <2>3. CASE Lost(w)
    <3>1. UNCHANGED <<disk, cut>> /\ (command[w].st = "delivering" => i \in exposed')
      BY <2>3 DEF Lost, Exposing
    <3>2. i \notin exposed' => Accounted(i)' /\ Underway(w)'
      BY <1>0, <1>1, <1>4, <1>6, <1>12, <1>20, <2>1, <3>1 DEF Accounted, Underway
    <3> QED BY <1>4, <1>6, <1>12, <1>20, <2>1, <3>1, <3>2, OwnKeeps
  <2> QED BY <1>12, <2>2, <2>3 DEF Write
<1>21. CASE Scan(w) \/ OpenTmp(w) \/ Fill(w) \/ Rename(w)
  <2>1. /\ command[w].pc \in {"scan", "compact", "fill", "rename"}
        /\ UNCHANGED <<typed, whole, recent>>
    BY <1>21 DEF Scan, OpenTmp, Fill, Rename, At, history
  <2>2. \/ /\ command'[w].pc \in Holding \ {"open", "write"}
           /\ command'[w].st = command[w].st /\ told' = told
        \/ /\ command'[w].pc = "idle" /\ told' = told
        \/ /\ command'[w].pc = "idle" /\ told' = told \cup {i}
           /\ command[w].st = "applied"
    <3>1. ASSUME NEW commands \in [Commands -> CommandType], Done(w, commands),
                 commands[w].core = command[w].core, commands[w].st = command[w].st
          PROVE  \/ /\ command'[w].pc = "type" /\ command'[w].st = command[w].st
                    /\ told' = told
                 \/ /\ command'[w].pc = "idle" /\ told' = told \cup {i}
                    /\ command[w].st # "delivering"
      BY <3>1, DoneEffect DEF Idle
    <3>2. command[w].st \in {"delivering", "applied"}
      BY <1>20, <1>21
    <3>3. CASE Scan(w)
      <4>1. CASE lines > CompactLines
        BY <1>0, <3>3, <4>1 DEF Scan, CommandType, Holding, Compacting
      <4>2. CASE ~(lines > CompactLines)
        BY <1>0, <3>1, <3>2, <3>3, <4>2 DEF Scan, Holding, Compacting
      <4> QED BY <4>1, <4>2
    <3>4. CASE OpenTmp(w)
      <4>1. \E f : command'[w] = [command[w] EXCEPT !.pc = "fill", !.file = f]
        BY <3>4 DEF OpenTmp
      <4>2. command'[w].pc = "fill" /\ command'[w].st = command[w].st
        BY <1>0, <4>1 DEF CommandType
      <4> QED BY <3>4, <4>2 DEF OpenTmp, history, Holding, Compacting
    <3>5. CASE Fill(w)
      <4>1. command'[w].pc \in {"fill", "rename"} /\ command'[w].st = command[w].st
        BY <1>0, <3>5 DEF Fill, Goto, CommandType, At
      <4> QED BY <3>5, <4>1 DEF Fill, history, Holding, Compacting
    <3>6. CASE Rename(w)
      <4>1. CASE tmp = Absent
        BY <1>5, <3>6, <4>1 DEF Rename
      <4>2. CASE tmp # Absent
        BY <3>1, <3>2, <3>6, <4>2, RenamedTyped DEF Rename, Holding, Compacting
      <4> QED BY <4>1, <4>2
    <3> QED BY <1>21, <3>3, <3>4, <3>5, <3>6
  <2>3. \A j \in Ids \ exposed' : disk'[j] = disk[j] /\ (cut' = cut \/ cut' = Uncut)
    BY <1>21, RenameKeeps, FillKeeps DEF Scan, OpenTmp, logVars
  <2>4. \A j \in Ids \ exposed' :
           /\ Recorded(j) => Recorded(j)'
           /\ Applied(j)' => Applied(j)
    BY <2>3, SameRecord
  <2>5. i \notin exposed' => Accounted(i)' /\ Underway(w)'
    BY <1>0, <1>1, <1>4, <1>20, <1>21, <2>1, <2>2, <2>4
       DEF Accounted, Underway, Holding, Compacting
  <2>6. \A j \in Ids : j # i => (j \in told' => j \in told)
    BY <2>2
  <2> QED BY <1>4, <1>20, <1>21, <2>1, <2>4, <2>5, <2>6, OwnKeeps
<1>13. ASSUME typed' = [typed EXCEPT ![i] = IF @ < 2 THEN @ + 1 ELSE @]
       PROVE  /\ \A j \in Ids : j # i => typed'[j] = typed[j]
              /\ typed[i] = 0 => typed'[i] = 1
  BY <1>0, <1>13
<1>14. CASE Type(w)
  <2>1. /\ \A v \in Commands : v # w => Alike(v)
        /\ command[w].pc = "type" /\ command'[w].pc = "open"
        /\ command'[w].st = "applied" /\ command[w].pc \in Holding
        /\ command[w].st = "delivering"
        /\ UNCHANGED <<disk, cut, told, recent, exposed>> /\ whole \subseteq whole'
    BY <1>0, <1>14, <1>20 DEF Type, At, logVars, CommandType, Locks
  <2>2. CoreOf(w) \in Cores /\ (Disarmed(CoreOf(w)) => i \in exposed)
    BY <2>1 DEF Placed, At, Accepting, Disarmed
  <2>3. /\ \A j \in Ids : j # i => typed'[j] = typed[j]
        /\ i \notin exposed => typed'[i] <= 1 /\ i \in whole'
    BY <1>1, <1>13, <1>14, <2>1, <2>2 DEF Type, Underway
  <2>4. i \notin exposed' => Accounted(i)' /\ Underway(w)'
    BY <1>0, <1>1, <1>4, <1>6, <2>1, <2>3 DEF Accounted, Underway
  <2> QED BY <1>4, <1>6, <2>1, <2>3, <2>4, OwnKeeps DEF Holding
<1>15. CASE PtyFails(w)
  <2>1. /\ \A v \in Commands : v # w => Alike(v)
        /\ command[w].pc = "type" /\ command'[w].pc = "idle"
        /\ command[w].st = "delivering" /\ command[w].pc \in Holding
        /\ UNCHANGED <<disk, cut, told, whole, recent, exposed>>
    BY <1>0, <1>5, <1>15 DEF PtyFails, At, logVars, Locks, Holding, Compacting
  <2>2. /\ \A j \in Ids : j # i => typed'[j] = typed[j]
        /\ i \notin exposed => typed'[i] <= 1
    BY <1>1, <1>13, <1>15, <2>1 DEF PtyFails, Underway
  <2>3. i \notin exposed' => Accounted(i)' /\ Underway(w)'
    BY <1>0, <1>1, <1>4, <1>6, <2>1, <2>2 DEF Accounted, Underway, Holding, Compacting
  <2> QED BY <1>4, <1>6, <2>1, <2>2, <2>3, OwnKeeps
<1>17. CASE DiskFails(w)
  <2>1. /\ \A v \in Commands : v # w => Alike(v)
        /\ command[w].pc \in Holding /\ command'[w].pc = "idle"
        /\ command[w].st \in {"delivering", "applied"}
        /\ UNCHANGED <<typed, whole, told, exposed>>
    BY <1>5, <1>17 DEF DiskFails, At, history, Holding, Compacting, Locks
  <2>2. CASE UNCHANGED <<logVars, recent>>
    BY <2>1, <2>2, QuietKeeps DEF logVars
  <2>3. CASE /\ command[w].st = "applied" /\ UNCHANGED logVars
             /\ recent' = [recent EXCEPT ![CoreOf(w)] = Remembered(CoreOf(w), i)]
    <3>1. \A c \in Cores, j \in Ids : Known(c, j)' => j = i \/ Known(c, j)
      BY <1>3, <2>1, <2>3 DEF Holding, Compacting
    <3>2. i \notin exposed' => Accounted(i)' /\ Underway(w)'
      BY <1>0, <1>1, <1>6, <2>1, <2>3, <3>1
         DEF Accounted, Underway, logVars, Holding, Compacting
    <3> QED BY <1>6, <2>1, <2>3, <3>1, <3>2, OwnKeeps DEF logVars
  <2>4. CASE AppendFails(w) /\ UNCHANGED recent
    <3>1. \A j \in Ids \ exposed' :
             /\ Recorded(j) => Recorded(j)'
             /\ Applied(j)' => Applied(j) \/ (j = i /\ command[w].st = "applied")
      BY <2>1, <2>4, AppendKeeps
    <3>2. i \notin exposed' => Accounted(i)' /\ Underway(w)'
      BY <1>0, <1>1, <1>4, <2>1, <2>4, <3>1 DEF Accounted, Underway, Holding, Compacting
    <3> QED BY <1>4, <2>1, <2>4, <3>1, <3>2, OwnKeeps
  <2> QED BY <1>17, <2>2, <2>3, <2>4 DEF DiskFails
<1> QED
  BY <1>7, <1>8, <1>9, <1>10, <1>11, <1>12, <1>14, <1>15, <1>17, <1>21 DEF Work

\* Every step of a core keeps what is known: a process that ends only forgets.
LEMMA CoreKeeps ==
    ASSUME WriteInv, NEW c \in Cores,
           \/ \E d \in Cores : Export(c, d)
           \/ Handoff(c) \/ Refuse(c) \/ TimeOut(c) \/ Kill(c) \/ Restart(c)
    PROVE  Contents'
<1> USE DEF WriteInv
<1>1. /\ UNCHANGED <<disk, cut, typed, whole, told>> /\ exposed \subseteq exposed'
      /\ Die(c) \/ UNCHANGED <<recent, command>>
  BY DEF Export, Handoff, Adopt, CommitHandoff, Forget, Exit, Resume, Refuse, TimeOut,
         Kill, Restart, Exposing, logVars, history
<1>2. CASE Die(c)
  <2>1. \A d \in Cores : recent'[d] = recent[d] \/ recent'[d] = <<>>
    BY <1>2, DieEffect
  <2>2. ASSUME NEW v \in Commands PROVE Alike(v) \/ command'[v].pc \in {"idle", "wait"}
    <3>1. command'[v] = Idle \/ command'[v] = command[v]
      BY <1>2, DieEffect
    <3> QED BY <3>1 DEF Idle, Alike
  <2> QED BY <1>1, <2>1, <2>2, QuietKeeps
<1>3. CASE UNCHANGED <<recent, command>>
  BY <1>1, <1>3, QuietKeeps DEF Alike
<1> QED BY <1>1, <1>2, <1>3

-----------------------------------------------------------------------------
(* The theorems.                                                            *)

\* Every step keeps the inductive invariant.
LEMMA StepHolds == WriteInv /\ [Next]_vars => WriteInv'
<1> SUFFICES ASSUME WriteInv, [Next]_vars PROVE WriteInv'
  OBVIOUS
<1> USE DEF WriteInv
<1>1. ASSUME NEW w \in Commands,
             \/ \E c \in Cores : Connect(w, c)
             \/ Work(w) \/ Panic(w) \/ PtyFails(w) \/ DiskFails(w)
      PROVE  WriteInv'
  <2>1. TypeOK'
    BY <1>1, CommandTypes
  <2>2. Locks' /\ Placed' /\ OneServes'
    BY <1>1, <2>1, CommandPlaces
  <2>3. Contents'
    BY <1>1, <2>1, CommandKeeps
  <2> QED BY <2>1, <2>2, <2>3
<1>2. ASSUME NEW c \in Cores,
             \/ \E d \in Cores : Export(c, d)
             \/ Handoff(c) \/ Refuse(c) \/ TimeOut(c) \/ Kill(c) \/ Restart(c)
      PROVE  WriteInv'
  <2>1. TypeOK'
    BY <1>2, CoreTypes
  <2>2. Locks' /\ Placed' /\ OneServes'
    BY <1>2, <2>1, CorePlaces
  <2>3. Contents'
    BY <1>2, CoreKeeps
  <2> QED BY <2>1, <2>2, <2>3
<1>3. CASE UNCHANGED vars
  <2>1. TypeOK'
    BY <1>3 DEF vars, coreVars, logVars, history, TypeOK
  <2>2. Locks' /\ Placed' /\ OneServes'
    BY <1>3 DEF vars, coreVars, Locks, Placed, OneServes, Alone, CoreOf, At, Accepting
  <2>3. Contents'
    BY <1>3, QuietKeeps DEF vars, logVars, history, Alike
  <2> QED BY <2>1, <2>2, <2>3
<1> QED BY <1>1, <1>2, <1>3 DEF Next

\* The inductive invariant: locks, the core that serves, and what memory, log and
\* terminal know of every id that no gap of the code exposes.
THEOREM WritesInductive == Spec => []WriteInv
<1> QED BY InitHolds, StepHolds, PTL DEF Spec

\* Every variable has its type, and no core remembers more than History ids.
THEOREM WritesTyped == Spec => []TypeOK
<1>1. WriteInv => TypeOK
  BY DEF WriteInv
<1> QED BY <1>1, WritesInductive, PTL

\* The bytes of a write that is not exposed reach the terminal in one attempt.
THEOREM WritesOnce == Spec => []DeliveredOnce
<1>1. WriteInv => DeliveredOnce
  BY DEF WriteInv, Contents, Accounted, DeliveredOnce
<1> QED BY <1>1, WritesInductive, PTL

\* A write that is not exposed and was answered ok was typed to the end.
THEOREM OkIsTyped == Spec => []OkTyped
<1>1. WriteInv => OkTyped
  BY DEF WriteInv, TypeOK, Contents, Accounted, OkTyped
<1> QED BY <1>1, WritesInductive, PTL
=============================================================================
