------------------------ MODULE ActionReviewsProofs ------------------------
(***************************************************************************)
(* Theorems about the review log for every set of processes, every log from *)
(* before the chain, and any number of faults of any kind.                  *)
(***************************************************************************)
EXTENDS ActionReviews, SequenceTheorems, WellFoundedInduction, TLAPS

\* The entry a process writes, or has written, has its review id.
WholeJob ==
    {j \in Job : j.pc \in {"write", "sync", "reviewed", "sent"} =>
                     j.said \in Content}

\* A last line without its newline is a line.
LogTyped ==
    /\ log \in Seq(Line \cup {Unreadable})
    /\ cut \in BOOLEAN
    /\ synced \in 0..Len(log)
    /\ cut => log # <<>>

JobTyped == job \in [Procs -> WholeJob]

RestTyped ==
    /\ lock \in Procs \cup {Nobody}
    /\ ids \in 0..MaxReviews
    /\ faults \in 0..MaxFaults
    /\ acked \subseteq Content
    /\ sent \subseteq Reviews
    /\ glued \subseteq Content \cup {Unreadable.said}

TypeInv == LogTyped /\ JobTyped /\ RestTyped

-----------------------------------------------------------------------------

\* The review a cancel marks next is one it listed.
LEMMA SmallestReview ==
    ASSUME NEW S, S \subseteq Reviews, S # {}
    PROVE  Min(S) \in S
<1> DEFINE Below == {xy \in Nat \X Nat : xy[1] < xy[2]}
<1>1. S \subseteq Nat
  BY LogBounds DEF Reviews
<1>2. IsWellFoundedOn(Below, Nat)
  BY NatLessThanWellFounded, Zenon DEF OpToRel
<1>3. \E x \in S : \A y \in S : ~(<<y, x>> \in Below)
  <2> HIDE DEF Below
  <2> QED BY <1>1, <1>2, WFMin, Zenon
<1>4. \A x, y \in S : <<y, x>> \notin Below => x <= y
  BY <1>1
<1>5. \E x \in S : \A y \in S : x <= y
  <2> HIDE DEF Below
  <2> QED BY <1>3, <1>4
<1> QED BY <1>5 DEF Min

\* A function on 1..n is a sequence of length n.
LEMMA FunctionIsSeq ==
    ASSUME NEW S, NEW n \in Nat, NEW f \in [1..n -> S]
    PROVE  f \in Seq(S) /\ Len(f) = n
<1>1. f \in Seq(S)
  BY SeqDef
<1>2. DOMAIN f = 1..Len(f) /\ Len(f) \in Nat
  BY <1>1, LenProperties
<1>3. 1..Len(f) = 1..n
  BY <1>2
<1> QED BY <1>1, <1>2, <1>3

\* The lines of the log.
AnyLine == Line \cup {Unreadable}

\* The lines and jobs the actions build have their types.
LEMMA LinesAreTyped ==
    /\ Genesis \in Seq(Content)
    /\ \A said \in Content, prev \in Seq(Content) : LineOf(said, prev) \in Line
    /\ \A r \in Reviews : OldLine(r) \in Line
    /\ Idle \in WholeJob
    /\ \A line \in AnyLine : line.hash \in Seq(Content)
    /\ \A line \in AnyLine : Readable(line) => line \in Line
<1>1. Genesis \in Seq(Content)
  BY DEF Genesis
<1>2. \A said \in Content, prev \in Seq(Content) : LineOf(said, prev) \in Line
  BY AppendProperties DEF LineOf, Line
<1>3. \A r \in Reviews : OldLine(r) \in Line
  BY <1>1 DEF OldLine, Line, Content, Decisions
<1>4. Idle \in WholeJob
  BY <1>1, LogBounds DEF Idle, Job, WholeJob, Decisions
<1>5. \A line \in AnyLine : line.hash \in Seq(Content)
  BY <1>1 DEF AnyLine, Line, Unreadable
<1>6. \A line \in AnyLine : Readable(line) => line \in Line
  BY DEF AnyLine, Readable
<1> QED BY <1>1, <1>2, <1>3, <1>4, <1>5, <1>6

\* The fields of a line.
LEMMA LineFields ==
    \A said, prev : /\ LineOf(said, prev).said = said
                     /\ LineOf(said, prev).prev = prev
                     /\ LineOf(said, prev).hash = Append(prev, said)
BY DEF LineOf

\* A fresh log, or one from before the chain, is well typed.
LEMMA TypeInit == Init => TypeInv
<1> SUFFICES ASSUME Init PROVE TypeInv
  OBVIOUS
<1>1. OldReviews \in Nat /\ MaxReviews \in Nat /\ 1..OldReviews \subseteq Reviews
  BY LogBounds DEF Reviews
<1>2. log \in Seq(AnyLine) /\ Len(log) = OldReviews
  <2>1. \A r \in 1..OldReviews : OldLine(r) \in AnyLine
    BY <1>1, LinesAreTyped DEF AnyLine
  <2>2. log = [r \in 1..OldReviews |-> OldLine(r)]
    BY DEF Init
  <2> QED BY <1>1, <2>1, <2>2, FunctionIsSeq
<1>3. acked \subseteq Content
  BY <1>1 DEF Init, OldLine, Content, Decisions
<1>4. TypeOK
  <2>1. lock \in Procs \cup {Nobody} /\ job \in [Procs -> Job]
    BY LinesAreTyped DEF Init, WholeJob
  <2>2. /\ synced \in 0..Len(log) /\ ids \in 0..MaxReviews
        /\ faults \in 0..MaxFaults
    BY <1>1, <1>2, LogBounds DEF Init
  <2>3. /\ cut \in BOOLEAN /\ sent \subseteq Reviews
        /\ glued \subseteq Content \cup {Unreadable.said}
    BY DEF Init
  <2> QED BY <1>2, <1>3, <2>1, <2>2, <2>3, Zenon DEF TypeOK, AnyLine
<1>5. job \in [Procs -> WholeJob] /\ ~cut
  BY LinesAreTyped DEF Init
<1> QED BY <1>4, <1>5 DEF TypeInv, LogTyped, JobTyped, RestTyped, TypeOK

\* What is read of the log has its type.
LEMMA ReadsAreTyped ==
    ASSUME TypeInv
    PROVE  /\ log \in Seq(AnyLine) /\ Len(log) \in Nat
           /\ DOMAIN log = 1..Len(log)
           /\ \A i \in 1..Len(log) : log[i] \in AnyLine
           /\ Entries \subseteq Content
           /\ \A r : HasReview(r) => r \in Reviews
           /\ TailHash \in Seq(Content)
<1>1. log \in Seq(AnyLine) /\ Len(log) \in Nat /\ DOMAIN log = 1..Len(log)
  BY LenProperties DEF TypeInv, LogTyped, AnyLine
<1>2. \A i \in 1..Len(log) : log[i] \in AnyLine
  BY <1>1, ElementOfSeq
<1>3. Entries \subseteq Content
  BY <1>1, <1>2, LinesAreTyped DEF Entries, Line
<1>4. \A r : HasReview(r) => r \in Reviews
  BY <1>3 DEF HasReview, Content
<1>5. TailHash \in Seq(Content)
  <2>1. CASE log = <<>>
    BY <2>1, LinesAreTyped DEF TailHash
  <2>2. CASE log # <<>>
    <3>1. Len(log) \in 1..Len(log)
      BY <1>1, <2>2, EmptySeq
    <3> QED BY <1>2, <2>2, <3>1, LinesAreTyped DEF TailHash
  <2> QED BY <2>1, <2>2
<1> QED BY <1>1, <1>2, <1>3, <1>4, <1>5

\* What an answer makes of a job has its type; the answer "ok" comes with an id.
LEMMA AnswersAreTyped ==
    ASSUME TypeInv, NEW p \in Procs, NEW answer,
           answer = "ok" => job[p].said \in Content
    PROVE  After(p, answer) \in WholeJob
<1>1. job[p] \in Job
  BY DEF TypeInv, JobTyped, WholeJob
<1> QED BY <1>1, LinesAreTyped DEF After, WholeJob, Job

\* What an append leaves is a log.
LEMMA AppendsAreTyped ==
    ASSUME TypeInv, NEW line \in AnyLine
    PROVE  /\ Appended(line) \in Seq(AnyLine)
           /\ Appended(line) # <<>>
           /\ Len(log) <= Len(Appended(line))
<1>1. CASE cut
  <2>1. Len(log) \in 1..Len(log) /\ Unreadable \in AnyLine
    BY <1>1, ReadsAreTyped, EmptySeq DEF TypeInv, LogTyped, AnyLine
  <2>2. /\ Appended(line) \in Seq(AnyLine)
        /\ Len(Appended(line)) = Len(log)
    BY <1>1, <2>1, ReadsAreTyped, ExceptSeq DEF Appended
  <2> QED BY <2>1, <2>2, ReadsAreTyped, EmptySeq
<1>2. CASE ~cut
  BY <1>2, ReadsAreTyped, AppendProperties DEF Appended
<1> QED BY <1>1, <1>2

\* The entries an append puts into one line are entries.
LEMMA GluedAreTyped ==
    ASSUME TypeInv, NEW p \in Procs, At(p, "write")
    PROVE  Glued(p) \subseteq Content \cup {Unreadable.said}
<1>1. job[p].said \in Content /\ glued \subseteq Content \cup {Unreadable.said}
  BY DEF TypeInv, JobTyped, RestTyped, WholeJob, At
<1>2. cut => log[Len(log)].said \in Content \cup {Unreadable.said}
  <2> SUFFICES ASSUME cut
               PROVE  log[Len(log)].said \in Content \cup {Unreadable.said}
    OBVIOUS
  <2>1. Len(log) \in 1..Len(log)
    BY ReadsAreTyped, EmptySeq DEF TypeInv, LogTyped
  <2>2. log[Len(log)] \in AnyLine
    BY <2>1, ReadsAreTyped
  <2> QED BY <2>2 DEF AnyLine, Line
<1> QED BY <1>1, <1>2 DEF Glued

\* One job changes.
LEMMA JobStep ==
    ASSUME TypeInv, NEW p \in Procs, NEW j \in WholeJob,
           job' = [job EXCEPT ![p] = j]
    PROVE  JobTyped'
BY DEF TypeInv, JobTyped

\* The log stays while a job moves on.
LEMMA LogStays == TypeInv /\ UNCHANGED <<log, cut, synced>> => LogTyped'
BY DEF TypeInv, LogTyped

\* A rechained log has one line for each of the old ones; each links to the one
\* before it.
LEMMA RechainedLog ==
    ASSUME NEW lines \in Seq(Line)
    PROVE  LET new == Rechained(lines)
           IN  /\ new \in Seq(Line)
               /\ Len(new) = Len(lines)
               /\ \A i \in 1..Len(lines) :
                     /\ new[i].said = lines[i].said
                     /\ new[i].prev = IF i = 1 THEN Genesis ELSE new[i - 1].hash
                     /\ new[i].hash = Append(new[i].prev, new[i].said)
<1> DEFINE new == Rechained(lines)
<1>1. Len(lines) \in Nat /\ DOMAIN lines = 1..Len(lines)
  BY LenProperties
<1>2. \A i \in 1..Len(lines) : lines[i].said \in Content
  <2>1. \A i \in 1..Len(lines) : lines[i] \in Line
    BY ElementOfSeq
  <2> QED BY <2>1 DEF Line
<1>3. \A n \in 0..Len(lines) : Upto(lines, n) \in Seq(Content)
                               /\ Len(Upto(lines, n)) = n
  <2> SUFFICES ASSUME NEW n \in 0..Len(lines)
               PROVE  Upto(lines, n) \in Seq(Content) /\ Len(Upto(lines, n)) = n
    OBVIOUS
  <2>1. Upto(lines, n) \in [1..n -> Content]
    BY <1>1, <1>2 DEF Upto
  <2> QED BY <1>1, <2>1, FunctionIsSeq
<1>4. \A i \in 1..Len(lines) :
        new[i] = LineOf(lines[i].said, Upto(lines, i - 1))
  BY <1>1 DEF Rechained
<1>5. new \in Seq(Line) /\ Len(new) = Len(lines)
  <2>1. \A i \in 1..Len(lines) : new[i] \in Line
    <3> SUFFICES ASSUME NEW i \in 1..Len(lines) PROVE new[i] \in Line
      OBVIOUS
    <3>1. i - 1 \in 0..Len(lines)
      BY <1>1
    <3>2. Upto(lines, i - 1) \in Seq(Content)
      BY <1>3, <3>1
    <3> HIDE DEF new
    <3> QED BY <1>2, <1>4, <3>2, LinesAreTyped
  <2>2. new \in [1..Len(lines) -> Line]
    BY <1>1, <2>1 DEF Rechained
  <2> QED BY <1>1, <2>2, FunctionIsSeq
<1>6. \A i \in 1..Len(lines) :
        Upto(lines, i) = Append(Upto(lines, i - 1), lines[i].said)
  <2> SUFFICES ASSUME NEW i \in 1..Len(lines)
               PROVE  Upto(lines, i) = Append(Upto(lines, i - 1), lines[i].said)
    OBVIOUS
  <2> DEFINE l == Upto(lines, i)
             r == Append(Upto(lines, i - 1), lines[i].said)
  <2>1. l \in Seq(Content) /\ Len(l) = i
    BY <1>1, <1>3
  <2>2. Upto(lines, i - 1) \in Seq(Content) /\ Len(Upto(lines, i - 1)) = i - 1
    BY <1>1, <1>3
  <2>3. /\ r \in Seq(Content) /\ Len(r) = i
        /\ \A k \in 1..i - 1 : r[k] = Upto(lines, i - 1)[k]
        /\ r[i] = lines[i].said
    BY <1>1, <1>2, <2>2, AppendProperties
  <2>4. \A k \in 1..i : l[k] = r[k]
    BY <2>3 DEF Upto
  <2> QED BY <2>1, <2>3, <2>4, SeqEqual
<1>7. ASSUME NEW i \in 1..Len(lines)
      PROVE  /\ new[i].said = lines[i].said
             /\ new[i].prev = IF i = 1 THEN Genesis ELSE new[i - 1].hash
             /\ new[i].hash = Append(new[i].prev, new[i].said)
  <2> HIDE DEF new
  <2>1. /\ new[i].said = lines[i].said
        /\ new[i].prev = Upto(lines, i - 1)
        /\ new[i].hash = Append(new[i].prev, new[i].said)
    <3>1. new[i] = LineOf(lines[i].said, Upto(lines, i - 1))
      BY <1>4
    <3> QED BY <3>1, LineFields
  <2>2. CASE i = 1
    <3>1. Upto(lines, 0) = Genesis
      BY <1>1, <1>3, EmptySeq DEF Genesis
    <3> QED BY <2>1, <2>2, <3>1
  <2>3. CASE i # 1
    <3>1. i - 1 \in 1..Len(lines)
      BY <1>1, <2>3
    <3>2. new[i - 1].hash = Append(Upto(lines, i - 2), lines[i - 1].said)
      <4>1. new[i - 1] = LineOf(lines[i - 1].said, Upto(lines, (i - 1) - 1))
        BY <1>4, <3>1
      <4>2. (i - 1) - 1 = i - 2
        BY <1>1
      <4> QED BY <4>1, <4>2, LineFields
    <3>3. Upto(lines, i - 1) = Append(Upto(lines, i - 2), lines[i - 1].said)
      <4>1. (i - 1) - 1 = i - 2
        BY <1>1
      <4> QED BY <1>6, <3>1, <4>1
    <3> QED BY <2>1, <2>3, <3>2, <3>3
  <2> QED BY <2>1, <2>2, <2>3
<1> QED BY <1>5, <1>7

\* Every action keeps the types.
LEMMA TypeStep == TypeInv /\ [Next]_vars => TypeInv'
<1> SUFFICES ASSUME TypeInv, [Next]_vars PROVE TypeInv'
  OBVIOUS
<1>a. \A p \in Procs : job[p] \in WholeJob /\ job[p] \in Job
  BY DEF TypeInv, JobTyped, WholeJob
<1>1. ASSUME NEW p \in Procs, Acquire(p) PROVE TypeInv'
  <2>1. JobTyped'
    <3> DEFINE j == [job[p] EXCEPT !.pc = IF p \in Migrators THEN "rename" ELSE "read"]
    <3>1. j \in WholeJob
      BY <1>a DEF Job, WholeJob
    <3>2. job' = [job EXCEPT ![p] = j]
      BY <1>1, <1>a DEF Acquire, Goto, Job
    <3> HIDE DEF j
    <3> QED BY <3>1, <3>2, JobStep
  <2>2. LogTyped' /\ RestTyped'
    BY <1>1, LogStays DEF Acquire, TypeInv, RestTyped
  <2> QED BY <2>1, <2>2 DEF TypeInv
<1>2. ASSUME NEW p \in Procs, LockTimeout(p) PROVE TypeInv'
  <2>1. JobTyped'
    BY <1>2, AnswersAreTyped, JobStep DEF LockTimeout
  <2>2. LogTyped' /\ RestTyped'
    BY <1>2, LogStays DEF LockTimeout, TypeInv, RestTyped
  <2> QED BY <2>1, <2>2 DEF TypeInv
<1>3. ASSUME NEW p \in Procs, Read(p) PROVE TypeInv'
  <2> DEFINE said == job[p].said
  <2>1. CASE Return(p, "error") /\ UNCHANGED ids
    <3>1. JobTyped'
      BY <2>1, AnswersAreTyped, JobStep DEF Return
    <3> QED BY <1>3, <2>1, <3>1, LogStays DEF Read, Return, TypeInv, RestTyped
  <2>2. CASE Return(p, "already") /\ UNCHANGED ids
    <3>1. JobTyped'
      BY <2>2, AnswersAreTyped, JobStep DEF Return
    <3> QED BY <1>3, <2>2, <3>1, LogStays DEF Read, Return, TypeInv, RestTyped
  <2>3. CASE /\ ~ReadFails(said)
             /\ said.kind \in Decisions => ids < MaxReviews
             /\ ids' = IF said.kind \in Decisions THEN ids + 1 ELSE ids
             /\ job' = [job EXCEPT ![p].pc = "write", ![p].prev = TailHash,
                           ![p].said.review =
                               IF said.kind \in Decisions THEN ids + 1 ELSE @]
             /\ UNCHANGED lock
    <3> DEFINE review == IF said.kind \in Decisions THEN ids + 1 ELSE said.review
               whole == [said EXCEPT !.review = review]
               j == [job[p] EXCEPT !.pc = "write", !.prev = TailHash,
                         !.said = whole]
    <3>1. said \in [review : 0..MaxReviews, kind : Decisions \cup Outcomes]
      BY <1>a DEF Job
    <3>2. review \in Reviews
      BY <2>3, <3>1, ReadsAreTyped, LogBounds
      DEF ReadFails, TypeInv, RestTyped, Reviews
    <3>3. ids' \in 0..MaxReviews
      BY <2>3, LogBounds DEF TypeInv, RestTyped
    <3>4. j \in WholeJob
      <4>1. whole \in Content
        BY <3>1, <3>2 DEF Content
      <4>2. Content \subseteq [review : 0..MaxReviews, kind : Decisions \cup Outcomes]
        BY DEF Content, Reviews
      <4> HIDE DEF whole
      <4> QED BY <1>a, <4>1, <4>2, ReadsAreTyped DEF Job, WholeJob
    <3>5. job' = [job EXCEPT ![p] = j]
      BY <1>a, <2>3 DEF Job
    <3>6. JobTyped'
      <4> HIDE DEF j
      <4> QED BY <3>4, <3>5, JobStep
    <3> QED BY <1>3, <2>3, <3>3, <3>6, LogStays DEF Read, TypeInv, RestTyped
  <2> QED BY <1>3, <2>1, <2>2, <2>3 DEF Read
<1>4. ASSUME NEW p \in Procs, At(p, "write") PROVE NewLine(p) \in AnyLine
  BY <1>4, <1>a, LinesAreTyped DEF At, NewLine, AnyLine, WholeJob, Job
<1>5. ASSUME NEW p \in Procs, Write(p) PROVE TypeInv'
  <2>1. JobTyped'
    <3> DEFINE j == [job[p] EXCEPT !.pc = "sync"]
    <3>1. j \in WholeJob
      BY <1>5, <1>a DEF Job, WholeJob, Write, At
    <3>2. job' = [job EXCEPT ![p] = j]
      BY <1>5, <1>a DEF Write, Goto, Job
    <3> HIDE DEF j
    <3> QED BY <3>1, <3>2, JobStep
  <2>2. LogTyped'
    <3>1. /\ log' \in Seq(AnyLine) /\ log' # <<>>
          /\ Len(log) <= Len(log')
      BY <1>4, <1>5, AppendsAreTyped DEF Write
    <3>2. Len(log') \in Nat
      BY <3>1, LenProperties
    <3>3. synced' \in 0..Len(log')
      BY <1>5, <3>1, <3>2, ReadsAreTyped DEF Write, TypeInv, LogTyped
    <3> QED BY <1>5, <3>1, <3>3, Zenon DEF Write, LogTyped, AnyLine
  <2>3. glued' \subseteq Content \cup {Unreadable.said}
    BY <1>5, GluedAreTyped DEF Write
  <2> QED BY <1>5, <2>1, <2>2, <2>3 DEF Write, TypeInv, RestTyped
<1>6. ASSUME NEW p \in Procs, WriteFails(p) PROVE TypeInv'
  <2>1. JobTyped'
    BY <1>6, AnswersAreTyped, JobStep DEF WriteFails, Return
  <2>2. LogTyped'
    <3>1. CASE UNCHANGED <<log, cut>>
      BY <1>6, <3>1, LogStays DEF WriteFails
    <3>2. ASSUME NEW tear \in Tears, log' = Appended(Torn(NewLine(p), tear)),
                 cut' = TRUE
          PROVE  LogTyped'
      <4>1. Torn(NewLine(p), tear) \in AnyLine
        BY <1>4, <1>6 DEF WriteFails, Torn, AnyLine
      <4> QED
        BY <1>6, <3>2, <4>1, AppendsAreTyped, ReadsAreTyped, LenProperties
        DEF WriteFails, TypeInv, LogTyped, AnyLine
    <3> QED BY <1>6, <3>1, <3>2 DEF WriteFails
  <2>3. glued' \subseteq Content \cup {Unreadable.said}
    BY <1>6, GluedAreTyped DEF WriteFails, TypeInv, RestTyped
  <2>4. RestTyped'
    BY <1>6, <2>3, LogBounds DEF WriteFails, Return, Fault, TypeInv, RestTyped
  <2> QED BY <2>1, <2>2, <2>4 DEF TypeInv
<1>7. ASSUME NEW p \in Procs, Sync(p) PROVE TypeInv'
  <2>1. job[p].said \in Content
    BY <1>7, <1>a DEF Sync, At, WholeJob
  <2>2. JobTyped'
    BY <1>7, <2>1, AnswersAreTyped, JobStep DEF Sync, Return
  <2>3. LogTyped'
    BY <1>7, ReadsAreTyped DEF Sync, TypeInv, LogTyped
  <2>4. RestTyped'
    BY <1>7, <2>1 DEF Sync, Return, TypeInv, RestTyped
  <2> QED BY <2>2, <2>3, <2>4 DEF TypeInv
<1>8. ASSUME NEW p \in Procs, SyncFails(p) PROVE TypeInv'
  <2>1. JobTyped'
    BY <1>8, AnswersAreTyped, JobStep DEF SyncFails, Return
  <2>2. RestTyped'
    BY <1>8, LogBounds DEF SyncFails, Return, Fault, TypeInv, RestTyped
  <2> QED BY <1>8, <2>1, <2>2, LogStays DEF SyncFails, TypeInv
<1>9. ASSUME NEW p \in Procs, Kill(p) PROVE TypeInv'
  <2>1. JobTyped'
    BY <1>9, LinesAreTyped, JobStep DEF Kill
  <2>2. RestTyped'
    BY <1>9, LogBounds DEF Kill, Fault, TypeInv, RestTyped
  <2> QED BY <1>9, <2>1, <2>2, LogStays DEF Kill, TypeInv
<1>10. ASSUME NEW c \in Callers, Send(c) PROVE TypeInv'
  <2> c \in Procs
    BY DEF Procs
  <2>1. job[c].said \in Content
    BY <1>10, <1>a DEF Send, At, WholeJob
  <2>2. JobTyped'
    <3> DEFINE j == [job[c] EXCEPT !.pc = "sent"]
    <3>1. j \in WholeJob
      BY <2>1, <1>a DEF Job, WholeJob
    <3>2. job' = [job EXCEPT ![c] = j]
      BY <1>10, <1>a DEF Send, Goto, Job
    <3> HIDE DEF j
    <3> QED BY <3>1, <3>2, JobStep
  <2>3. RestTyped'
    BY <1>10, <2>1 DEF Send, TypeInv, RestTyped, Content
  <2> QED BY <1>10, <2>2, <2>3, LogStays DEF Send, TypeInv
<1>11. ASSUME NEW c \in Callers, NEW d \in Decisions, Review(c, d) PROVE TypeInv'
  <2> c \in Procs
    BY DEF Procs
  <2>1. JobTyped'
    <3> DEFINE j == [job[c] EXCEPT !.pc = "lock",
                         !.said = [review |-> 0, kind |-> d]]
    <3>1. j \in WholeJob
      <4>1. [review |-> 0, kind |-> d]
              \in [review : 0..MaxReviews, kind : Decisions \cup Outcomes]
        BY LogBounds
      <4> QED BY <1>a, <4>1 DEF Job, WholeJob
    <3>2. job' = [job EXCEPT ![c] = j]
      BY <1>11, <1>a DEF Review, Job
    <3> HIDE DEF j
    <3> QED BY <3>1, <3>2, JobStep
  <2> QED BY <1>11, <2>1, LogStays DEF Review, TypeInv, RestTyped
<1>12. ASSUME NEW c \in Callers, NEW o \in Outcomes, Conclude(c, o) PROVE TypeInv'
  <2> c \in Procs
    BY DEF Procs
  <2>1. JobTyped'
    <3> DEFINE j == [job[c] EXCEPT !.pc = "lock", !.said.kind = o]
    <3>1. j \in WholeJob
      BY <1>a DEF Job, WholeJob
    <3>2. job' = [job EXCEPT ![c] = j]
      BY <1>12, <1>a DEF Conclude, Job
    <3> HIDE DEF j
    <3> QED BY <3>1, <3>2, JobStep
  <2> QED BY <1>12, <2>1, LogStays DEF Conclude, TypeInv, RestTyped
<1>13. ASSUME NEW x \in Cancellers, List(x) PROVE TypeInv'
  <2> x \in Procs
    BY DEF Procs
  <2>1. JobTyped'
    <3> DEFINE j == [job[x] EXCEPT !.pc = "marking", !.todo = Inflight]
    <3>1. j \in WholeJob
      BY <1>a DEF Job, WholeJob, Inflight
    <3>2. job' = [job EXCEPT ![x] = j]
      BY <1>13, <1>a DEF List, Job
    <3> HIDE DEF j
    <3> QED BY <3>1, <3>2, JobStep
  <2> QED BY <1>13, <2>1, LogStays DEF List, TypeInv, RestTyped
<1>14. ASSUME NEW x \in Cancellers, Mark(x) PROVE TypeInv'
  <2> x \in Procs
    BY DEF Procs
  <2>1. JobTyped'
    <3> DEFINE j == [job[x] EXCEPT !.pc = "lock",
                         !.said = [review |-> Min(job[x].todo),
                                   kind |-> "ambiguous"]]
    <3>1. Min(job[x].todo) \in 0..MaxReviews
      <4>1. job[x].todo \subseteq Reviews /\ job[x].todo # {}
        BY <1>14, <1>a DEF Mark, Job
      <4>2. Min(job[x].todo) \in job[x].todo
        BY <4>1, SmallestReview
      <4> QED BY <4>1, <4>2, LogBounds DEF Reviews
    <3>2. j \in WholeJob
      <4>1. [review |-> Min(job[x].todo), kind |-> "ambiguous"]
              \in [review : 0..MaxReviews, kind : Decisions \cup Outcomes]
        BY <3>1 DEF Outcomes
      <4> QED BY <1>a, <4>1 DEF Job, WholeJob
    <3>3. job' = [job EXCEPT ![x] = j]
      BY <1>14, <1>a DEF Mark, Job
    <3> HIDE DEF j
    <3> QED BY <3>2, <3>3, JobStep
  <2> QED BY <1>14, <2>1, LogStays DEF Mark, TypeInv, RestTyped
<1>15. ASSUME NEW x \in Cancellers, Interrupt(x) PROVE TypeInv'
  <2> x \in Procs
    BY DEF Procs
  <2>1. JobTyped'
    BY <1>15, LinesAreTyped, JobStep DEF Interrupt
  <2> QED BY <1>15, <2>1, LogStays DEF Interrupt, TypeInv, RestTyped
<1>16. ASSUME NEW m \in Migrators, Scan(m) PROVE TypeInv'
  <2> m \in Procs
    BY DEF Procs
  <2>1. JobTyped'
    <3> DEFINE j == [job[m] EXCEPT !.pc = "lock", !.scan = log]
    <3>1. log \in Seq(Line)
      <4>1. \A i \in 1..Len(log) : log[i] \in Line
        BY <1>16, ReadsAreTyped, LinesAreTyped DEF Scan
      <4>2. log \in [1..Len(log) -> Line]
        BY <4>1, ReadsAreTyped, LenProperties
      <4> QED BY <4>2, ReadsAreTyped, FunctionIsSeq
    <3>2. j \in WholeJob
      BY <1>a, <3>1 DEF Job, WholeJob
    <3>3. job' = [job EXCEPT ![m] = j]
      BY <1>16, <1>a DEF Scan, Job
    <3> HIDE DEF j
    <3> QED BY <3>2, <3>3, JobStep
  <2> QED BY <1>16, <2>1, LogStays DEF Scan, TypeInv, RestTyped
<1>17. ASSUME NEW m \in Migrators, Rename(m) PROVE TypeInv'
  <2> m \in Procs
    BY DEF Procs
  <2>1. JobTyped'
    BY <1>17, LinesAreTyped, JobStep DEF Rename
  <2>2. LogTyped'
    <3>1. job[m].scan \in Seq(Line)
      BY <1>a DEF Job
    <3>2. Rechained(job[m].scan) \in Seq(Line)
          /\ Len(Rechained(job[m].scan)) = Len(job[m].scan)
      BY <3>1, RechainedLog
    <3>3. log' \in Seq(AnyLine) /\ synced' = Len(log') /\ Len(log') \in Nat
      BY <1>17, <3>1, <3>2, SeqMonotonic, LenProperties DEF Rename, AnyLine
    <3>4. synced' \in 0..Len(log')
      BY <3>3
    <3> QED BY <1>17, <3>3, <3>4, Zenon DEF Rename, LogTyped, AnyLine
  <2>3. RestTyped'
    BY <1>17 DEF Rename, TypeInv, RestTyped
  <2> QED BY <2>1, <2>2, <2>3 DEF TypeInv
<1>18. ASSUME PowerLoss PROVE TypeInv'
  <2>1. JobTyped'
    BY <1>18, LinesAreTyped DEF PowerLoss, JobTyped
  <2>2. RestTyped'
    BY <1>18, LogBounds DEF PowerLoss, Fault, TypeInv, RestTyped
  <2>3. LogTyped'
    <3>1. PICK n \in synced..Len(log) :
            \/ /\ log' = SubSeq(log, 1, n)
               /\ cut' = (cut /\ n = Len(log))
               /\ synced' = n
            \/ /\ n < Len(log)
               /\ Readable(log[n + 1])
               /\ \E tear \in Tears :
                     log' = Append(SubSeq(log, 1, n), Torn(log[n + 1], tear))
               /\ cut' = TRUE
               /\ synced' = n + 1
      BY <1>18 DEF PowerLoss
    <3>2. n \in 0..Len(log)
      BY <3>1, ReadsAreTyped DEF TypeInv, LogTyped
    <3>3. SubSeq(log, 1, n) \in Seq(AnyLine) /\ Len(SubSeq(log, 1, n)) = n
      BY <3>2, ReadsAreTyped, SubSeqProperties
    <3>4. CASE /\ log' = SubSeq(log, 1, n)
               /\ cut' = (cut /\ n = Len(log))
               /\ synced' = n
      <4>1. cut' => log' # <<>>
        BY <3>2, <3>3, <3>4, ReadsAreTyped, EmptySeq DEF TypeInv, LogTyped
      <4>2. cut' \in BOOLEAN
        BY <3>4
      <4>3. synced' \in 0..Len(log') /\ log' \in Seq(AnyLine)
        BY <3>2, <3>3, <3>4
      <4> QED BY <4>1, <4>2, <4>3, Zenon DEF LogTyped, AnyLine
    <3>5. ASSUME n < Len(log), NEW tear \in Tears, cut' = TRUE, synced' = n + 1,
                 log' = Append(SubSeq(log, 1, n), Torn(log[n + 1], tear))
          PROVE  LogTyped'
      <4>1. Torn(log[n + 1], tear) \in AnyLine
        BY <3>2, <3>5, ReadsAreTyped DEF Torn, AnyLine
      <4>2. log' \in Seq(AnyLine) /\ log' # <<>> /\ Len(log') = n + 1
        BY <3>3, <3>5, <4>1, AppendProperties
      <4> QED BY <3>2, <3>5, <4>2 DEF LogTyped, AnyLine
    <3> QED BY <3>1, <3>4, <3>5
  <2> QED BY <2>1, <2>2, <2>3 DEF TypeInv
<1>19. CASE UNCHANGED vars
  BY <1>19 DEF vars, TypeInv, LogTyped, JobTyped, RestTyped
<1> QED
  BY <1>1, <1>2, <1>3, <1>5, <1>6, <1>7, <1>8, <1>9, <1>10, <1>11, <1>12,
     <1>13, <1>14, <1>15, <1>16, <1>17, <1>18, <1>19 DEF Next

\* TypeOK at every step: lines, jobs and histories keep their shape whatever the
\* processes, the faults and what a torn write leaves of its line.
THEOREM LogTypeCorrect == Spec => []TypeOK
<1>1. TypeInv => TypeOK
  BY DEF TypeInv, LogTyped, JobTyped, RestTyped, TypeOK, WholeJob
<1> QED BY <1>1, TypeInit, TypeStep, PTL DEF Spec

-----------------------------------------------------------------------------
(* The chain and the outcomes.                                              *)

\* A process between the lock and its release holds it.
LockInv ==
    \A p \in Procs :
        job[p].pc \in {"read", "write", "sync", "rename"} => lock = p

\* What a process read under the lock is still so when it writes: the tail, and
\* that the review of its outcome has none.
WriteInv ==
    \A p \in Procs : job[p].pc = "write" =>
        /\ log # <<>> => Readable(log[Len(log)])
        /\ job[p].prev = TailHash
        /\ job[p].said.kind \in Outcomes =>
              HasReview(job[p].said.review) /\ ~HasOutcome(job[p].said.review)

\* OneOutcome, of any sequence of lines.
OneOutcomeIn(lines) ==
    \A i \in DOMAIN lines : Readable(lines[i]) /\ lines[i].said.kind \in Outcomes =>
        /\ \E j \in 1..i - 1 :
              /\ Readable(lines[j])
              /\ lines[j].said.review = lines[i].said.review
              /\ lines[j].said.kind \in Decisions
        /\ \A j \in DOMAIN lines \ {i} :
              Readable(lines[j]) /\ lines[j].said.review = lines[i].said.review
                => lines[j].said.kind \in Decisions

\* What a migration has scanned was once the log.
ScanInv == \A p \in Procs : OneOutcomeIn(job[p].scan)

LogInv ==
    /\ TypeInv /\ LockInv /\ WriteInv /\ ScanInv
    /\ ChainVerifies /\ OneOutcomeIn(log)

\* A step that leaves the log alone, brings nobody to its write and scans nothing.
Quiet ==
    /\ log' = log
    /\ \A p \in Procs : /\ job'[p].pc = "write" => job'[p] = job[p]
                        /\ job'[p].scan \in {job[p].scan, <<>>}

OthersStay(p) == \A q \in Procs \ {p} : job'[q] = job[q]

\* One process moves: the lock stays with whoever needs it.
LEMMA LockMoves ==
    ASSUME LockInv, NEW p \in Procs, OthersStay(p),
           job'[p].pc \in {"read", "write", "sync", "rename"} => lock' = p,
           \A q \in Procs \ {p} : lock = q => lock' = q
    PROVE  LockInv'
BY DEF LockInv, OthersStay

\* One process moves without writing or scanning.
LEMMA QuietMoves ==
    ASSUME NEW p \in Procs, OthersStay(p), log' = log,
           job'[p].pc # "write", job'[p].scan \in {job[p].scan, <<>>}
    PROVE  Quiet
BY DEF Quiet, OthersStay

\* Who holds the lock writes alone.
LEMMA HolderAlone ==
    ASSUME LockInv, NEW p \in Procs,
           job[p].pc \in {"read", "write", "sync", "rename"}
    PROVE  /\ \A q \in Procs \ {p} : job[q].pc # "write" /\ lock # q
BY DEF LockInv

\* A process that got its answer is past the lock.
LEMMA AnswersMove ==
    ASSUME TypeInv, NEW p \in Procs, NEW answer,
           job' = [job EXCEPT ![p] = After(p, answer)]
    PROVE  /\ OthersStay(p)
           /\ job'[p].pc \in {"idle", "marking", "reviewed"}
           /\ job'[p].scan \in {job[p].scan, <<>>}
<1>1. job \in [Procs -> Job]
  BY DEF TypeInv, JobTyped, WholeJob
<1>2. job'[p] = After(p, answer) /\ OthersStay(p)
  BY <1>1 DEF OthersStay
<1> QED BY <1>1, <1>2 DEF After, Idle, Job

\* A quiet step keeps everything said of the log.
LEMMA QuietStep ==
    ASSUME LogInv, Quiet
    PROVE  WriteInv' /\ ScanInv' /\ ChainVerifies' /\ OneOutcomeIn(log)'
<1>1. WriteInv'
  <2>1. Entries' = Entries /\ TailHash' = TailHash
    BY DEF Quiet, Entries, TailHash, Readable
  <2> QED
    BY <2>1 DEF LogInv, Quiet, WriteInv, HasReview, HasOutcome, Readable
<1>2. ScanInv'
  <2>1. OneOutcomeIn(<<>>)
    BY DEF OneOutcomeIn
  <2>2. \A p \in Procs : OneOutcomeIn(job'[p].scan)
    BY <2>1 DEF LogInv, Quiet, ScanInv
  <2> QED BY <2>2 DEF ScanInv, OneOutcomeIn, Readable
<1>3. ChainVerifies' /\ OneOutcomeIn(log)'
  BY DEF LogInv, Quiet, ChainVerifies, OneOutcomeIn, Links, Readable
<1> QED BY <1>1, <1>2, <1>3

\* The actions that leave the log and the writers alone.
LEMMA QuietActions ==
    ASSUME LogInv,
           \/ \E p \in Procs : \/ Acquire(p) \/ LockTimeout(p)
                               \/ Sync(p) \/ SyncFails(p) \/ Kill(p)
           \/ \E c \in Callers : \/ Send(c)
                                 \/ \E d \in Decisions : Review(c, d)
                                 \/ \E o \in Outcomes : Conclude(c, o)
           \/ \E x \in Cancellers : List(x) \/ Mark(x) \/ Interrupt(x)
    PROVE  LockInv' /\ Quiet
<1>a. job \in [Procs -> Job] /\ LockInv /\ TypeInv
  BY DEF LogInv, TypeInv, JobTyped, WholeJob
<1>b. Callers \subseteq Procs /\ Cancellers \subseteq Procs /\ Migrators \subseteq Procs
      /\ Nobody \notin Procs
  BY ProcsAssumption DEF Procs
<1>1. ASSUME NEW p \in Procs, Acquire(p) PROVE LockInv' /\ Quiet
  <2>1. /\ OthersStay(p) /\ log' = log /\ lock' = p /\ lock = Nobody
        /\ job'[p].pc \in {"rename", "read"} /\ job'[p].scan = job[p].scan
    BY <1>1, <1>a DEF Acquire, Goto, OthersStay, Job
  <2> QED BY <1>a, <1>b, <2>1, LockMoves, QuietMoves
<1>2. ASSUME NEW p \in Procs, LockTimeout(p) PROVE LockInv' /\ Quiet
  BY <1>2, <1>a, AnswersMove, LockMoves, QuietMoves DEF LockTimeout
<1>3. ASSUME NEW p \in Procs, Sync(p) \/ SyncFails(p) PROVE LockInv' /\ Quiet
  <2>1. \A q \in Procs \ {p} : lock # q
    BY <1>3, <1>a, HolderAlone DEF Sync, SyncFails, At
  <2>2. log' = log /\ \E a : job' = [job EXCEPT ![p] = After(p, a)]
    BY <1>3 DEF Sync, SyncFails, Return
  <2> QED BY <1>a, <2>1, <2>2, AnswersMove, LockMoves, QuietMoves
<1>4. ASSUME NEW p \in Procs, Kill(p) PROVE LockInv' /\ Quiet
  <2>1. /\ OthersStay(p) /\ log' = log
        /\ job'[p].pc = "idle" /\ job'[p].scan = <<>>
        /\ \A q \in Procs \ {p} : lock = q => lock' = q
    BY <1>4, <1>a DEF Kill, OthersStay, Idle
  <2> QED BY <1>a, <2>1, LockMoves, QuietMoves
<1>5. ASSUME NEW p \in Procs, UNCHANGED <<log, lock>>, OthersStay(p),
             job'[p].pc \in {"idle", "lock", "sent", "marking"},
             job'[p].scan \in {job[p].scan, <<>>}
      PROVE  LockInv' /\ Quiet
  BY <1>5, <1>a, LockMoves, QuietMoves
<1>6. ASSUME NEW c \in Callers, Send(c) PROVE LockInv' /\ Quiet
  <2>1. /\ UNCHANGED <<log, lock>> /\ OthersStay(c)
        /\ job'[c].pc = "sent" /\ job'[c].scan = job[c].scan
    BY <1>6, <1>a, <1>b DEF Send, Goto, OthersStay, Job
  <2> QED BY <1>5, <1>b, <2>1
<1>7. ASSUME NEW c \in Callers, NEW d \in Decisions, Review(c, d)
      PROVE  LockInv' /\ Quiet
  <2>1. /\ UNCHANGED <<log, lock>> /\ OthersStay(c)
        /\ job'[c].pc = "lock" /\ job'[c].scan = job[c].scan
    BY <1>7, <1>a, <1>b DEF Review, OthersStay, Job
  <2> QED BY <1>5, <1>b, <2>1
<1>8. ASSUME NEW c \in Callers, NEW o \in Outcomes, Conclude(c, o)
      PROVE  LockInv' /\ Quiet
  <2>1. /\ UNCHANGED <<log, lock>> /\ OthersStay(c)
        /\ job'[c].pc = "lock" /\ job'[c].scan = job[c].scan
    BY <1>8, <1>a, <1>b DEF Conclude, OthersStay, Job
  <2> QED BY <1>5, <1>b, <2>1
<1>9. ASSUME NEW x \in Cancellers, List(x) PROVE LockInv' /\ Quiet
  <2>1. /\ UNCHANGED <<log, lock>> /\ OthersStay(x)
        /\ job'[x].pc = "marking" /\ job'[x].scan = job[x].scan
    BY <1>9, <1>a, <1>b DEF List, OthersStay, Job
  <2> QED BY <1>5, <1>b, <2>1
<1>10. ASSUME NEW x \in Cancellers, Mark(x) PROVE LockInv' /\ Quiet
  <2>1. /\ UNCHANGED <<log, lock>> /\ OthersStay(x)
        /\ job'[x].pc = "lock" /\ job'[x].scan = job[x].scan
    BY <1>10, <1>a, <1>b DEF Mark, OthersStay, Job
  <2> QED BY <1>5, <1>b, <2>1
<1>11. ASSUME NEW x \in Cancellers, Interrupt(x) PROVE LockInv' /\ Quiet
  <2>1. /\ UNCHANGED <<log, lock>> /\ OthersStay(x)
        /\ job'[x].pc = "idle" /\ job'[x].scan = <<>>
    BY <1>11, <1>a, <1>b DEF Interrupt, OthersStay, Idle
  <2> QED BY <1>5, <1>b, <2>1
<1> QED
  BY <1>1, <1>2, <1>3, <1>4, <1>6, <1>7, <1>8, <1>9, <1>10, <1>11

\* A shorter log, whose last line may have become unreadable.
Shortened ==
    /\ log' \in Seq(AnyLine)
    /\ Len(log') <= Len(log)
    /\ \A i \in 1..Len(log') :
          \/ log'[i] = log[i]
          \/ i = Len(log') /\ log'[i] = Unreadable

\* A shortened log keeps its chain and its outcomes.
LEMMA ShortenedStep ==
    ASSUME LogInv, Shortened
    PROVE  ChainVerifies' /\ OneOutcomeIn(log)'
<1>a. /\ log' \in Seq(AnyLine) /\ log \in Seq(AnyLine)
      /\ Len(log') <= Len(log)
      /\ \A i \in 1..Len(log') :
            \/ log'[i] = log[i]
            \/ i = Len(log') /\ log'[i] = Unreadable
  BY ReadsAreTyped, Zenon DEF Shortened, LogInv
<1>1. /\ DOMAIN log = 1..Len(log)
      /\ DOMAIN log' = 1..Len(log')
  BY <1>a, LenProperties
<1>b. Len(log) \in Nat /\ Len(log') \in Nat /\ Len(log') <= Len(log)
  BY <1>a, LenProperties
<1>2. 1..Len(log') \subseteq 1..Len(log)
  BY <1>b
<1>c. \A i \in 1..Len(log') : \/ log'[i] = log[i]
                              \/ i = Len(log') /\ log'[i] = Unreadable
  BY <1>a, Zenon
<1>3. /\ \A i \in 1..Len(log') : log'[i] # Unreadable => log'[i] = log[i]
      /\ \A i \in 1..Len(log') : i # Len(log') => log'[i] = log[i]
  BY <1>c, Zenon
<1>4. ChainVerifies'
  <2> SUFFICES ASSUME log' # <<>>, log'[1] # Unreadable, log'[1].hash # Genesis,
                      NEW i \in 1..Len(log')
               PROVE  \/ /\ log'[i] # Unreadable
                         /\ log'[i].prev = IF i = 1 THEN Genesis ELSE log'[i - 1].hash
                         /\ log'[i].hash = Append(log'[i].prev, log'[i].said)
                      \/ log'[i] = Unreadable /\ i = Len(log')
    BY <1>1, Zenon DEF ChainVerifies, Readable, Links
  <2>1. 1 \in 1..Len(log') /\ log # <<>>
    <3>1. Len(log') # 0
      BY <1>a, EmptySeq
    <3>2. 1 <= Len(log)
      BY <1>b, <3>1
    <3> QED BY <1>b, <3>1, <3>2, EmptySeq
  <2>2. log[1] # Unreadable /\ log[1].hash # Genesis
    BY <1>3, <2>1
  <2>3. \A k \in 1..Len(log) :
          \/ /\ log[k] # Unreadable
             /\ log[k].prev = IF k = 1 THEN Genesis ELSE log[k - 1].hash
             /\ log[k].hash = Append(log[k].prev, log[k].said)
          \/ log[k] = Unreadable /\ k = Len(log)
    BY <1>1, <2>1, <2>2 DEF LogInv, ChainVerifies, Readable, Links
  <2>4. CASE log'[i] = Unreadable
    <3>1. CASE i = Len(log')
      BY <2>4, <3>1
    <3>2. CASE i # Len(log')
      <4>1. log[i] = Unreadable /\ i \in 1..Len(log)
        BY <1>2, <1>3, <2>4, <3>2
      <4>2. i = Len(log)
        BY <2>3, <4>1, Zenon
      <4> QED BY <1>b, <3>2, <4>2
    <3> QED BY <3>1, <3>2
  <2>5. CASE log'[i] # Unreadable
    <3>1. log'[i] = log[i]
      BY <1>3, <2>5
    <3>2. i # 1 => i - 1 \in 1..Len(log') /\ log'[i - 1] = log[i - 1]
      <4>1. i # 1 => i - 1 \in 1..Len(log') /\ i - 1 # Len(log')
        BY <1>b
      <4> QED BY <1>3, <4>1
    <3> QED BY <1>2, <2>3, <2>5, <3>1, <3>2
  <2> QED BY <2>4, <2>5
<1>5. OneOutcomeIn(log)'
  <2> SUFFICES ASSUME NEW i \in 1..Len(log'), log'[i] # Unreadable,
                      log'[i].said.kind \in Outcomes
               PROVE  /\ \E j \in 1..i - 1 :
                            /\ log'[j] # Unreadable
                            /\ log'[j].said.review = log'[i].said.review
                            /\ log'[j].said.kind \in Decisions
                      /\ \A j \in 1..Len(log') \ {i} :
                            log'[j] # Unreadable
                            /\ log'[j].said.review = log'[i].said.review
                              => log'[j].said.kind \in Decisions
    BY <1>1, Zenon DEF OneOutcomeIn, Readable
  <2>1. log'[i] = log[i] /\ i \in 1..Len(log)
    BY <1>2, <1>3
  <2>2. PICK j \in 1..i - 1 : /\ log[j] # Unreadable
                              /\ log[j].said.review = log[i].said.review
                              /\ log[j].said.kind \in Decisions
    BY <1>1, <2>1 DEF LogInv, OneOutcomeIn, Readable
  <2>3. log'[j] = log[j]
    <3>1. j \in 1..Len(log') /\ j # Len(log')
      BY <1>b
    <3> QED BY <1>3, <3>1
  <2>4. \A k \in 1..Len(log') \ {i} :
          log'[k] # Unreadable /\ log'[k].said.review = log'[i].said.review
            => log'[k].said.kind \in Decisions
    BY <1>1, <1>2, <1>3, <2>1 DEF LogInv, OneOutcomeIn, Readable
  <2> QED BY <2>1, <2>2, <2>3, <2>4
<1> QED BY <1>4, <1>5

\* A power loss shortens the log and idles everyone.
LEMMA PowerLossStep ==
    ASSUME LogInv, PowerLoss
    PROVE  LockInv' /\ WriteInv' /\ ScanInv' /\ ChainVerifies' /\ OneOutcomeIn(log)'
<1>1. \A p \in Procs : job'[p] = Idle
  BY DEF PowerLoss
<1>2. LockInv' /\ WriteInv'
  BY <1>1 DEF LockInv, WriteInv, Idle
<1>3. ScanInv'
  BY <1>1 DEF ScanInv, Idle, OneOutcomeIn
<1>4. Shortened
  <2>1. PICK n \in synced..Len(log) :
          \/ log' = SubSeq(log, 1, n)
          \/ /\ n < Len(log)
             /\ \E tear \in Tears :
                   log' = Append(SubSeq(log, 1, n), Torn(log[n + 1], tear))
    BY DEF PowerLoss
  <2>2. /\ log \in Seq(AnyLine) /\ Len(log) \in Nat
        /\ \A i \in 1..Len(log) : log[i] \in AnyLine
        /\ n \in 0..Len(log)
    BY ReadsAreTyped DEF LogInv, TypeInv, LogTyped
  <2>3. /\ SubSeq(log, 1, n) \in Seq(AnyLine) /\ Len(SubSeq(log, 1, n)) = n
        /\ \A i \in 1..n : SubSeq(log, 1, n)[i] = log[i]
    BY <2>2, SubSeqProperties
  <2>4. CASE log' = SubSeq(log, 1, n)
    BY <2>2, <2>3, <2>4 DEF Shortened
  <2>5. ASSUME n < Len(log), NEW tear \in Tears,
               log' = Append(SubSeq(log, 1, n), Torn(log[n + 1], tear))
        PROVE  Shortened
    <3>1. Torn(log[n + 1], tear) \in AnyLine
          /\ Torn(log[n + 1], tear) \in {log[n + 1], Unreadable}
      BY <2>2, <2>5 DEF Torn, AnyLine
    <3>2. /\ log' \in Seq(AnyLine) /\ Len(log') = n + 1
          /\ \A i \in 1..n : log'[i] = log[i]
          /\ log'[n + 1] \in {log[n + 1], Unreadable}
      BY <2>3, <2>5, <3>1, AppendProperties
    <3> QED BY <2>2, <2>5, <3>2 DEF Shortened
  <2> QED BY <2>1, <2>4, <2>5
<1> QED BY <1>2, <1>3, <1>4, ShortenedStep

\* A line of the log that is an outcome, or not one, is seen as such.
LEMMA LinesAreSeen ==
    ASSUME TypeInv
    PROVE  /\ \A line \in Line : Readable(line)
           /\ \A i \in 1..Len(log) : Readable(log[i]) =>
                 /\ log[i].said \in Content
                 /\ log[i].said.kind \in Outcomes => HasOutcome(log[i].said.review)
           /\ \A r : HasReview(r) => \E i \in 1..Len(log) :
                 /\ Readable(log[i])
                 /\ log[i].said.review = r
                 /\ log[i].said.kind \in Decisions
<1>1. \A line \in Line : Readable(line)
  <2>1. \A line \in Line : line.said.review # 0
    BY LogBounds DEF Line, Content, Reviews
  <2>2. Unreadable.said.review = 0
    BY DEF Unreadable
  <2> QED BY <2>1, <2>2 DEF Readable
<1>2. ASSUME NEW i \in 1..Len(log), Readable(log[i])
      PROVE  /\ log[i].said \in Content
             /\ log[i].said.kind \in Outcomes => HasOutcome(log[i].said.review)
  <2>1. log[i].said \in Entries /\ Entries \subseteq Content
    BY <1>2, ReadsAreTyped DEF Entries
  <2>2. log[i].said = [review |-> log[i].said.review, kind |-> log[i].said.kind]
    BY <2>1 DEF Content
  <2> QED BY <2>1, <2>2 DEF HasOutcome
<1>3. ASSUME NEW r, HasReview(r)
      PROVE  \E i \in 1..Len(log) : /\ Readable(log[i])
                                    /\ log[i].said.review = r
                                    /\ log[i].said.kind \in Decisions
  BY <1>3, ReadsAreTyped DEF HasReview, Entries
<1> QED BY <1>1, <1>2, <1>3

\* The append of a process that read the tail under the lock.
LEMMA AppendStep ==
    ASSUME LogInv, NEW p \in Procs, At(p, "write"),
           NEW line \in {NewLine(p), Unreadable}, log' = Appended(line)
    PROVE  ChainVerifies' /\ OneOutcomeIn(log)'
<1>a. TypeInv /\ job[p] \in Job /\ job[p].said \in Content
  BY DEF LogInv, TypeInv, JobTyped, WholeJob, At
<1>b. /\ log \in Seq(AnyLine) /\ Len(log) \in Nat /\ DOMAIN log = 1..Len(log)
      /\ \A i \in 1..Len(log) : log[i] \in AnyLine
  BY <1>a, ReadsAreTyped
<1>c. /\ NewLine(p) \in Line
      /\ NewLine(p).said = job[p].said /\ NewLine(p).prev = TailHash
      /\ NewLine(p).hash = Append(TailHash, job[p].said)
      /\ NewLine(p) # Unreadable
  <2>1. job[p].prev = TailHash /\ job[p].prev \in Seq(Content)
    BY <1>a DEF LogInv, WriteInv, At, Job
  <2>2. NewLine(p) \in Line
    BY <1>a, <2>1, LinesAreTyped DEF NewLine
  <2> QED BY <1>a, <2>1, <2>2, LineFields, LinesAreSeen DEF NewLine, Readable
<1>1. CASE cut
  <2>1. Len(log) \in 1..Len(log)
    BY <1>1, <1>a, <1>b, EmptySeq DEF TypeInv, LogTyped
  <2>2. /\ log' \in Seq(AnyLine) /\ Len(log') = Len(log)
        /\ \A i \in 1..Len(log) : log'[i] = IF i = Len(log) THEN Unreadable ELSE log[i]
    BY <1>1, <1>b, <2>1, ExceptSeq DEF Appended, AnyLine
  <2>3. Shortened
    <3>1. Len(log') <= Len(log)
      <4>1. Len(log') = Len(log) /\ Len(log) \in Nat
        BY <1>b, <2>2, Zenon
      <4> QED BY <4>1
    <3>2. \A i \in 1..Len(log') : \/ log'[i] = log[i]
                                  \/ i = Len(log') /\ log'[i] = Unreadable
      BY <2>2
    <3> QED BY <2>2, <3>1, <3>2, Zenon DEF Shortened
  <2> QED BY <2>3, ShortenedStep
<1>2. CASE ~cut
  <2> DEFINE n == Len(log) + 1
  <2>1. line \in AnyLine
    BY <1>c DEF AnyLine
  <2>2. /\ log' \in Seq(AnyLine) /\ Len(log') = n
        /\ \A i \in 1..Len(log) : log'[i] = log[i]
        /\ log'[n] = line
    BY <1>2, <1>b, <2>1, AppendProperties DEF Appended
  <2>3. DOMAIN log' = 1..n /\ n \in 1..n /\ n \notin 1..Len(log)
        /\ 1..n = 1..Len(log) \cup {n}
    BY <1>b, <2>2, LenProperties
  <2>4. ChainVerifies'
    <3> SUFFICES ASSUME log' # <<>>, log'[1] # Unreadable, log'[1].hash # Genesis,
                        NEW i \in 1..n
                 PROVE  \/ /\ log'[i] # Unreadable
                           /\ log'[i].prev = IF i = 1 THEN Genesis ELSE log'[i - 1].hash
                           /\ log'[i].hash = Append(log'[i].prev, log'[i].said)
                        \/ log'[i] = Unreadable /\ i = Len(log')
      BY <2>3, Zenon DEF ChainVerifies, Readable, Links
    <3>1. CASE i = n
      <4>1. CASE line = Unreadable
        BY <2>2, <3>1, <4>1
      <4>2. CASE line = NewLine(p)
        <5>1. TailHash = IF i = 1 THEN Genesis ELSE log'[i - 1].hash
          <6>1. CASE log = <<>>
            BY <3>1, <6>1, EmptySeq DEF TailHash
          <6>2. CASE log # <<>>
            <7>1. Len(log) # 0 /\ Len(log) \in 1..Len(log)
              BY <1>b, <6>2, EmptySeq
            <7>2. i # 1 /\ i - 1 = Len(log)
              BY <1>b, <3>1, <7>1
            <7> QED BY <2>2, <6>2, <7>1, <7>2 DEF TailHash
          <6> QED BY <6>1, <6>2
        <5>2. log'[i] = NewLine(p)
          BY <2>2, <3>1, <4>2
        <5> QED BY <1>c, <5>1, <5>2
      <4> QED BY <4>1, <4>2
    <3>2. CASE i \in 1..Len(log)
      <4>1. log # <<>> /\ 1 \in 1..Len(log)
        BY <1>b, <3>2, EmptySeq
      <4>2. log[1] # Unreadable /\ log[1].hash # Genesis
        BY <2>2, <4>1
      <4>3. log[Len(log)] # Unreadable
        BY <4>1 DEF LogInv, WriteInv, At, Readable
      <4>4. /\ log[i] # Unreadable
            /\ log[i].prev = IF i = 1 THEN Genesis ELSE log[i - 1].hash
            /\ log[i].hash = Append(log[i].prev, log[i].said)
        BY <1>b, <3>2, <4>1, <4>2, <4>3 DEF LogInv, ChainVerifies, Readable, Links
      <4>5. i # 1 => i - 1 \in 1..Len(log)
        BY <1>b, <3>2
      <4> QED BY <2>2, <3>2, <4>4, <4>5
    <3> QED BY <2>3, <3>1, <3>2
  <2>5. OneOutcomeIn(log)'
    <3> SUFFICES ASSUME NEW i \in 1..n, log'[i] # Unreadable,
                        log'[i].said.kind \in Outcomes
                 PROVE  /\ \E j \in 1..i - 1 :
                              /\ log'[j] # Unreadable
                              /\ log'[j].said.review = log'[i].said.review
                              /\ log'[j].said.kind \in Decisions
                        /\ \A j \in 1..n \ {i} :
                              log'[j] # Unreadable
                              /\ log'[j].said.review = log'[i].said.review
                                => log'[j].said.kind \in Decisions
      BY <2>3, Zenon DEF OneOutcomeIn, Readable
    <3>a. job[p].said.kind \in Outcomes =>
            HasReview(job[p].said.review) /\ ~HasOutcome(job[p].said.review)
      BY DEF LogInv, WriteInv, At
    <3>b. \A k \in 1..Len(log) : log[k] # Unreadable =>
            /\ log[k].said.kind \in Decisions \cup Outcomes
            /\ log[k].said.kind \in Outcomes => HasOutcome(log[k].said.review)
      BY <1>a, LinesAreSeen DEF Readable, Content
    <3>1. CASE i = n
      <4>1. log'[i].said = job[p].said
        BY <1>c, <2>2, <3>1
      <4>2. HasReview(job[p].said.review) /\ ~HasOutcome(job[p].said.review)
        BY <3>a, <4>1
      <4>3. PICK j \in 1..Len(log) : /\ log[j] # Unreadable
                                     /\ log[j].said.review = job[p].said.review
                                     /\ log[j].said.kind \in Decisions
        BY <1>a, <4>2, LinesAreSeen DEF Readable
      <4>4. j \in 1..i - 1 /\ log'[j] = log[j]
        BY <1>b, <2>2, <3>1
      <4>5. \A k \in 1..n \ {i} : k \in 1..Len(log) /\ log'[k] = log[k]
        BY <2>2, <2>3, <3>1
      <4>6. \A k \in 1..n \ {i} :
              log'[k] # Unreadable /\ log'[k].said.review = log'[i].said.review
                => log'[k].said.kind \in Decisions
        BY <3>b, <4>1, <4>2, <4>5
      <4> QED BY <4>1, <4>3, <4>4, <4>6
    <3>2. CASE i \in 1..Len(log)
      <4>1. log'[i] = log[i] /\ HasOutcome(log[i].said.review)
        BY <2>2, <3>2, <3>b
      <4>2. /\ \E j \in 1..i - 1 : /\ log[j] # Unreadable
                                   /\ log[j].said.review = log[i].said.review
                                   /\ log[j].said.kind \in Decisions
            /\ \A j \in 1..Len(log) \ {i} :
                  log[j] # Unreadable /\ log[j].said.review = log[i].said.review
                    => log[j].said.kind \in Decisions
        BY <1>b, <3>2, <4>1 DEF LogInv, OneOutcomeIn, Readable
      <4>3. \A j \in 1..i - 1 : log'[j] = log[j]
        BY <1>b, <2>2, <3>2
      <4>4. log'[n] # Unreadable /\ log'[n].said.review = log'[i].said.review
              => log'[n].said.kind \in Decisions
        <5>1. CASE line = Unreadable
          BY <2>2, <5>1
        <5>2. CASE line = NewLine(p)
          BY <1>a, <1>c, <2>2, <3>a, <4>1, <5>2 DEF Content
        <5> QED BY <5>1, <5>2
      <4>5. \A j \in 1..n \ {i} :
              log'[j] # Unreadable /\ log'[j].said.review = log'[i].said.review
                => log'[j].said.kind \in Decisions
        BY <2>2, <2>3, <4>1, <4>2, <4>4
      <4> QED BY <4>1, <4>2, <4>3, <4>5
    <3> QED BY <2>3, <3>1, <3>2
  <2> QED BY <2>4, <2>5
<1> QED BY <1>1, <1>2

\* While the holder of the lock changes the log, nobody else is to write.
LEMMA HolderMoves ==
    ASSUME LogInv, NEW p \in Procs, job[p].pc \in {"write", "rename"},
           OthersStay(p), job'[p].pc \in {"sync", "idle", "marking", "reviewed"},
           job'[p].pc = "sync" => lock' = lock,
           job'[p].scan \in {job[p].scan, <<>>}
    PROVE  LockInv' /\ WriteInv' /\ ScanInv'
<1>1. LockInv /\ lock = p
  BY DEF LogInv, LockInv
<1>2. \A q \in Procs \ {p} : job[q].pc # "write" /\ lock # q
  BY <1>1, HolderAlone
<1>3. LockInv'
  BY <1>1, <1>2, LockMoves
<1>4. WriteInv'
  <2>1. \A q \in Procs : job'[q].pc # "write"
    BY <1>2 DEF OthersStay
  <2> QED BY <2>1 DEF WriteInv
<1>5. ScanInv'
  <2>1. OneOutcomeIn(<<>>)
    BY DEF OneOutcomeIn
  <2>2. \A q \in Procs : OneOutcomeIn(job'[q].scan)
    BY <2>1 DEF LogInv, ScanInv, OthersStay
  <2> QED BY <2>2 DEF ScanInv, OneOutcomeIn, Readable
<1> QED BY <1>3, <1>4, <1>5

\* Write: an append under the lock.
LEMMA WriteStep ==
    ASSUME LogInv, NEW p \in Procs, Write(p)
    PROVE  LockInv' /\ WriteInv' /\ ScanInv' /\ ChainVerifies' /\ OneOutcomeIn(log)'
<1>1. job \in [Procs -> Job]
  BY DEF LogInv, TypeInv, JobTyped, WholeJob
<1>2. /\ OthersStay(p) /\ job'[p].pc = "sync" /\ lock' = lock
      /\ job'[p].scan = job[p].scan
  BY <1>1 DEF Write, Goto, OthersStay, Job
<1>3. LockInv' /\ WriteInv' /\ ScanInv'
  BY <1>2, HolderMoves DEF Write, At
<1> QED BY <1>3, AppendStep DEF Write

\* WriteFails: nothing, or a torn line, under the lock.
LEMMA WriteFailsStep ==
    ASSUME LogInv, NEW p \in Procs, WriteFails(p)
    PROVE  LockInv' /\ WriteInv' /\ ScanInv' /\ ChainVerifies' /\ OneOutcomeIn(log)'
<1>1. TypeInv
  BY DEF LogInv
<1>2. /\ OthersStay(p) /\ job'[p].pc \in {"idle", "marking", "reviewed"}
      /\ job'[p].scan \in {job[p].scan, <<>>}
  BY <1>1, AnswersMove DEF WriteFails, Return
<1>3. LockInv' /\ WriteInv' /\ ScanInv'
  BY <1>2, HolderMoves DEF WriteFails, At
<1>4. ASSUME log' = log PROVE ChainVerifies' /\ OneOutcomeIn(log)'
  BY <1>4 DEF LogInv, ChainVerifies, OneOutcomeIn, Links, Readable
<1>5. ASSUME NEW tear \in Tears, log' = Appended(Torn(NewLine(p), tear))
      PROVE  ChainVerifies' /\ OneOutcomeIn(log)'
  <2>1. Torn(NewLine(p), tear) \in {NewLine(p), Unreadable} /\ At(p, "write")
    BY DEF WriteFails, Torn
  <2> QED BY <1>5, <2>1, AppendStep
<1>6. log' = log \/ \E tear \in Tears : log' = Appended(Torn(NewLine(p), tear))
  BY DEF WriteFails
<1>7. ChainVerifies' /\ OneOutcomeIn(log)'
  BY <1>4, <1>5, <1>6
<1> QED BY <1>3, <1>7

\* Read: what the writer will rely on holds now.
LEMMA ReadStep ==
    ASSUME LogInv, NEW p \in Procs, Read(p)
    PROVE  LockInv' /\ WriteInv' /\ ScanInv' /\ ChainVerifies' /\ OneOutcomeIn(log)'
<1> DEFINE said == job[p].said
<1>a. /\ TypeInv /\ LockInv /\ job \in [Procs -> Job]
      /\ job[p].pc = "read" /\ log' = log
  BY DEF LogInv, TypeInv, JobTyped, WholeJob, Read, At
<1>b. \A q \in Procs \ {p} : job[q].pc # "write" /\ lock # q
  BY <1>a, HolderAlone
<1>1. CASE Return(p, "error") \/ Return(p, "already")
  <2>1. \E a : job' = [job EXCEPT ![p] = After(p, a)]
    BY <1>1 DEF Return
  <2>2. LockInv' /\ Quiet
    BY <1>a, <1>b, <2>1, AnswersMove, LockMoves, QuietMoves
  <2> QED BY <2>2, QuietStep
<1>2. CASE /\ ~ReadFails(said) /\ ~Resolved(said)
           /\ job' = [job EXCEPT ![p].pc = "write", ![p].prev = TailHash,
                         ![p].said.review =
                             IF said.kind \in Decisions THEN ids + 1 ELSE @]
           /\ UNCHANGED lock
  <2>1. /\ OthersStay(p) /\ job'[p].pc = "write" /\ job'[p].prev = TailHash
        /\ job'[p].scan = job[p].scan
        /\ job'[p].said = [said EXCEPT !.review =
                              IF said.kind \in Decisions THEN ids + 1 ELSE said.review]
    BY <1>a, <1>2 DEF OthersStay, Job
  <2>2. said \in [review : 0..MaxReviews, kind : Decisions \cup Outcomes]
    BY <1>a DEF Job
  <2>3. /\ job'[p].said.kind = said.kind
        /\ said.kind \notin Decisions => job'[p].said.review = said.review
    BY <2>1, <2>2
  <2>4. LockInv'
    BY <1>a, <1>2, <2>1, LockMoves DEF LockInv
  <2>5. ScanInv'
    <3>1. \A q \in Procs : OneOutcomeIn(job'[q].scan)
      BY <2>1 DEF LogInv, ScanInv, OthersStay
    <3> QED BY <3>1 DEF ScanInv, OneOutcomeIn, Readable
  <2>6. ChainVerifies' /\ OneOutcomeIn(log)'
    BY <1>a DEF LogInv, ChainVerifies, OneOutcomeIn, Links, Readable
  <2>7. Entries' = Entries /\ TailHash' = TailHash
    BY <1>a DEF Entries, TailHash, Readable
  <2>8. said.kind \in Outcomes => said.kind \notin Decisions
    BY DEF Outcomes, Decisions
  <2>9. /\ log # <<>> => Readable(log[Len(log)])
        /\ said.kind \in Outcomes =>
              HasReview(said.review) /\ ~HasOutcome(said.review)
    <3>1. CASE said.kind \in Decisions
      BY <1>2, <2>8, <3>1 DEF ReadFails
    <3>2. CASE said.kind \notin Decisions
      <4>1. said.kind \in Outcomes /\ AllReadable
        BY <1>2, <2>2, <3>2 DEF ReadFails
      <4>2. log # <<>> => Len(log) \in DOMAIN log
        BY <1>a, ReadsAreTyped, EmptySeq
      <4> QED BY <1>2, <3>2, <4>1, <4>2 DEF ReadFails, Resolved, AllReadable
    <3> QED BY <3>1, <3>2
  <2>10. WriteInv'
    <3> SUFFICES ASSUME NEW q \in Procs, job'[q].pc = "write"
                 PROVE  /\ log' # <<>> => log'[Len(log')] # Unreadable
                        /\ job'[q].prev = TailHash'
                        /\ job'[q].said.kind \in Outcomes =>
                              HasReview(job[q].said.review)'
                              /\ ~HasOutcome(job[q].said.review)'
      BY DEF WriteInv, Readable
    <3>1. q = p
      BY <1>b, <2>1 DEF OthersStay
    <3>2. /\ log' # <<>> => log'[Len(log')] # Unreadable
          /\ job'[q].prev = TailHash'
      BY <1>a, <2>1, <2>7, <2>9, <3>1 DEF Readable
    <3>3. ASSUME job'[q].said.kind \in Outcomes
          PROVE  HasReview(job[q].said.review)' /\ ~HasOutcome(job[q].said.review)'
      <4>1. job'[q].said.review = said.review
            /\ HasReview(said.review) /\ ~HasOutcome(said.review)
        BY <2>3, <2>8, <2>9, <3>1, <3>3
      <4> HIDE DEF said
      <4> QED BY <2>7, <4>1 DEF HasReview, HasOutcome
    <3> QED BY <3>2, <3>3
  <2> QED BY <2>4, <2>5, <2>6, <2>10
<1> QED BY <1>1, <1>2 DEF Read

\* Scan: the log of this moment is carried to the lock.
LEMMA ScanStep ==
    ASSUME LogInv, NEW m \in Migrators, Scan(m)
    PROVE  LockInv' /\ WriteInv' /\ ScanInv' /\ ChainVerifies' /\ OneOutcomeIn(log)'
<1>a. m \in Procs /\ TypeInv /\ LockInv /\ job \in [Procs -> Job]
  BY DEF Procs, LogInv, TypeInv, JobTyped, WholeJob
<1>1. /\ OthersStay(m) /\ log' = log /\ lock' = lock
      /\ job'[m].pc = "lock" /\ job'[m].scan = log
  BY <1>a DEF Scan, OthersStay, Job
<1>2. LockInv'
  BY <1>a, <1>1, LockMoves
<1>3. WriteInv'
  <2>1. Entries' = Entries /\ TailHash' = TailHash
    BY <1>1 DEF Entries, TailHash, Readable
  <2>2. \A q \in Procs : job'[q].pc = "write" => job'[q] = job[q]
    BY <1>1 DEF OthersStay
  <2> QED
    BY <1>1, <2>1, <2>2 DEF LogInv, WriteInv, HasReview, HasOutcome, Readable
<1>4. ScanInv'
  <2>1. \A q \in Procs : OneOutcomeIn(job'[q].scan)
    BY <1>1 DEF LogInv, ScanInv, OthersStay
  <2> QED BY <2>1 DEF ScanInv, OneOutcomeIn, Readable
<1>5. ChainVerifies' /\ OneOutcomeIn(log)'
  BY <1>1 DEF LogInv, ChainVerifies, OneOutcomeIn, Links, Readable
<1> QED BY <1>2, <1>3, <1>4, <1>5

\* Rename: the log becomes the rechained scan.
LEMMA RenameStep ==
    ASSUME LogInv, NEW m \in Migrators, Rename(m)
    PROVE  LockInv' /\ WriteInv' /\ ScanInv' /\ ChainVerifies' /\ OneOutcomeIn(log)'
<1>a. m \in Procs /\ TypeInv /\ job \in [Procs -> Job]
  BY DEF Procs, LogInv, TypeInv, JobTyped, WholeJob
<1>1. OthersStay(m) /\ job'[m].pc = "idle" /\ job'[m].scan = <<>>
  BY <1>a DEF Rename, OthersStay, Idle
<1>2. LockInv' /\ WriteInv' /\ ScanInv'
  BY <1>a, <1>1, HolderMoves DEF Rename, At
<1> DEFINE scan == job[m].scan
<1>3. scan \in Seq(Line)
  BY <1>a DEF Job
<1>4. /\ log' \in Seq(Line) /\ Len(log') = Len(scan)
      /\ \A i \in 1..Len(scan) :
            /\ log'[i].said = scan[i].said
            /\ log'[i].prev = IF i = 1 THEN Genesis ELSE log'[i - 1].hash
            /\ log'[i].hash = Append(log'[i].prev, log'[i].said)
  BY <1>3, RechainedLog DEF Rename
<1>5. /\ Len(scan) \in Nat /\ DOMAIN scan = 1..Len(scan)
      /\ DOMAIN log' = 1..Len(scan)
  BY <1>3, <1>4, LenProperties
<1>6. \A i \in 1..Len(scan) : log'[i] # Unreadable /\ scan[i] # Unreadable
  <2>1. \A line \in Line : line # Unreadable
    BY <1>a, LinesAreSeen DEF Readable
  <2> QED BY <1>3, <1>4, <2>1, ElementOfSeq
<1>7. ChainVerifies'
  BY <1>4, <1>5, <1>6 DEF ChainVerifies, Readable, Links
<1>8. OneOutcomeIn(log)'
  <2>1. OneOutcomeIn(scan)
    BY <1>a DEF LogInv, ScanInv
  <2> SUFFICES ASSUME NEW i \in 1..Len(scan), log'[i].said.kind \in Outcomes
               PROVE  /\ \E j \in 1..i - 1 :
                            /\ log'[j] # Unreadable
                            /\ log'[j].said.review = log'[i].said.review
                            /\ log'[j].said.kind \in Decisions
                      /\ \A j \in 1..Len(scan) \ {i} :
                            log'[j].said.review = log'[i].said.review
                              => log'[j].said.kind \in Decisions
    BY <1>5, Zenon DEF OneOutcomeIn, Readable
  <2> HIDE DEF scan
  <2>2. scan[i].said.kind \in Outcomes /\ log'[i].said = scan[i].said
    BY <1>4
  <2>3. PICK j \in 1..i - 1 : /\ scan[j].said.review = scan[i].said.review
                              /\ scan[j].said.kind \in Decisions
    BY <1>5, <1>6, <2>1, <2>2 DEF OneOutcomeIn, Readable
  <2>4. \A k \in 1..Len(scan) \ {i} :
          scan[k].said.review = scan[i].said.review => scan[k].said.kind \in Decisions
    BY <1>5, <1>6, <2>1, <2>2 DEF OneOutcomeIn, Readable
  <2>5. j \in 1..Len(scan)
    BY <1>5
  <2> QED BY <1>4, <1>6, <2>2, <2>3, <2>4, <2>5
<1> QED BY <1>2, <1>7, <1>8

\* The invariant holds of every initial log.
LEMMA LogInvInit == Init => LogInv
<1> SUFFICES ASSUME Init PROVE LogInv
  OBVIOUS
<1>1. \A p \in Procs : job[p] = Idle
  BY DEF Init
<1>2. LockInv /\ WriteInv /\ ScanInv
  BY <1>1 DEF LockInv, WriteInv, ScanInv, OneOutcomeIn, Idle
<1>3. \A i \in DOMAIN log : i \in 1..OldReviews /\ log[i] = OldLine(i)
  BY DEF Init
<1>4. OneOutcomeIn(log)
  BY <1>3 DEF OneOutcomeIn, OldLine, Outcomes
<1>5. ChainVerifies
  <2>1. TypeInv
    BY TypeInit
  <2>2. log # <<>> => 1 \in DOMAIN log
    BY <2>1, ReadsAreTyped, EmptySeq
  <2> QED BY <1>3, <2>2 DEF ChainVerifies, OldLine
<1> QED BY <1>2, <1>4, <1>5, TypeInit DEF LogInv

\* Every action keeps the invariant.
LEMMA LogInvStep == LogInv /\ [Next]_vars => LogInv'
<1> SUFFICES ASSUME LogInv, [Next]_vars PROVE LogInv'
  OBVIOUS
<1>1. TypeInv'
  BY TypeStep DEF LogInv
<1>2. CASE UNCHANGED vars
  <2>1. LockInv'
    BY <1>2 DEF LogInv, LockInv, vars
  <2>2. Quiet
    BY <1>2 DEF Quiet, vars
  <2> QED BY <1>1, <2>1, <2>2, QuietStep DEF LogInv
<1>3. ASSUME \/ \E p \in Procs : \/ Acquire(p) \/ LockTimeout(p)
                                 \/ Sync(p) \/ SyncFails(p) \/ Kill(p)
             \/ \E c \in Callers : \/ Send(c)
                                   \/ \E d \in Decisions : Review(c, d)
                                   \/ \E o \in Outcomes : Conclude(c, o)
             \/ \E x \in Cancellers : List(x) \/ Mark(x) \/ Interrupt(x)
      PROVE  LogInv'
  BY <1>1, <1>3, QuietActions, QuietStep DEF LogInv
<1>4. ASSUME NEW p \in Procs, Read(p) PROVE LogInv'
  BY <1>1, <1>4, ReadStep DEF LogInv
<1>5. ASSUME NEW p \in Procs, Write(p) PROVE LogInv'
  BY <1>1, <1>5, WriteStep DEF LogInv
<1>6. ASSUME NEW p \in Procs, WriteFails(p) PROVE LogInv'
  BY <1>1, <1>6, WriteFailsStep DEF LogInv
<1>7. ASSUME NEW m \in Migrators, Scan(m) PROVE LogInv'
  BY <1>1, <1>7, ScanStep DEF LogInv
<1>8. ASSUME NEW m \in Migrators, Rename(m) PROVE LogInv'
  BY <1>1, <1>8, RenameStep DEF LogInv
<1>9. CASE PowerLoss
  BY <1>1, <1>9, PowerLossStep DEF LogInv
<1> QED
  BY <1>2, <1>3, <1>4, <1>5, <1>6, <1>7, <1>8, <1>9 DEF Next

\* ChainVerifies for any number of writers, cancels and migrations, any faults and
\* both kinds of torn line: the lock keeps the tail a writer has read, and the
\* refusal to append after an unreadable line keeps such a line last.
THEOREM ChainAlwaysVerifies == Spec => []ChainVerifies
<1>1. LogInv => ChainVerifies
  BY DEF LogInv
<1> QED BY <1>1, LogInvInit, LogInvStep, PTL DEF Spec

\* OneOutcome for any number of calls, cancels and migrations, any faults: the
\* scan under the lock decides between a call's outcome and a cancel's, and a log
\* that loses its end, or is rewritten from an old scan, loses outcomes before
\* their reviews.
THEOREM OutcomesAreUnique == Spec => []OneOutcome
<1>1. LogInv => OneOutcome
  BY DEF LogInv, OneOutcomeIn, OneOutcome
<1> QED BY <1>1, LogInvInit, LogInvStep, PTL DEF Spec

-----------------------------------------------------------------------------
(* What a writer was told.                                                  *)

\* A process about to sync has its entry on the last line, or appended it to a
\* line that lacked its newline.
SyncInv ==
    \A p \in Procs : job[p].pc = "sync" =>
        \/ /\ log # <<>>
           /\ Readable(log[Len(log)])
           /\ log[Len(log)].said = job[p].said
        \/ job[p].said \in glued

\* A call that may be sent was told of its approval.
ReviewedInv ==
    \A p \in Procs : job[p].pc = "reviewed" =>
        job[p].said \in acked /\ job[p].said.kind = "approved"

\* A cancel writes outcomes only.
MarkInv ==
    \A x \in Cancellers : job[x].pc \in {"lock", "read", "write", "sync"} =>
        job[x].said.kind = "ambiguous"

AckParts == SyncInv /\ ReviewedInv /\ MarkInv
AckInv == LogInv /\ AckParts

\* A process that moves brings nothing to be synced, and is told of what it
\* goes ahead with.
Moved(p) ==
    /\ job'[p].pc # "sync"
    /\ job'[p].pc = "reviewed" =>
          job'[p].said \in acked' /\ job'[p].said.kind = "approved"
    /\ p \in Cancellers /\ job'[p].pc \in {"lock", "read", "write"} =>
          job'[p].said.kind = "ambiguous"

\* A step that leaves the log alone.
LEMMA CalmStep ==
    ASSUME AckInv, UNCHANGED <<log, glued>>, acked \subseteq acked',
           \A p \in Procs : job'[p] = job[p] \/ Moved(p)
    PROVE  AckParts'
<1>a. Cancellers \subseteq Procs
  BY DEF Procs
<1>2. SyncInv'
  BY DEF AckInv, AckParts, SyncInv, Moved, Readable
<1>3. ReviewedInv'
  BY DEF AckInv, AckParts, ReviewedInv, Moved
<1>4. MarkInv'
  BY <1>a DEF AckInv, AckParts, MarkInv, Moved
<1> QED BY <1>2, <1>3, <1>4 DEF AckParts

\* One process moves and the log stays.
LEMMA CalmMove ==
    ASSUME AckInv, NEW p \in Procs, OthersStay(p), Moved(p),
           UNCHANGED <<log, glued>>, acked \subseteq acked'
    PROVE  AckParts'
BY CalmStep DEF OthersStay

\* A failed write or lock ends the work; a cancel goes on after an outcome that
\* was there already.
LEMMA AnswersEnd ==
    ASSUME TypeInv, NEW p \in Procs, NEW answer \in {"error", "already"},
           job' = [job EXCEPT ![p] = After(p, answer)]
    PROVE  OthersStay(p) /\ Moved(p)
<1>1. job \in [Procs -> Job]
  BY DEF TypeInv, JobTyped, WholeJob
<1>2. job'[p] = After(p, answer) /\ OthersStay(p)
  BY <1>1 DEF OthersStay
<1>3. job'[p].pc \in {"idle", "marking"}
  BY <1>1, <1>2 DEF After, Idle, Job
<1> QED BY <1>2, <1>3 DEF Moved

\* The actions that leave the log alone.
LEMMA CalmActions ==
    ASSUME AckInv,
           \/ \E p \in Procs : \/ Acquire(p) \/ LockTimeout(p) \/ Read(p)
                               \/ SyncFails(p) \/ Kill(p)
           \/ \E c \in Callers : \/ Send(c)
                                 \/ \E d \in Decisions : Review(c, d)
                                 \/ \E o \in Outcomes : Conclude(c, o)
           \/ \E x \in Cancellers : List(x) \/ Mark(x) \/ Interrupt(x)
           \/ \E m \in Migrators : Scan(m)
    PROVE  AckParts'
<1>a. job \in [Procs -> Job] /\ TypeInv
  BY DEF AckInv, LogInv, TypeInv, JobTyped, WholeJob
<1>b. /\ Callers \subseteq Procs /\ Cancellers \subseteq Procs
      /\ Migrators \subseteq Procs
      /\ \A c \in Callers \cup Migrators : c \notin Cancellers
  BY RolesAssumption DEF Procs
<1>c. \A x \in Cancellers : job[x].pc \in {"lock", "read"} =>
          job[x].said.kind = "ambiguous"
  BY DEF AckInv, AckParts, MarkInv
<1>1. ASSUME NEW p \in Procs, Acquire(p) PROVE AckParts'
  <2>1. /\ OthersStay(p) /\ UNCHANGED <<log, glued, acked>> /\ job[p].pc = "lock"
        /\ job'[p].pc \in {"rename", "read"} /\ job'[p].said = job[p].said
    BY <1>1, <1>a DEF Acquire, At, Goto, OthersStay, Job
  <2>2. Moved(p)
    BY <1>c, <2>1 DEF Moved
  <2> QED BY <2>1, <2>2, CalmMove
<1>2. ASSUME NEW p \in Procs, LockTimeout(p) \/ SyncFails(p) PROVE AckParts'
  BY <1>2, <1>a, AnswersEnd, CalmMove DEF LockTimeout, SyncFails, Return
<1>3. ASSUME NEW p \in Procs, Read(p) PROVE AckParts'
  <2> DEFINE said == job[p].said
  <2>1. CASE Return(p, "error") \/ Return(p, "already")
    BY <1>3, <1>a, <2>1, AnswersEnd, CalmMove DEF Read, Return
  <2>2. CASE job' = [job EXCEPT ![p].pc = "write", ![p].prev = TailHash,
                        ![p].said.review =
                            IF said.kind \in Decisions THEN ids + 1 ELSE @]
    <3>1. said \in [review : 0..MaxReviews, kind : Decisions \cup Outcomes]
      BY <1>a DEF Job
    <3>2. /\ OthersStay(p) /\ job'[p].pc = "write"
          /\ job'[p].said = [said EXCEPT !.review =
                                IF said.kind \in Decisions THEN ids + 1
                                                           ELSE said.review]
      BY <1>a, <2>2 DEF OthersStay, Job
    <3>3. job'[p].said.kind = said.kind
      BY <3>1, <3>2
    <3>4. Moved(p)
      BY <1>3, <1>c, <3>2, <3>3 DEF Moved, Read, At
    <3> QED BY <1>3, <3>2, <3>4, CalmMove DEF Read
  <2> QED BY <1>3, <2>1, <2>2 DEF Read
<1>4. ASSUME NEW p \in Procs, Kill(p) PROVE AckParts'
  <2>1. OthersStay(p) /\ UNCHANGED <<log, glued, acked>> /\ job'[p].pc = "idle"
    BY <1>4, <1>a DEF Kill, OthersStay, Idle
  <2> QED BY <2>1, CalmMove DEF Moved
<1>5. ASSUME NEW c \in Callers, Send(c) PROVE AckParts'
  <2>1. OthersStay(c) /\ UNCHANGED <<log, glued, acked>> /\ job'[c].pc = "sent"
    BY <1>5, <1>a, <1>b DEF Send, Goto, OthersStay, Job
  <2> QED BY <1>b, <2>1, CalmMove DEF Moved
<1>6. ASSUME NEW c \in Callers, NEW d \in Decisions, Review(c, d) PROVE AckParts'
  <2>1. OthersStay(c) /\ UNCHANGED <<log, glued, acked>> /\ job'[c].pc = "lock"
    BY <1>6, <1>a, <1>b DEF Review, OthersStay, Job
  <2> QED BY <1>b, <2>1, CalmMove DEF Moved
<1>7. ASSUME NEW c \in Callers, NEW o \in Outcomes, Conclude(c, o) PROVE AckParts'
  <2>1. OthersStay(c) /\ UNCHANGED <<log, glued, acked>> /\ job'[c].pc = "lock"
    BY <1>7, <1>a, <1>b DEF Conclude, OthersStay, Job
  <2> QED BY <1>b, <2>1, CalmMove DEF Moved
<1>8. ASSUME NEW x \in Cancellers, List(x) \/ Interrupt(x) PROVE AckParts'
  <2>1. /\ OthersStay(x) /\ UNCHANGED <<log, glued, acked>>
        /\ job'[x].pc \in {"marking", "idle"}
    BY <1>8, <1>a, <1>b DEF List, Interrupt, OthersStay, Idle, Job
  <2> QED BY <1>b, <2>1, CalmMove DEF Moved
<1>9. ASSUME NEW x \in Cancellers, Mark(x) PROVE AckParts'
  <2>1. /\ OthersStay(x) /\ UNCHANGED <<log, glued, acked>>
        /\ job'[x].pc = "lock" /\ job'[x].said.kind = "ambiguous"
    BY <1>9, <1>a, <1>b DEF Mark, OthersStay, Job
  <2> QED BY <1>b, <2>1, CalmMove DEF Moved
<1>10. ASSUME NEW m \in Migrators, Scan(m) PROVE AckParts'
  <2>1. OthersStay(m) /\ UNCHANGED <<log, glued, acked>> /\ job'[m].pc = "lock"
    BY <1>10, <1>a, <1>b DEF Scan, OthersStay, Job
  <2> QED BY <1>b, <2>1, CalmMove DEF Moved
<1> QED
  BY <1>1, <1>2, <1>3, <1>4, <1>5, <1>6, <1>7, <1>8, <1>9, <1>10

\* Sync: the writer is told, and a caller goes ahead with an approval it was told
\* of.
LEMMA SyncMoves ==
    ASSUME AckInv, NEW p \in Procs, Sync(p)
    PROVE  /\ OthersStay(p) /\ job'[p].pc \in {"idle", "marking", "reviewed"}
           /\ AckParts'
<1>a. job \in [Procs -> Job] /\ TypeInv
  BY DEF AckInv, LogInv, TypeInv, JobTyped, WholeJob
<1>1. OthersStay(p) /\ job'[p] = After(p, "ok")
  BY <1>a DEF Sync, Return, OthersStay
<1>2. /\ job'[p].pc \in {"idle", "marking", "reviewed"}
      /\ job'[p].pc = "reviewed" =>
            job'[p].said = job[p].said /\ job[p].said.kind = "approved"
  BY <1>a, <1>1 DEF After, Idle, Job
<1>3. /\ UNCHANGED <<log, glued>> /\ acked' = acked \cup {job[p].said}
  BY DEF Sync
<1>4. Moved(p)
  BY <1>2, <1>3 DEF Moved
<1> QED BY <1>1, <1>2, <1>3, <1>4, CalmMove

\* Nobody else is about to sync while a process writes or renames.
LEMMA SyncsAlone ==
    ASSUME AckInv, NEW p \in Procs, job[p].pc \in {"write", "sync", "rename"}
    PROVE  \A q \in Procs \ {p} : job[q].pc # "sync"
BY DEF AckInv, LogInv, LockInv

\* What a process writes comes after the lines there, or after the last of them in
\* the same line, whose entries are then glued.
LEMMA AppendsAfter ==
    ASSUME AckInv, NEW line \in AnyLine, log' = Appended(line)
    PROVE  /\ \A i \in 1..Len(log) : log'[i] = log[i] \/ (cut /\ i = Len(log))
           /\ ~cut => log' # <<>> /\ log'[Len(log')] = line
<1>1. TypeInv /\ log \in Seq(AnyLine) /\ Len(log) \in Nat
  BY ReadsAreTyped DEF AckInv, LogInv
<1>2. CASE cut
  <2>1. log' = [log EXCEPT ![Len(log)] = Unreadable] /\ DOMAIN log = 1..Len(log)
    BY <1>1, <1>2, ReadsAreTyped DEF Appended
  <2>2. \A i \in 1..Len(log) : i # Len(log) => log'[i] = log[i]
    BY <2>1
  <2> QED BY <1>2, <2>2, Zenon
<1>3. CASE ~cut
  <2>1. log' = Append(log, line)
    BY <1>3 DEF Appended
  <2>2. /\ log' \in Seq(AnyLine) /\ Len(log') = Len(log) + 1
        /\ \A i \in 1..Len(log) : log'[i] = log[i]
        /\ log'[Len(log) + 1] = line
    BY <1>1, <2>1, AppendProperties
  <2>3. log' # <<>> /\ log'[Len(log')] = line
    BY <1>1, <2>2, EmptySeq
  <2> QED BY <1>3, <2>2, <2>3, Zenon
<1> QED BY <1>2, <1>3, Zenon

\* The line a process writes.
LEMMA NewLineTyped ==
    ASSUME TypeInv, NEW p \in Procs, At(p, "write")
    PROVE  /\ NewLine(p) \in Line /\ Readable(NewLine(p))
           /\ NewLine(p).said = job[p].said
<1>1. job[p].said \in Content /\ job[p].prev \in Seq(Content)
  BY DEF TypeInv, JobTyped, WholeJob, Job, At
<1>2. NewLine(p) \in Line
  BY <1>1, LinesAreTyped DEF NewLine
<1> QED BY <1>2, LinesAreSeen, LineFields DEF NewLine

\* Write: the entry is the last line, or part of it.
LEMMA WriteAcks ==
    ASSUME AckInv, NEW p \in Procs, Write(p)
    PROVE  AckParts'
<1>a. job \in [Procs -> Job] /\ TypeInv /\ At(p, "write")
  BY DEF AckInv, LogInv, TypeInv, JobTyped, WholeJob, Write
<1>1. /\ OthersStay(p) /\ job'[p].pc = "sync" /\ job'[p].said = job[p].said
      /\ acked' = acked /\ log' = Appended(NewLine(p)) /\ glued' = Glued(p)
  BY <1>a DEF Write, Goto, OthersStay, Job
<1>2. NewLine(p) \in AnyLine /\ Readable(NewLine(p)) /\ NewLine(p).said = job[p].said
  BY <1>a, NewLineTyped DEF AnyLine
<1>3. \/ log' # <<>> /\ log'[Len(log')] = NewLine(p)
      \/ job[p].said \in glued'
  BY <1>1, <1>2, AppendsAfter DEF Glued
<1>4. SyncInv'
  <2>1. \A q \in Procs : job'[q].pc = "sync" => q = p
    BY <1>a, <1>1, SyncsAlone DEF OthersStay, At
  <2> QED BY <1>1, <1>2, <1>3, <2>1 DEF SyncInv, Readable
<1>6. ReviewedInv'
  BY <1>1 DEF AckInv, AckParts, ReviewedInv, OthersStay
<1>7. MarkInv'
  BY <1>a, <1>1 DEF AckInv, AckParts, MarkInv, OthersStay, At, Procs
<1> QED BY <1>4, <1>6, <1>7 DEF AckParts

\* WriteFails: nobody is left to sync.
LEMMA WriteFailsAcks ==
    ASSUME AckInv, NEW p \in Procs, WriteFails(p)
    PROVE  AckParts'
<1>a. TypeInv /\ At(p, "write")
  BY DEF AckInv, LogInv, WriteFails
<1>1. OthersStay(p) /\ Moved(p) /\ acked' = acked
  BY <1>a, AnswersEnd DEF WriteFails, Return
<1>2. SyncInv'
  <2>1. \A q \in Procs : job'[q].pc # "sync"
    BY <1>a, <1>1, SyncsAlone DEF OthersStay, Moved, At
  <2> QED BY <2>1 DEF SyncInv
<1>3. ReviewedInv'
  BY <1>1 DEF AckInv, AckParts, ReviewedInv, OthersStay, Moved
<1>4. MarkInv'
  BY <1>1 DEF AckInv, AckParts, MarkInv, OthersStay, Moved, Procs
<1> QED BY <1>2, <1>3, <1>4 DEF AckParts

\* Rename: nobody to sync.
LEMMA RenameAcks ==
    ASSUME AckInv, NEW m \in Migrators, Rename(m)
    PROVE  AckParts'
<1>a. m \in Procs /\ job \in [Procs -> Job] /\ job[m].pc = "rename"
  BY DEF Procs, AckInv, LogInv, TypeInv, JobTyped, WholeJob, Rename, At
<1>1. OthersStay(m) /\ job'[m].pc = "idle" /\ acked' = acked
  BY <1>a DEF Rename, OthersStay, Idle
<1>2. SyncInv'
  <2>1. \A q \in Procs : job'[q].pc # "sync"
    BY <1>a, <1>1, SyncsAlone DEF OthersStay
  <2> QED BY <2>1 DEF SyncInv
<1>3. ReviewedInv' /\ MarkInv'
  BY <1>1 DEF AckInv, AckParts, ReviewedInv, MarkInv, OthersStay, Procs
<1> QED BY <1>2, <1>3 DEF AckParts

\* The log a power loss leaves has the synced lines.
LEMMA PowerLossLeaves ==
    ASSUME AckInv, PowerLoss
    PROVE  /\ synced <= synced'
           /\ \A i \in 1..synced : log'[i] = log[i]
<1>1. PICK n \in synced..Len(log) :
        \/ /\ log' = SubSeq(log, 1, n)
           /\ synced' = n
        \/ /\ n < Len(log)
           /\ \E tear \in Tears :
                 log' = Append(SubSeq(log, 1, n), Torn(log[n + 1], tear))
           /\ synced' = n + 1
  BY DEF PowerLoss
<1>2. /\ TypeInv /\ log \in Seq(AnyLine) /\ Len(log) \in Nat
      /\ n \in 0..Len(log) /\ synced \in Nat /\ synced <= n
  BY ReadsAreTyped DEF AckInv, LogInv, TypeInv, LogTyped
<1>3. /\ SubSeq(log, 1, n) \in Seq(AnyLine) /\ Len(SubSeq(log, 1, n)) = n
      /\ \A i \in 1..n : SubSeq(log, 1, n)[i] = log[i]
  BY <1>2, SubSeqProperties
<1>4. CASE log' = SubSeq(log, 1, n) /\ synced' = n
  BY <1>2, <1>3, <1>4
<1>5. ASSUME n < Len(log), synced' = n + 1,
             NEW tear \in Tears,
             log' = Append(SubSeq(log, 1, n), Torn(log[n + 1], tear))
      PROVE  synced <= synced' /\ \A i \in 1..synced : log'[i] = log[i]
  <2>1. log[n + 1] \in AnyLine
    BY <1>2, <1>5, ReadsAreTyped
  <2>2. Torn(log[n + 1], tear) \in AnyLine
    BY <2>1 DEF Torn, AnyLine
  <2>3. \A i \in 1..n : log'[i] = log[i]
    BY <1>3, <1>5, <2>2, AppendProperties
  <2> QED BY <1>2, <1>5, <2>3
<1> QED BY <1>1, <1>4, <1>5

\* PowerLoss: everyone is idle.
LEMMA PowerLossAcks ==
    ASSUME AckInv, PowerLoss
    PROVE  AckParts'
<1>1. \A p \in Procs : job'[p] = Idle
  BY DEF PowerLoss
<1>2. SyncInv' /\ ReviewedInv' /\ MarkInv'
  BY <1>1 DEF SyncInv, ReviewedInv, MarkInv, Idle, Procs
<1> QED BY <1>2 DEF AckParts

\* At the start nobody writes.
LEMMA AckInvInit == Init => AckInv
<1> SUFFICES ASSUME Init PROVE AckInv
  OBVIOUS
<1>1. \A p \in Procs : job[p] = Idle
  BY DEF Init
<1>2. AckParts
  BY <1>1 DEF AckParts, SyncInv, ReviewedInv, MarkInv, Idle, Procs
<1> QED BY <1>2, LogInvInit DEF AckInv

\* Every action keeps what the acknowledgements rest on.
LEMMA AckInvStep == AckInv /\ [Next]_vars => AckInv'
<1> SUFFICES ASSUME AckInv, [Next]_vars PROVE AckInv'
  OBVIOUS
<1>1. LogInv'
  BY LogInvStep DEF AckInv
<1>2. CASE UNCHANGED vars
  BY <1>1, <1>2, CalmStep DEF AckInv, vars
<1>3. ASSUME \/ \E p \in Procs : \/ Acquire(p) \/ LockTimeout(p) \/ Read(p)
                                 \/ SyncFails(p) \/ Kill(p)
             \/ \E c \in Callers : \/ Send(c)
                                   \/ \E d \in Decisions : Review(c, d)
                                   \/ \E o \in Outcomes : Conclude(c, o)
             \/ \E x \in Cancellers : List(x) \/ Mark(x) \/ Interrupt(x)
             \/ \E m \in Migrators : Scan(m)
      PROVE  AckInv'
  BY <1>1, <1>3, CalmActions DEF AckInv
<1>4. ASSUME NEW p \in Procs, Sync(p) PROVE AckInv'
  BY <1>1, <1>4, SyncMoves DEF AckInv
<1>5. ASSUME NEW p \in Procs, Write(p) PROVE AckInv'
  BY <1>1, <1>5, WriteAcks DEF AckInv
<1>6. ASSUME NEW p \in Procs, WriteFails(p) PROVE AckInv'
  BY <1>1, <1>6, WriteFailsAcks DEF AckInv
<1>7. ASSUME NEW m \in Migrators, Rename(m) PROVE AckInv'
  BY <1>1, <1>7, RenameAcks DEF AckInv
<1>8. CASE PowerLoss
  BY <1>1, <1>8, PowerLossAcks DEF AckInv
<1> QED
  BY <1>2, <1>3, <1>4, <1>5, <1>6, <1>7, <1>8 DEF Next

\* Lines that stay on disk keep their entries there.
LEMMA DiskGrows ==
    ASSUME TypeInv, TypeInv', synced <= synced',
           \A i \in 1..synced : Readable(log[i]) => log'[i] = log[i]
    PROVE  OnDisk \subseteq OnDisk'
<1>1. synced \in Nat /\ synced' \in Nat
  <2>1. Len(log) \in Nat /\ Len(log') \in Nat
    BY LenProperties DEF TypeInv, LogTyped
  <2> QED BY <2>1 DEF TypeInv, LogTyped
<1>2. 1..synced \subseteq 1..synced'
  BY <1>1
<1> QED BY <1>2 DEF OnDisk, Readable

\* What a step leaves on disk, unless it rewrites the log: everything but the
\* entries of a line that a longer one took the place of.
LEMMA DiskKeeps ==
    ASSUME AckInv, TypeInv', [Next]_vars, \A m \in Migrators : ~Rename(m)
    PROVE  OnDisk \ glued' \subseteq OnDisk'
<1>a. /\ TypeInv /\ Len(log) \in Nat /\ synced \in Nat /\ synced <= Len(log)
  BY ReadsAreTyped DEF AckInv, LogInv, TypeInv, LogTyped
<1>1. CASE UNCHANGED <<log, synced>>
  BY <1>1 DEF OnDisk, Readable
<1>2. ASSUME NEW p \in Procs, Sync(p) PROVE OnDisk \subseteq OnDisk'
  <2>1. log' = log /\ synced <= synced'
    BY <1>2, <1>a DEF Sync
  <2> QED BY <1>a, <2>1, DiskGrows
<1>3. ASSUME NEW p \in Procs, NEW line \in AnyLine,
             log' = Appended(line), synced' = synced, glued' = Glued(p)
      PROVE  OnDisk \ glued' \subseteq OnDisk'
  <2> SUFFICES ASSUME NEW i \in 1..synced, log[i] # Unreadable,
                      log[i].said \notin Glued(p)
               PROVE  log[i].said \in OnDisk'
    BY <1>3 DEF OnDisk, Readable
  <2>1. i \in 1..Len(log) /\ (cut => i # Len(log))
    BY <1>a DEF Glued
  <2>2. log'[i] = log[i]
    BY <1>3, <2>1, AppendsAfter
  <2> QED BY <1>3, <2>2 DEF OnDisk, Readable
<1>4. ASSUME NEW p \in Procs, Write(p) PROVE OnDisk \ glued' \subseteq OnDisk'
  BY <1>3, <1>4, <1>a, NewLineTyped DEF Write, AnyLine
<1>5. ASSUME NEW p \in Procs, WriteFails(p) PROVE OnDisk \ glued' \subseteq OnDisk'
  <2>1. CASE /\ \E tear \in Tears : log' = Appended(Torn(NewLine(p), tear))
             /\ glued' = Glued(p)
    <3>1. PICK tear \in Tears : log' = Appended(Torn(NewLine(p), tear))
      BY <2>1
    <3>2. Torn(NewLine(p), tear) \in AnyLine
      BY <1>5, <1>a, NewLineTyped DEF WriteFails, Torn, AnyLine
    <3> QED BY <1>3, <1>5, <2>1, <3>1, <3>2 DEF WriteFails
  <2> QED BY <1>1, <1>5, <2>1 DEF WriteFails
<1>6. CASE PowerLoss
  BY <1>6, <1>a, PowerLossLeaves, DiskGrows
<1>7. CASE UNCHANGED vars
  BY <1>1, <1>7 DEF vars
<1>8. ASSUME NEW p \in Procs,
             \/ Acquire(p) \/ LockTimeout(p) \/ Read(p) \/ SyncFails(p) \/ Kill(p)
      PROVE  OnDisk \ glued' \subseteq OnDisk'
  BY <1>1, <1>8 DEF Acquire, LockTimeout, Read, SyncFails, Kill
<1>9. ASSUME \/ \E c \in Callers : \/ Send(c)
                                   \/ \E d \in Decisions : Review(c, d)
                                   \/ \E o \in Outcomes : Conclude(c, o)
             \/ \E x \in Cancellers : List(x) \/ Mark(x) \/ Interrupt(x)
             \/ \E m \in Migrators : Scan(m)
      PROVE  OnDisk \ glued' \subseteq OnDisk'
  BY <1>1, <1>9 DEF Send, Review, Conclude, List, Mark, Interrupt, Scan
<1> QED BY <1>2, <1>4, <1>5, <1>6, <1>7, <1>8, <1>9 DEF Next

\* Only a sync tells a writer, and only a send sends.
LEMMA WhoTells ==
    ASSUME [Next]_vars
    PROVE  /\ acked' = acked \/ \E p \in Procs : Sync(p)
           /\ sent' = sent \/ \E c \in Callers : Send(c)
<1>1. ASSUME NEW p \in Procs,
             \/ Acquire(p) \/ LockTimeout(p) \/ Read(p) \/ SyncFails(p) \/ Kill(p)
             \/ Write(p) \/ WriteFails(p)
      PROVE  UNCHANGED <<acked, sent>>
  BY <1>1 DEF Acquire, LockTimeout, Read, SyncFails, Kill, Write, WriteFails
<1>2. ASSUME \/ \E c \in Callers : \/ \E d \in Decisions : Review(c, d)
                                   \/ \E o \in Outcomes : Conclude(c, o)
             \/ \E x \in Cancellers : List(x) \/ Mark(x) \/ Interrupt(x)
             \/ \E m \in Migrators : Scan(m) \/ Rename(m)
      PROVE  UNCHANGED <<acked, sent>>
  BY <1>2 DEF Review, Conclude, List, Mark, Interrupt, Scan, Rename
<1>3. PowerLoss \/ UNCHANGED vars => UNCHANGED <<acked, sent>>
  BY DEF PowerLoss, vars
<1>4. \A p \in Procs : Sync(p) => sent' = sent
  BY DEF Sync
<1>5. \A c \in Callers : Send(c) => acked' = acked
  BY DEF Send
<1> QED BY <1>1, <1>2, <1>3, <1>4, <1>5 DEF Next

\* One step of AckedStays.
LEMMA AckStep ==
    ASSUME AckInv, TypeInv', [Next]_vars, \A m \in Migrators : ~Rename(m)
    PROVE  /\ ((acked \cap OnDisk) \cup (acked' \ acked)) \ glued' \subseteq OnDisk'
           /\ \A r \in sent' \ sent : [review |-> r, kind |-> "approved"] \in acked
<1>a. TypeInv /\ job \in [Procs -> Job] /\ Callers \subseteq Procs
  BY DEF AckInv, LogInv, TypeInv, JobTyped, WholeJob, Procs
<1>1. (acked' \ acked) \ glued' \subseteq OnDisk'
  <2> SUFFICES ASSUME NEW p \in Procs, Sync(p), job[p].said \notin glued
               PROVE  acked' \ acked \subseteq OnDisk'
    BY WhoTells DEF Sync
  <2>1. /\ log # <<>> /\ log[Len(log)] # Unreadable
        /\ log[Len(log)].said = job[p].said
    BY DEF AckInv, AckParts, SyncInv, Sync, At, Readable
  <2>2. Len(log) \in 1..Len(log)
    BY <1>a, <2>1, ReadsAreTyped, EmptySeq
  <2>3. log' = log /\ synced' = Len(log) /\ acked' = acked \cup {job[p].said}
    BY DEF Sync
  <2> QED BY <2>1, <2>2, <2>3 DEF OnDisk, Readable
<1>2. ASSUME NEW r \in sent' \ sent
      PROVE  [review |-> r, kind |-> "approved"] \in acked
  <2>1. PICK c \in Callers : Send(c)
    BY WhoTells
  <2>2. /\ r = job[c].said.review /\ job[c].said \in acked
        /\ job[c].said.kind = "approved"
    BY <1>a, <2>1 DEF Send, At, AckInv, AckParts, ReviewedInv
  <2>3. job[c].said \in [review : 0..MaxReviews, kind : Decisions \cup Outcomes]
    BY <1>a DEF Job
  <2>4. job[c].said = [review |-> r, kind |-> "approved"]
    BY <2>2, <2>3
  <2> QED BY <2>2, <2>4
<1> QED BY <1>1, <1>2, DiskKeeps

\* AckedStays for any number of calls, cancels and migrations and any number of
\* kills, power losses and short writes, a lost newline included: an entry
\* reported durable is on disk from then on unless its line was glued to another,
\* and no call is sent before its approval is reported.
THEOREM AckedAlwaysStays == Spec => AckedStays
<1>1. AckInv /\ AckInv' /\ [Next]_vars =>
        [(\A m \in Migrators : ~Rename(m)) =>
           /\ ((acked \cap OnDisk) \cup (acked' \ acked)) \ glued' \subseteq OnDisk'
           /\ \A r \in sent' \ sent :
                 [review |-> r, kind |-> "approved"] \in acked]_vars
  BY AckStep DEF AckInv, LogInv
<1>2. AckInv /\ [Next]_vars => AckInv'
  BY AckInvStep
<1> QED BY <1>1, <1>2, AckInvInit, PTL DEF Spec, AckedStays

\* What an answer leaves a cancel with.
LEMMA CancelAnswers ==
    ASSUME TypeInv, NEW x \in Cancellers, NEW answer,
           job' = [job EXCEPT ![x] = After(x, answer)],
           job'[x].pc = "marking"
    PROVE  answer # "error" /\ job'[x].said = job[x].said
<1>1. x \in Procs /\ job \in [Procs -> Job]
  BY DEF Procs, TypeInv, JobTyped, WholeJob
<1>2. job'[x] = After(x, answer)
  BY <1>1
<1> QED BY <1>1, <1>2 DEF After, Idle, Job

\* A cancel that goes on found an outcome or synced its own.
LEMMA CancelGoesOn ==
    ASSUME AckInv, [Next]_vars, NEW x \in Cancellers,
           job[x].pc \in {"lock", "read", "write", "sync"},
           job'[x].pc = "marking"
    PROVE  /\ job'[x].said = job[x].said
           /\ log' = log
           /\ HasOutcome(job[x].said.review) \/ Sync(x)
<1>a. /\ TypeInv /\ job \in [Procs -> Job] /\ x \in Procs
      /\ x \notin Callers \cup Migrators
      /\ Callers \subseteq Procs /\ Cancellers \subseteq Procs
      /\ Migrators \subseteq Procs
  BY RolesAssumption DEF AckInv, LogInv, TypeInv, JobTyped, WholeJob, Procs
<1>b. ASSUME NEW p \in Procs, NEW j, job' = [job EXCEPT ![p] = j]
      PROVE  p = x /\ job'[x] = j
  BY <1>a, <1>b
<1>1. ~PowerLoss /\ ~UNCHANGED vars
  BY <1>a DEF PowerLoss, vars, Idle
<1>2. \A c \in Callers : /\ ~Send(c)
                         /\ \A d \in Decisions : ~Review(c, d)
                         /\ \A o \in Outcomes : ~Conclude(c, o)
  <2> SUFFICES ASSUME NEW c \in Callers,
                      \/ Send(c)
                      \/ \E d \in Decisions : Review(c, d)
                      \/ \E o \in Outcomes : Conclude(c, o)
               PROVE  FALSE
    OBVIOUS
  <2>1. job'[x] = job[x]
    BY <1>a DEF Send, Goto, Review, Conclude
  <2> QED BY <2>1
<1>3. \A y \in Cancellers : ~List(y) /\ ~Mark(y) /\ ~Interrupt(y)
  <2> SUFFICES ASSUME NEW y \in Cancellers, List(y) \/ Mark(y) \/ Interrupt(y)
               PROVE  FALSE
    OBVIOUS
  <2>1. job[y].pc \in {"idle", "marking"} /\ (y # x => job'[x] = job[x])
    BY <1>a DEF List, Mark, Interrupt, At
  <2> QED BY <2>1
<1>4. \A m \in Migrators : ~Scan(m) /\ ~Rename(m)
  <2> SUFFICES ASSUME NEW m \in Migrators, Scan(m) \/ Rename(m) PROVE FALSE
    OBVIOUS
  <2>1. job'[x] = job[x]
    BY <1>a DEF Scan, Rename
  <2> QED BY <2>1
<1>5. \A p \in Procs : ~Acquire(p) /\ ~Write(p) /\ ~Kill(p)
  <2> SUFFICES ASSUME NEW p \in Procs, Acquire(p) \/ Write(p) \/ Kill(p)
               PROVE  FALSE
    OBVIOUS
  <2>1. /\ p # x => job'[x] = job[x]
        /\ job'[p].pc # "marking"
    BY <1>a DEF Acquire, Write, Kill, Goto, Idle, Job
  <2> QED BY <2>1
<1>6. \A p \in Procs : ~LockTimeout(p) /\ ~WriteFails(p) /\ ~SyncFails(p)
  <2> SUFFICES ASSUME NEW p \in Procs, LockTimeout(p) \/ WriteFails(p) \/ SyncFails(p)
               PROVE  FALSE
    OBVIOUS
  <2>1. job' = [job EXCEPT ![p] = After(p, "error")]
    BY DEF LockTimeout, WriteFails, SyncFails, Return
  <2>2. p = x
    BY <1>b, <2>1
  <2> QED BY <1>a, <2>1, <2>2, CancelAnswers
<1>7. ASSUME NEW p \in Procs, Read(p)
      PROVE  /\ job'[x].said = job[x].said
             /\ log' = log
             /\ HasOutcome(job[x].said.review)
  <2>1. log' = log
    BY <1>7 DEF Read
  <2>2. CASE Return(p, "error")
    <3>1. p = x /\ job' = [job EXCEPT ![p] = After(p, "error")]
      BY <1>b, <2>2 DEF Return
    <3> QED BY <1>a, <3>1, CancelAnswers
  <2>3. CASE Resolved(job[p].said) /\ Return(p, "already")
    <3>1. p = x /\ job' = [job EXCEPT ![p] = After(p, "already")]
      BY <1>b, <2>3 DEF Return
    <3> QED BY <1>a, <2>1, <2>3, <3>1, CancelAnswers DEF Resolved
  <2>4. CASE job' = [job EXCEPT ![p].pc = "write", ![p].prev = TailHash,
                        ![p].said.review =
                            IF job[p].said.kind \in Decisions THEN ids + 1 ELSE @]
    <3>1. (p # x => job'[x] = job[x]) /\ job'[p].pc = "write"
      BY <1>a, <2>4 DEF Job
    <3> QED BY <3>1
  <2> QED BY <1>7, <2>2, <2>3, <2>4 DEF Read
<1>8. ASSUME NEW p \in Procs, Sync(p)
      PROVE  job'[x].said = job[x].said /\ log' = log /\ Sync(x)
  <2>1. p = x /\ job' = [job EXCEPT ![p] = After(p, "ok")]
    BY <1>b, <1>8 DEF Sync, Return
  <2> QED BY <1>8, <1>a, <2>1, CancelAnswers DEF Sync
<1> QED BY <1>1, <1>2, <1>3, <1>4, <1>5, <1>6, <1>7, <1>8 DEF Next

\* One step of CancelSettles.
LEMMA CancelStep ==
    ASSUME AckInv, [Next]_vars, NEW x \in Cancellers,
           At(x, "lock") \/ At(x, "read") \/ At(x, "write") \/ At(x, "sync"),
           At(x, "marking")'
    PROVE  HasOutcome(job[x].said.review)' \/ job[x].said \in glued'
<1>1. job[x].pc \in {"lock", "read", "write", "sync"} /\ job'[x].pc = "marking"
  BY DEF At
<1>2. /\ job'[x].said = job[x].said /\ log' = log
      /\ HasOutcome(job[x].said.review) \/ Sync(x)
  BY <1>1, CancelGoesOn
<1>3. HasOutcome(job[x].said.review) \/ job[x].said \in glued'
  <2> SUFFICES ASSUME Sync(x), job[x].said \notin glued
               PROVE  HasOutcome(job[x].said.review)
    BY <1>2 DEF Sync
  <2>a. TypeInv /\ x \in Procs
    BY DEF AckInv, LogInv, Procs
  <2>1. /\ log # <<>> /\ Readable(log[Len(log)])
        /\ log[Len(log)].said = job[x].said
        /\ job[x].said.kind \in Outcomes
    BY <2>a, <1>1 DEF AckInv, AckParts, SyncInv, MarkInv, Sync, At, Outcomes
  <2>2. Len(log) \in 1..Len(log)
    BY <2>a, <2>1, ReadsAreTyped, EmptySeq
  <2> QED BY <2>a, <2>1, <2>2, LinesAreSeen
<1>4. Entries' = Entries
  BY <1>2 DEF Entries, Readable
<1> QED BY <1>2, <1>3, <1>4 DEF HasOutcome

\* CancelSettles for any number of calls, cancels, migrations and faults: a cancel
\* goes on only after it found an outcome of the review under the lock or synced
\* its own, in a line of its own unless the last one lacked its newline.
THEOREM CancelAlwaysSettles == Spec => CancelSettles
<1>1. AckInv /\ [Next]_vars =>
        [\A x \in Cancellers :
           At(x, "lock") \/ At(x, "read") \/ At(x, "write") \/ At(x, "sync") =>
              (At(x, "marking")' => \/ HasOutcome(job[x].said.review)'
                                    \/ job[x].said \in glued')]_vars
  BY CancelStep
<1>2. AckInv /\ [Next]_vars => AckInv'
  BY AckInvStep
<1> QED BY <1>1, <1>2, AckInvInit, PTL DEF Spec, CancelSettles

============================================================================
