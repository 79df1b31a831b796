---------------------------- MODULE MasteryProofs ----------------------------
(***************************************************************************)
(* Proofs about Mastery, for any course, any number of requests at once    *)
(* and with or without edits of the course: the inductive invariant, the   *)
(* order of the steps, the conditions of the certificate, the agreement of *)
(* progress and steps, that a completed step stays completed, the next     *)
(* step shown, the certificate that comes with the last completion, and    *)
(* that Mastery implements LessonLadder while the course is not edited.    *)
(***************************************************************************)
EXTENDS Mastery, SequenceTheorems, FiniteSetTheorems, TLAPS

-----------------------------------------------------------------------------
(* The course.                                                             *)

LEMMA PositionCount == Cardinality(Lessons) \in Nat
BY PlanAssumption, FS_CardinalityType

LEMMA PlanFacts ==
    ASSUME NEW f, IsPlan(f)
    PROVE  /\ f \in Seq(Lessons) /\ Len(f) \in Nat /\ DOMAIN f = 1..Len(f)
           /\ DOMAIN f \subseteq Positions
           /\ \A p \in DOMAIN f : f[p] \in Lessons
           /\ \A p, q \in DOMAIN f : f[p] = f[q] => p = q
<1>1. PICK n \in 0..Cardinality(Lessons) :
          /\ f \in [1..n -> Lessons]
          /\ \A p, q \in 1..n : f[p] = f[q] => p = q
  BY DEF IsPlan
<1>2. n \in Nat /\ 1..n \subseteq Positions
  BY PositionCount DEF Positions
<1>3. f \in Seq(Lessons) /\ Len(f) = n
  BY <1>1, <1>2, SeqDef, LenProperties
<1> QED
  BY <1>1, <1>2, <1>3

LEMMA AddedPlan ==
    ASSUME IsPlan(plan), NEW l \in Lessons, AddLesson(l)
    PROVE  IsPlan(plan)'
<1> DEFINE n == Len(plan)
<1>1. plan \in Seq(Lessons) /\ n \in Nat /\ DOMAIN plan = 1..n
      /\ \A p, q \in 1..n : plan[p] = plan[q] => p = q
  BY PlanFacts
<1>2. plan' = Append(plan, l) /\ n + 1 \in 0..Cardinality(Lessons)
      /\ \A p \in 1..n : plan[p] # l
  BY <1>1, PositionCount DEF AddLesson, Positions
<1>3. /\ plan' \in Seq(Lessons) /\ Len(plan') = n + 1
      /\ \A p \in 1..n : plan'[p] = plan[p]
      /\ plan'[n + 1] = l
  BY <1>1, <1>2, AppendProperties
<1>4. plan' \in [1..(n + 1) -> Lessons]
  BY <1>3, LenProperties
<1>5. \A p, q \in 1..(n + 1) : plan'[p] = plan'[q] => p = q
  BY <1>1, <1>2, <1>3
<1> HIDE DEF n
<1> QED
  BY <1>2, <1>4, <1>5 DEF IsPlan

LEMMA MovedPlan ==
    ASSUME IsPlan(plan), NEW i \in Positions, NEW q \in Positions, MoveLesson(i, q)
    PROVE  IsPlan(plan)'
<1> DEFINE from(p) == IF p = q THEN i
                      ELSE IF i <= p /\ p < q THEN p + 1
                      ELSE IF q < p /\ p <= i THEN p - 1
                      ELSE p
<1>1. PICK n \in 0..Cardinality(Lessons) :
          /\ plan \in [1..n -> Lessons]
          /\ \A a, b \in 1..n : plan[a] = plan[b] => a = b
  BY DEF IsPlan
<1>2. n \in Nat /\ i \in 1..n /\ q \in 1..n
  BY <1>1, PositionCount DEF MoveLesson
<1>3. \A p \in 1..n : from(p) \in 1..n
  BY <1>2
<1>4. \A a, b \in 1..n : from(a) = from(b) => a = b
  BY <1>2
<1>5. plan' \in [1..n -> Lessons] /\ \A p \in 1..n : plan'[p] = plan[from(p)]
  <2>1. plan' = [p \in 1..n |-> plan[from(p)]]
    BY <1>1 DEF MoveLesson
  <2> HIDE DEF from
  <2> QED
    BY <1>1, <1>3, <2>1
<1> HIDE DEF from
<1>6. \A a, b \in 1..n : plan'[a] = plan'[b] => a = b
  BY <1>1, <1>3, <1>4, <1>5
<1> QED
  BY <1>5, <1>6 DEF IsPlan

-----------------------------------------------------------------------------
(* What every step preserves of what the requests in progress rely on.     *)

Advance ==
    /\ \A l \in Scopes, p \in Places : Stored(l, p) => Stored(l, p)'
    /\ \A l \in Scopes, p \in Places : Completed(l, p) => Completed(l, p)'
    /\ passed => passed'
    /\ EditPlan \/ plan' = plan

\* Lessons and positions among what a step may be about and where it may stand.
LEMMA ScopeFacts ==
    /\ Lessons \subseteq Scopes /\ Files \subseteq Scopes
    /\ Positions \subseteq Places /\ Elsewhere \subseteq Places /\ 1 \in Places
    /\ \A p \in Places : p \in Positions \/ p \in Elsewhere \/ p = 1
    /\ NoLesson \notin Scopes /\ Lessons \cap Files = {} /\ Asked \subseteq Lessons
    /\ 0 \notin Places /\ \A p \in Elsewhere : p \notin Positions /\ p # 1
BY PlanAssumption, PositionCount DEF Scopes, Places, Positions

\* A course with a lesson has a first position.
LEMMA LessonPlaces ==
    ASSUME NEW l \in Lessons
    PROVE  1 \in Positions
<1>1. Cardinality(Lessons) # 0
  BY PlanAssumption, FS_EmptySet
<1> QED
  BY <1>1, PositionCount DEF Positions

LEMMA KeptClimb ==
    ASSUME IInv, Advance, plan' = plan, NEW q \in DOMAIN plan, Climbed(q)
    PROVE  Climbed(q)'
<1>1. q \in Places /\ plan[q] \in Scopes
  BY PlanFacts, ScopeFacts DEF IInv, TypeOK
<1>2. ASSUME Completed(plan[q], q)
      PROVE  Completed(plan[q], q)'
  <2>1. PICK l \in Scopes : l = plan[q]
    BY <1>1
  <2>2. Completed(l, q)'
    BY <1>1, <1>2, <2>1 DEF Advance
  <2> QED
    BY <2>1, <2>2 DEF Completed
<1>3. ASSUME NEW f \in Files, Completed(f, 1)
      PROVE  Completed(f, 1)'
  BY <1>3, ScopeFacts DEF Advance
<1> QED
  BY <1>2, <1>3 DEF Climbed

LEMMA KeptJob ==
    ASSUME IInv, Advance, NEW r \in Slots, job'[r] = job[r]
    PROVE  JobOK(r)'
<1> DEFINE j == job[r]
<1>1. JobOK(r)
  BY DEF IInv
<1>2. /\ j = NoJob \/ j.pc # "idle"
      /\ j.op = "open" =>
            j.pc = "write" /\ (j.p = 0 <=> j.l = NoLesson) /\ j.l \notin Files
      /\ j.op \in {"submit", "sit"} => HasAssessment
      /\ j.newCert => (HasAssessment => passed')
      /\ j.pc = "commit" => j.op \in {"confirm", "issue"}
      /\ j.op = "issue" => j.newCert
  BY <1>1 DEF JobOK, Advance
<1>3. ASSUME j.op = "open", j.p \in Positions, ~EditPlan
      PROVE  /\ j.p \in DOMAIN plan' /\ plan'[j.p] = j.l
             /\ \A q \in 1..(j.p - 1) : Climbed(q)'
  <2>1. plan' = plan
    BY <1>3 DEF Advance
  <2>2. /\ j.p \in DOMAIN plan /\ plan[j.p] = j.l
        /\ \A q \in 1..(j.p - 1) : Climbed(q)
    BY <1>1, <1>3 DEF JobOK
  <2>3. \A q \in 1..(j.p - 1) : q \in DOMAIN plan
    BY <2>2, PlanFacts DEF IInv, TypeOK
  <2> QED
    BY <2>1, <2>2, <2>3, KeptClimb
<1>4. ASSUME j.op \in {"check", "confirm"}
      PROVE  /\ j.l \in Scopes /\ j.p \in Places
             /\ j.pc # "read" => j.l \in Lessons
             /\ Stored(j.l, j.p)'
             /\ j.snap.st = "completed" => Completed(j.l, j.p)'
  <2>1. /\ j.l \in Scopes /\ j.p \in Places /\ Stored(j.l, j.p)
        /\ j.pc # "read" => j.l \in Lessons
        /\ j.snap.st = "completed" => Completed(j.l, j.p)
    BY <1>1, <1>4 DEF JobOK
  <2>2. PICK l \in Scopes, p \in Places : l = j.l /\ p = j.p
    BY <2>1
  <2>3. Stored(l, p)' /\ (j.snap.st = "completed" => Completed(l, p)')
    BY <2>1, <2>2 DEF Advance
  <2> QED
    BY <2>1, <2>2, <2>3
<1>5. ASSUME j.op = "issue"
      PROVE  \E l \in Lessons, p \in Places : Completed(l, p)'
  <2>1. PICK l \in Lessons, p \in Places : Completed(l, p)
    BY <1>1, <1>5 DEF JobOK
  <2> QED
    BY <2>1, ScopeFacts DEF Advance
<1>6. job'[r] = job[r]
  OBVIOUS
<1> QED
  BY <1>2, <1>3, <1>4, <1>5, <1>6 DEF JobOK, NoJob

\* A step of slot s that leaves the database alone.
LEMMA QuietStep ==
    ASSUME IInv, NEW s \in Slots, NEW j \in Job,
           job' = [job EXCEPT ![s] = j], UNCHANGED <<plan, db>>,
           JobOK(s)'
    PROVE  IInv' /\ Advance
<1>1. Advance
  BY DEF Advance, db, Stored, Completed
<1>2. TypeOK'
  BY DEF IInv, TypeOK, db
<1>3. \A r \in Slots : JobOK(r)'
  <2> TAKE r \in Slots
  <2>1. CASE r = s
    BY <2>1
  <2>2. CASE r # s
    <3>1. job'[r] = job[r]
      BY <2>2 DEF IInv, TypeOK
    <3> QED
      BY <1>1, <3>1, KeptJob
  <2> QED
    BY <2>1, <2>2
<1>4. (FilesFirst /\ StepsInOrder /\ CertificateNeedsPass /\ ProgressMatchesSteps)'
  BY DEF IInv, db, FilesFirst, StepsInOrder, Climbed,
         CertificateNeedsPass, ProgressMatchesSteps, Stored, Completed
<1> QED
  BY <1>1, <1>2, <1>3, <1>4 DEF IInv

LEMMA NoJobType == NoJob \in Job
BY PositionCount DEF NoJob, Job, StepRow, NoStep, Action

\* Slot s ends its request: what the others hold is untouched.
LEMMA ClosedJobs ==
    ASSUME IInv, Advance, NEW s \in Slots, Close(s)
    PROVE  job' \in [Slots -> Job] /\ \A r \in Slots : JobOK(r)'
<1>1. job' \in [Slots -> Job] /\ job'[s] = NoJob
      /\ \A r \in Slots \ {s} : job'[r] = job[r]
  BY NoJobType DEF Close, IInv, TypeOK
<1>2. JobOK(s)'
  BY <1>1 DEF JobOK, NoJob
<1> QED
  BY <1>1, <1>2, KeptJob

LEMMA CloseStep ==
    ASSUME IInv, NEW s \in Slots, Close(s), UNCHANGED <<plan, db>>
    PROVE  IInv' /\ Advance
<1>1. JobOK(s)'
  <2>1. job'[s] = NoJob
    BY DEF Close, IInv, TypeOK
  <2> QED
    BY <2>1 DEF JobOK, NoJob
<1> QED
  BY <1>1, NoJobType, QuietStep DEF Close

-----------------------------------------------------------------------------
(* Requests that only read: they arrive, move forward, or are refused.     *)

\* A request that opens a step, in any of the three ways.
Opens(s) ==
    \/ \E p \in Positions : ReadPlan(s, p)
    \/ \E f \in Files : ReadPlanWithFile(s, f)
    \/ \E l \in Asked, o \in Elsewhere : BeginElsewhere(s, l, o)

\* What it has read of the course.
InOrder(l, p) ==
    p \in Positions /\ ~EditPlan =>
        /\ p \in DOMAIN plan /\ plan[p] = l
        /\ \A q \in 1..(p - 1) : Climbed(q)

\* While the course is not edited, only the completed steps of the lesson and, at
\* position 1, of files are at a position.
LEMMA DoneIsClimbed ==
    ASSUME IInv, ~EditPlan, NEW q \in Positions, Done(q)
    PROVE  Climbed(q)
<1>1. PICK l \in Scopes : Completed(l, q)
  BY DEF Done
<1>2. Stored(l, q)
  BY <1>1 DEF Stored, Completed
<1>3. CASE l \in Lessons
  <2>1. plan[q] = l
    BY <1>2, <1>3 DEF IInv, StepsInOrder
  <2> QED
    BY <1>1, <2>1 DEF Climbed
<1>4. CASE l \in Files
  <2>1. q = 1
    BY <1>2, <1>4, ScopeFacts DEF IInv, FilesFirst
  <2> QED
    BY <1>1, <1>4, <2>1 DEF Climbed
<1> QED
  BY <1>3, <1>4 DEF Scopes

LEMMA ReadInOrder ==
    ASSUME IInv, NEW p \in DOMAIN plan, \A q \in 1..(p - 1) : Done(q)
    PROVE  InOrder(plan[p], p) /\ p \in Positions /\ plan[p] \in Lessons
<1>1. /\ p \in Positions /\ plan[p] \in Lessons
      /\ \A q \in 1..(p - 1) : q \in Positions
  BY PlanFacts DEF IInv, TypeOK
<1> QED
  BY <1>1, DoneIsClimbed DEF InOrder

LEMMA OpenedJob ==
    ASSUME IInv, NEW s \in Slots, Opens(s)
    PROVE  \E j \in Job :
             /\ job' = [job EXCEPT ![s] = j] /\ UNCHANGED <<plan, db>>
             /\ j.pc = "write" /\ j.op = "open" /\ j.newCert = FALSE
             /\ (j.p = 0 <=> j.l = NoLesson) /\ j.l \notin Files
             /\ InOrder(j.l, j.p)
<1> DEFINE Begun ==
      \E l \in Lessons \cup {NoLesson}, p \in Places \cup {0}, f \in Files \cup {NoLesson} :
          Begin(s, l, p, f) /\ (p = 0 <=> l = NoLesson) /\ InOrder(l, p)
<1>1. Begun
  <2>1. ASSUME NEW p \in DOMAIN plan, \A q \in 1..(p - 1) : Done(q)
        PROVE  /\ plan[p] \in Lessons /\ p \in Places
               /\ (p = 0 <=> plan[p] = NoLesson) /\ InOrder(plan[p], p)
    BY <2>1, ReadInOrder, ScopeFacts
  <2>2. ASSUME NEW p \in Positions, ReadPlan(s, p)
        PROVE  Begun
    BY <2>1, <2>2 DEF ReadPlan
  <2>3. ASSUME NEW f \in Files, ReadPlanWithFile(s, f)
        PROVE  Begun
    <3>1. CASE Begin(s, NoLesson, 0, f)
      <4>1. InOrder(NoLesson, 0)
        BY PositionCount DEF InOrder, Positions
      <4> QED
        BY <3>1, <4>1
    <3>2. CASE \E p \in DOMAIN plan :
                  Begin(s, plan[p], p, f) /\ \A q \in 1..(p - 1) : Done(q)
      BY <2>1, <3>2
    <3> QED
      BY <2>3, <3>1, <3>2 DEF ReadPlanWithFile
  <2>4. ASSUME NEW l \in Asked, NEW o \in Elsewhere, BeginElsewhere(s, l, o)
        PROVE  Begun
    <3>1. l \in Lessons /\ l # NoLesson /\ o \in Places /\ o # 0 /\ o \notin Positions
      BY ScopeFacts
    <3>2. InOrder(l, o)
      BY <3>1 DEF InOrder
    <3> QED
      BY <2>4, <3>1, <3>2 DEF BeginElsewhere
  <2> QED
    BY <2>2, <2>3, <2>4 DEF Opens
<1>2. PICK l \in Lessons \cup {NoLesson}, p \in Places \cup {0}, f \in Files \cup {NoLesson} :
          Begin(s, l, p, f) /\ (p = 0 <=> l = NoLesson) /\ InOrder(l, p)
  BY <1>1
<1> DEFINE j == [NoJob EXCEPT !.pc = "write", !.op = "open",
                              !.l = l, !.p = p, !.file = f]
<1>3. j \in Job
  BY NoJobType DEF Job, NoJob, Scopes
<1>4. /\ j.pc = "write" /\ j.op = "open" /\ j.newCert = FALSE
      /\ j.l = l /\ j.p = p
  BY DEF NoJob
<1>5. job' = [job EXCEPT ![s] = j] /\ UNCHANGED <<plan, db>>
  BY <1>2 DEF Begin
<1> HIDE DEF j
<1>6. l \notin Files
  BY ScopeFacts
<1> QED
  BY <1>2, <1>3, <1>4, <1>5, <1>6

LEMMA OpensStep ==
    ASSUME IInv, NEW s \in Slots, Opens(s)
    PROVE  IInv' /\ Advance
<1>1. PICK j \in Job :
          /\ job' = [job EXCEPT ![s] = j] /\ UNCHANGED <<plan, db>>
          /\ j.pc = "write" /\ j.op = "open" /\ j.newCert = FALSE
          /\ (j.p = 0 <=> j.l = NoLesson) /\ j.l \notin Files
          /\ InOrder(j.l, j.p)
  BY OpenedJob
<1>2. job'[s] = j /\ plan' = plan /\ steps' = steps
  BY <1>1 DEF IInv, TypeOK, db
<1>3. JobOK(s)'
  BY <1>1, <1>2 DEF JobOK, InOrder, Climbed, Completed
<1> QED
  BY <1>1, <1>3, QuietStep

LEMMA LoadStepStep ==
    ASSUME IInv, NEW s \in Slots, NEW o \in {"check", "confirm"},
           NEW l \in Scopes, NEW p \in Places, NEW yes \in BOOLEAN,
           LoadStep(s, o, l, p, yes)
    PROVE  IInv' /\ Advance
<1> DEFINE j == [NoJob EXCEPT !.pc = "read", !.op = o, !.l = l, !.p = p,
                              !.yes = yes, !.snap = steps[l][p]]
<1>1. steps[l][p] \in StepRow
  BY DEF IInv, TypeOK
<1>2. j \in Job
  BY <1>1, NoJobType DEF Job, NoJob
<1>3. /\ job'[s] = j /\ steps' = steps /\ Stored(l, p)
      /\ job' = [job EXCEPT ![s] = j] /\ UNCHANGED <<plan, db>>
  BY DEF LoadStep, IInv, TypeOK, db
<1>4. /\ j.op = o /\ j.l = l /\ j.p = p /\ j.pc = "read"
      /\ j.snap = steps[l][p] /\ j.newCert = FALSE
  BY DEF NoJob
<1> HIDE DEF j
<1>5. JobOK(s)'
  BY <1>3, <1>4 DEF JobOK, Stored, Completed
<1> QED
  BY <1>2, <1>3, <1>5, QuietStep

\* What a certificate is given for, asked for without a step of one's own.
LEMMA CertifiedFacts ==
    ASSUME Certified(<<NoLesson, 0>>)
    PROVE  /\ \E l \in Lessons, p \in Places : Completed(l, p)
           /\ HasAssessment => passed
<1>1. PICK l \in Lessons, p \in Places : Stored(l, p)
  BY DEF Certified
<1>2. <<l, p>> \in {k \in Lessons \X Places : Stored(k[1], k[2])}
  BY <1>1
<1>3. Completed(<<l, p>>[1], <<l, p>>[2]) \/ <<l, p>> = <<NoLesson, 0>>
  BY <1>2 DEF Certified
<1> QED
  BY <1>3, ScopeFacts DEF Certified

LEMMA ReadCertificateStep ==
    ASSUME IInv, NEW s \in Slots, ReadCertificate(s)
    PROVE  IInv' /\ Advance
<1> DEFINE j == [NoJob EXCEPT !.pc = "commit", !.op = "issue", !.newCert = TRUE]
<1>1. j \in Job
  BY NoJobType DEF Job, NoJob
<1>2. /\ job'[s] = j /\ steps' = steps /\ passed' = passed
      /\ job' = [job EXCEPT ![s] = j] /\ UNCHANGED <<plan, db>>
  BY DEF ReadCertificate, IInv, TypeOK, db
<1>3. j.op = "issue" /\ j.pc = "commit" /\ j.newCert
  BY DEF NoJob
<1>4. /\ \E l \in Lessons, p \in Places : Completed(l, p)
      /\ HasAssessment => passed
  BY CertifiedFacts DEF ReadCertificate
<1> HIDE DEF j
<1>5. JobOK(s)'
  BY <1>2, <1>3, <1>4 DEF JobOK, Completed
<1> QED
  BY <1>1, <1>2, <1>5, QuietStep

LEMMA GradeAssessmentStep ==
    ASSUME IInv, NEW s \in Slots, NEW o \in {"submit", "sit"},
           NEW yes \in BOOLEAN, GradeAssessment(s, o, yes)
    PROVE  IInv' /\ Advance
<1> DEFINE j == [NoJob EXCEPT !.pc = "recalc", !.op = o, !.yes = yes,
                              !.act = NextAction(weak \/ ~yes)]
<1>1. j \in Job
  BY NoJobType DEF Job, NoJob, NextAction, Action
<1>2. /\ job'[s] = j /\ HasAssessment
      /\ job' = [job EXCEPT ![s] = j] /\ UNCHANGED <<plan, db>>
  BY DEF GradeAssessment, IInv, TypeOK
<1>3. j.op = o /\ j.pc = "recalc" /\ j.newCert = FALSE
  BY DEF NoJob
<1> HIDE DEF j
<1>4. JobOK(s)'
  BY <1>2, <1>3 DEF JobOK
<1> QED
  BY <1>1, <1>2, <1>4, QuietStep

\* A request that goes on with the step it has.
LEMMA ForwardStep ==
    ASSUME IInv, NEW s \in Slots, NEW j \in Job,
           job' = [job EXCEPT ![s] = j], UNCHANGED <<plan, db>>,
           job[s].op # "open",
           j.op = job[s].op, j.l = job[s].l, j.p = job[s].p, j.snap = job[s].snap,
           j.op \in {"check", "confirm"} => j.l \in Lessons,
           j.pc # "idle", j.pc = "commit" => j.op = "confirm",
           j.newCert => (HasAssessment => passed),
           j.op = "issue" => j.newCert
    PROVE  IInv' /\ Advance
<1>1. job'[s] = j /\ steps' = steps /\ passed' = passed
  BY DEF IInv, TypeOK, db
<1>2. JobOK(s)
  BY DEF IInv
<1>3. JobOK(s)'
  BY <1>1, <1>2 DEF JobOK, Stored, Completed
<1> QED
  BY <1>3, QuietStep

\* The parts of a step that goes on, with the fields it changes.
LEMMA CompleteStepStep ==
    ASSUME IInv, NEW s \in Slots, CompleteStep(s)
    PROVE  IInv' /\ Advance
<1> DEFINE j == [job[s] EXCEPT !.pc = "track",
                               !.newProgress = (job[s].l \notin progress)]
<1>1. job[s] \in Job /\ JobOK(s)
  BY DEF IInv, TypeOK
<1>2. /\ job' = [job EXCEPT ![s] = j] /\ UNCHANGED <<plan, db>>
      /\ job[s].op = "confirm" /\ job[s].l \in Lessons
  BY DEF CompleteStep
<1>3. /\ j \in Job /\ j.op = job[s].op /\ j.l = job[s].l /\ j.p = job[s].p
      /\ j.snap = job[s].snap /\ j.pc = "track" /\ j.newCert = job[s].newCert
  BY <1>1 DEF Job
<1>4. j.newCert => (HasAssessment => passed)
  BY <1>1, <1>3 DEF JobOK
<1> HIDE DEF j
<1> QED
  BY <1>2, <1>3, <1>4, ForwardStep

LEMMA TrackProgressStep ==
    ASSUME IInv, NEW s \in Slots, TrackProgress(s)
    PROVE  IInv' /\ Advance
<1> DEFINE j == [job[s] EXCEPT !.pc = "recalc", !.act = NextAction(weak)]
<1>1. job[s] \in Job /\ JobOK(s)
  BY DEF IInv, TypeOK
<1>2. CASE Close(s)
  BY <1>2, CloseStep DEF TrackProgress
<1>3. CASE ~Close(s)
  <2>1. /\ job' = [job EXCEPT ![s] = j] /\ UNCHANGED <<plan, db>>
        /\ job[s].pc = "track"
    BY <1>3 DEF TrackProgress
  <2>2. /\ j \in Job /\ j.op = job[s].op /\ j.l = job[s].l /\ j.p = job[s].p
        /\ j.snap = job[s].snap /\ j.pc = "recalc" /\ j.newCert = job[s].newCert
    BY <1>1 DEF Job, NextAction, Action
  <2>3. /\ j.newCert => (HasAssessment => passed)
        /\ j.op = "issue" => j.newCert
        /\ job[s].op # "open"
        /\ j.op \in {"check", "confirm"} => j.l \in Lessons
    BY <1>1, <2>1, <2>2 DEF JobOK
  <2> HIDE DEF j
  <2> QED
    BY <2>1, <2>2, <2>3, ForwardStep
<1> QED
  BY <1>2, <1>3

LEMMA RecalculateStep ==
    ASSUME IInv, NEW s \in Slots, RecalculateNextStep(s)
    PROVE  IInv' /\ Advance
<1> DEFINE a == IF next = job[s].act THEN "keep" ELSE job[s].act
           j == [job[s] EXCEPT !.pc = "flush", !.act = a, !.newNext = (next = "none")]
<1>1. job[s] \in Job /\ JobOK(s)
  BY DEF IInv, TypeOK
<1>2. /\ job' = [job EXCEPT ![s] = j] /\ UNCHANGED <<plan, db>>
      /\ job[s].pc = "recalc"
  BY DEF RecalculateNextStep
<1>3. a \in Action \cup {"keep"}
  BY <1>1 DEF Job
<1> HIDE DEF a
<1>4. /\ j \in Job /\ j.op = job[s].op /\ j.l = job[s].l /\ j.p = job[s].p
      /\ j.snap = job[s].snap /\ j.pc = "flush" /\ j.newCert = job[s].newCert
  BY <1>1, <1>3 DEF Job
<1>5. /\ j.newCert => (HasAssessment => passed)
      /\ j.op = "issue" => j.newCert
      /\ job[s].op # "open"
      /\ j.op \in {"check", "confirm"} => j.l \in Lessons
  BY <1>1, <1>2, <1>4 DEF JobOK
<1> HIDE DEF j
<1> QED
  BY <1>2, <1>4, <1>5, ForwardStep

LEMMA FlushProgressStep ==
    ASSUME IInv, NEW s \in Slots, FlushProgress(s)
    PROVE  IInv' /\ Advance
<1> DEFINE c == ~cert /\ Certified(<<job[s].l, job[s].p>>)
           j == [job[s] EXCEPT !.pc = "commit", !.newCert = c]
<1>1. job[s] \in Job /\ JobOK(s)
  BY DEF IInv, TypeOK
<1>2. CASE Close(s)
  BY <1>2, CloseStep DEF FlushProgress
<1>3. CASE ~Close(s)
  <2>1. /\ job' = [job EXCEPT ![s] = j] /\ UNCHANGED <<plan, db>>
        /\ job[s].op = "confirm" /\ job[s].l \in Lessons
    BY <1>1, <1>3 DEF FlushProgress, JobOK
  <2>2. c \in BOOLEAN /\ (c => (HasAssessment => passed))
    BY DEF Certified
  <2> HIDE DEF c
  <2>3. /\ j \in Job /\ j.op = job[s].op /\ j.l = job[s].l /\ j.p = job[s].p
        /\ j.snap = job[s].snap /\ j.pc = "commit" /\ j.newCert = c
    BY <1>1, <2>2 DEF Job
  <2> HIDE DEF j
  <2> QED
    BY <2>1, <2>2, <2>3, ForwardStep
<1> QED
  BY <1>2, <1>3

-----------------------------------------------------------------------------
(* Steps that write.                                                       *)

\* A step opened is one of at most two that were not stored.
LEMMA OpenedRows ==
    ASSUME IInv, NEW s \in Slots, StartStep(s)
    PROVE  /\ steps' \in [Scopes -> [Places -> StepRow]]
           /\ \A m \in Scopes, q \in Places :
                steps'[m][q] = IF <<m, q>> \in Opening(s) /\ ~Stored(m, q)
                                 THEN [st |-> "active", ver |-> FALSE] ELSE steps[m][q]
           /\ \A m \in Scopes, q \in Places :
                /\ Stored(m, q)' <=> Stored(m, q) \/ <<m, q>> \in Opening(s)
                /\ Completed(m, q)' <=> Completed(m, q)
<1>1. steps \in [Scopes -> [Places -> StepRow]]
  BY DEF IInv, TypeOK
<1>2. \A m \in Scopes, q \in Places :
          steps'[m][q] = IF <<m, q>> \in Opening(s) /\ ~Stored(m, q)
                           THEN [st |-> "active", ver |-> FALSE] ELSE steps[m][q]
  BY DEF StartStep
<1>4. steps' \in [Scopes -> [Places -> StepRow]]
  <2> DEFINE row(m, q) == IF <<m, q>> \in Opening(s) /\ ~Stored(m, q)
                            THEN [st |-> "active", ver |-> FALSE] ELSE steps[m][q]
  <2>1. steps' = [m \in Scopes |-> [q \in Places |-> row(m, q)]]
    BY DEF StartStep
  <2>2. \A m \in Scopes, q \in Places : row(m, q) \in StepRow
    BY <1>1 DEF StepRow
  <2> HIDE DEF row
  <2> QED
    BY <2>1, <2>2
<1>5. ASSUME NEW m \in Scopes, NEW q \in Places
      PROVE  /\ Stored(m, q)' <=> Stored(m, q) \/ <<m, q>> \in Opening(s)
             /\ Completed(m, q)' <=> Completed(m, q)
  BY <1>2 DEF Stored, Completed
<1> QED
  BY <1>2, <1>4, <1>5

LEMMA StartStepStep ==
    ASSUME IInv, NEW s \in Slots, StartStep(s)
    PROVE  IInv' /\ Advance
<1> DEFINE l == job[s].l
           p == job[s].p
<1>1. /\ job[s] \in Job /\ job[s].op = "open"
      /\ l \notin Files /\ l \in Scopes \cup {NoLesson}
      /\ job[s].file \in Files \cup {NoLesson}
      /\ p \in Positions /\ ~EditPlan =>
            /\ p \in DOMAIN plan /\ plan[p] = l
            /\ \A q \in 1..(p - 1) : Climbed(q)
  BY DEF StartStep, IInv, TypeOK, JobOK, Job
<1>2. /\ Close(s) /\ UNCHANGED <<plan, progress, next, weak, passed, cert>>
  BY DEF StartStep
<1>3. \A m \in Scopes, q \in Places : <<m, q>> \in Opening(s) =>
          (m = l /\ q = p) \/ (m = job[s].file /\ q = 1)
  BY DEF Opening
<1> HIDE DEF l, p
<1>6. \A m \in Scopes, q \in Places :
          /\ Stored(m, q) => Stored(m, q)'
          /\ Completed(m, q) <=> Completed(m, q)'
          /\ Stored(m, q)' => \/ Stored(m, q)
                              \/ m = l /\ q = p
                              \/ m \in Files /\ q = 1
  <2> SUFFICES ASSUME NEW m \in Scopes, NEW q \in Places
               PROVE  /\ Stored(m, q) => Stored(m, q)'
                      /\ Completed(m, q) <=> Completed(m, q)'
                      /\ Stored(m, q)' => \/ Stored(m, q)
                                          \/ m = l /\ q = p
                                          \/ m \in Files /\ q = 1
    OBVIOUS
  <2>1. /\ Stored(m, q)' <=> Stored(m, q) \/ <<m, q>> \in Opening(s)
        /\ Completed(m, q)' <=> Completed(m, q)
    BY OpenedRows
  <2>2. m # NoLesson
    BY ScopeFacts
  <2> QED
    BY <1>1, <1>3, <2>1, <2>2
<1>7. Advance
  BY <1>2, <1>6 DEF Advance
<1>8. TypeOK' /\ (\A r \in Slots : JobOK(r)')
  BY <1>2, <1>7, OpenedRows, ClosedJobs DEF IInv, TypeOK
<1>9. StepsInOrder'
  <2> SUFFICES ASSUME ~EditPlan, NEW m \in Lessons, NEW q \in Positions, Stored(m, q)'
               PROVE  /\ q \in DOMAIN plan /\ plan[q] = m
                      /\ \A i \in 1..(q - 1) : Climbed(i)'
    BY <1>2 DEF StepsInOrder
  <2>1. Stored(m, q) \/ (m = l /\ q = p)
    BY <1>6, ScopeFacts
  <2>2. /\ q \in DOMAIN plan /\ plan[q] = m
        /\ \A i \in 1..(q - 1) : Climbed(i)
    BY <1>1, <2>1 DEF IInv, StepsInOrder
  <2>3. \A i \in 1..(q - 1) : i \in DOMAIN plan
    BY <2>2, PlanFacts DEF IInv, TypeOK
  <2> QED
    BY <1>2, <1>7, <2>2, <2>3, KeptClimb
<1>10. FilesFirst'
  <2> SUFFICES ASSUME NEW f \in Files, NEW q \in Places, Stored(f, q)'
               PROVE  q = 1
    BY DEF FilesFirst
  <2> QED
    BY <1>1, <1>6, ScopeFacts DEF IInv, FilesFirst
<1>11. CertificateNeedsPass' /\ ProgressMatchesSteps'
  BY <1>2, <1>6, ScopeFacts DEF IInv, CertificateNeedsPass, ProgressMatchesSteps
<1> QED
  BY <1>2, <1>7, <1>8, <1>9, <1>10, <1>11 DEF IInv

\* A step that completes more steps, but opens none, keeps them in order.
LEMMA KeptOrder ==
    ASSUME IInv, Advance, plan' = plan,
           \A l \in Scopes, p \in Places : Stored(l, p)' => Stored(l, p)
    PROVE  StepsInOrder' /\ FilesFirst'
<1>1. FilesFirst'
  BY ScopeFacts DEF IInv, FilesFirst
<1> SUFFICES ASSUME ~EditPlan, NEW m \in Lessons, NEW q \in Positions, Stored(m, q)'
             PROVE  /\ q \in DOMAIN plan /\ plan[q] = m
                    /\ \A i \in 1..(q - 1) : Climbed(i)'
  BY <1>1 DEF StepsInOrder
<1>2. /\ q \in DOMAIN plan /\ plan[q] = m
      /\ \A i \in 1..(q - 1) : Climbed(i)
  BY ScopeFacts DEF IInv, StepsInOrder
<1>3. \A i \in 1..(q - 1) : i \in DOMAIN plan
  BY <1>2, PlanFacts DEF IInv, TypeOK
<1> QED
  BY <1>2, <1>3, KeptClimb

\* A check writes one column of a step.
LEMMA CheckedRows ==
    ASSUME IInv, NEW s \in Slots, SaveCheck(s)
    PROVE  /\ steps' \in [Scopes -> [Places -> StepRow]]
           /\ \A m \in Scopes, q \in Places : steps'[m][q].st = steps[m][q].st
<1> DEFINE l == job[s].l
           p == job[s].p
           row == [steps[l][p] EXCEPT !.ver = job[s].yes]
<1>1. job[s] \in Job /\ l \in Scopes /\ p \in Places
  BY DEF SaveCheck, IInv, TypeOK, JobOK
<1>2. \/ steps' = steps
      \/ steps' = [steps EXCEPT ![l][p] = row]
  BY DEF SaveCheck
<1>3. steps \in [Scopes -> [Places -> StepRow]] /\ job[s].yes \in BOOLEAN
  BY <1>1 DEF IInv, TypeOK, Job
<1> HIDE DEF l, p
<1>4. row \in StepRow /\ row.st = steps[l][p].st
  <2>1. steps[l][p] \in StepRow
    BY <1>1, <1>3
  <2> QED
    BY <1>3, <2>1 DEF StepRow
<1> HIDE DEF row
<1> QED
  BY <1>1, <1>2, <1>3, <1>4

LEMMA SaveCheckStep ==
    ASSUME IInv, NEW s \in Slots, SaveCheck(s)
    PROVE  IInv' /\ Advance
<1>1. Close(s) /\ UNCHANGED <<plan, progress, next, weak, passed, cert>>
  BY DEF SaveCheck
<1>2. \A m \in Scopes, q \in Places :
          /\ Stored(m, q) <=> Stored(m, q)'
          /\ Completed(m, q) <=> Completed(m, q)'
  BY CheckedRows DEF Stored, Completed
<1>3. Advance
  BY <1>1, <1>2 DEF Advance
<1>4. TypeOK' /\ (\A r \in Slots : JobOK(r)')
  BY <1>1, <1>3, CheckedRows, ClosedJobs DEF IInv, TypeOK
<1>5. StepsInOrder' /\ FilesFirst'
  BY <1>1, <1>2, <1>3, KeptOrder
<1>6. CertificateNeedsPass' /\ ProgressMatchesSteps'
  BY <1>1, <1>2, ScopeFacts DEF IInv, CertificateNeedsPass, ProgressMatchesSteps
<1> QED
  BY <1>1, <1>3, <1>4, <1>5, <1>6 DEF IInv

\* A confirmation writes the state of a step.
LEMMA CompletedRows ==
    ASSUME IInv, NEW l \in Scopes, NEW p \in Places, Stored(l, p),
           steps' = [steps EXCEPT ![l][p].st = "completed"]
    PROVE  /\ steps' \in [Scopes -> [Places -> StepRow]]
           /\ \A m \in Scopes, q \in Places :
                steps'[m][q].st = IF m = l /\ q = p THEN "completed" ELSE steps[m][q].st
           /\ \A m \in Scopes, q \in Places :
                /\ Stored(m, q) <=> Stored(m, q)'
                /\ Completed(m, q)' <=> Completed(m, q) \/ (m = l /\ q = p)
<1>1. steps \in [Scopes -> [Places -> StepRow]]
  BY DEF IInv, TypeOK
<1>2. steps' \in [Scopes -> [Places -> StepRow]]
  BY <1>1 DEF StepRow
<1>3. \A m \in Scopes, q \in Places :
          steps'[m][q].st = IF m = l /\ q = p THEN "completed" ELSE steps[m][q].st
  BY <1>1 DEF StepRow
<1>4. \A m \in Scopes, q \in Places :
          /\ Stored(m, q) <=> Stored(m, q)'
          /\ Completed(m, q)' <=> Completed(m, q) \/ (m = l /\ q = p)
  BY <1>3 DEF Stored, Completed
<1> QED
  BY <1>2, <1>3, <1>4

\* The step of a file is completed.
LEMMA CompleteFileStep ==
    ASSUME IInv, NEW s \in Slots, CompleteFile(s)
    PROVE  IInv' /\ Advance
<1> DEFINE l == job[s].l
           p == job[s].p
<1>1. /\ l \in Files /\ l \in Scopes /\ p \in Places /\ Stored(l, p)
      /\ steps' = [steps EXCEPT ![l][p].st = "completed"]
      /\ Close(s) /\ UNCHANGED <<plan, progress, next, weak, passed, cert>>
  BY DEF CompleteFile, IInv, JobOK
<1> HIDE DEF l, p
<1>2. /\ steps' \in [Scopes -> [Places -> StepRow]]
      /\ \A m \in Scopes, q \in Places :
           /\ Stored(m, q) <=> Stored(m, q)'
           /\ Completed(m, q)' <=> Completed(m, q) \/ (m = l /\ q = p)
  BY <1>1, CompletedRows
<1>3. Advance
  BY <1>1, <1>2 DEF Advance
<1>4. TypeOK' /\ (\A r \in Slots : JobOK(r)')
  BY <1>1, <1>2, <1>3, ClosedJobs DEF IInv, TypeOK
<1>5. StepsInOrder' /\ FilesFirst'
  BY <1>1, <1>2, <1>3, KeptOrder
<1>6. CertificateNeedsPass'
  BY <1>1, <1>2, ScopeFacts DEF IInv, CertificateNeedsPass
<1>7. ProgressMatchesSteps'
  <2>1. \A m \in Lessons, q \in Places : Completed(m, q)' <=> Completed(m, q)
    BY <1>1, <1>2, ScopeFacts
  <2> QED
    BY <1>1, <2>1 DEF IInv, ProgressMatchesSteps
<1> QED
  BY <1>1, <1>3, <1>4, <1>5, <1>6, <1>7 DEF IInv

LEMMA CommitStepStep ==
    ASSUME IInv, NEW s \in Slots, CommitStep(s)
    PROVE  IInv' /\ Advance
<1> DEFINE l == job[s].l
           p == job[s].p
<1>1. /\ job[s] \in Job /\ JobOK(s) /\ job[s].op = "confirm"
      /\ l \in Lessons /\ p \in Places /\ Stored(l, p)
      /\ job[s].newCert => (HasAssessment => passed)
  BY DEF CommitStep, IInv, TypeOK, JobOK
<1>2. CASE job[s].newCert /\ cert
  <2>1. Close(s) /\ UNCHANGED <<plan, db>>
    BY <1>2 DEF CommitStep, db
  <2> QED
    BY <2>1, CloseStep
<1>3. CASE ~(job[s].newCert /\ cert)
  <2>1. /\ steps' = [steps EXCEPT ![l][p].st = "completed"]
        /\ progress' = progress \cup {l}
        /\ WriteNext(s)
        /\ cert' = (cert \/ job[s].newCert)
        /\ Close(s) /\ UNCHANGED <<plan, weak, passed>>
    BY <1>3 DEF CommitStep
  <2>2. /\ next' \in Action \cup {"none"}
        /\ cert' \in BOOLEAN /\ progress' \subseteq Lessons
    BY <1>1, <2>1 DEF IInv, TypeOK, Job, WriteNext
  <2> HIDE DEF l, p
  <2>3. /\ steps' \in [Scopes -> [Places -> StepRow]]
        /\ \A m \in Scopes, q \in Places :
             /\ Stored(m, q) <=> Stored(m, q)'
             /\ Completed(m, q)' <=> Completed(m, q) \/ (m = l /\ q = p)
    BY <1>1, <2>1, CompletedRows, ScopeFacts
  <2>6. Advance
    BY <2>1, <2>3 DEF Advance
  <2>7. TypeOK' /\ (\A r \in Slots : JobOK(r)')
    BY <2>1, <2>2, <2>3, <2>6, ClosedJobs DEF IInv, TypeOK
  <2>8. StepsInOrder' /\ FilesFirst'
    BY <2>1, <2>3, <2>6, KeptOrder
  <2>9. CertificateNeedsPass'
    BY <1>1, <2>1, <2>3, ScopeFacts DEF IInv, CertificateNeedsPass
  <2>10. ProgressMatchesSteps'
    BY <1>1, <2>1, <2>3, ScopeFacts DEF IInv, ProgressMatchesSteps
  <2> QED
    BY <2>1, <2>6, <2>7, <2>8, <2>9, <2>10 DEF IInv
<1> QED
  BY <1>2, <1>3

\* The certificate asked for on demand, of what was certified when it was.
LEMMA CommitCertificateStep ==
    ASSUME IInv, NEW s \in Slots, CommitCertificate(s)
    PROVE  IInv' /\ Advance
<1>1. /\ cert' = TRUE /\ Close(s)
      /\ UNCHANGED <<plan, steps, progress, next, weak, passed>>
  BY DEF CommitCertificate
<1>2. /\ \E l \in Lessons, p \in Places : Completed(l, p)
      /\ HasAssessment => passed
  BY DEF CommitCertificate, IInv, JobOK
<1>3. Advance
  BY <1>1 DEF Advance, Stored, Completed
<1>4. TypeOK' /\ (\A r \in Slots : JobOK(r)')
  BY <1>1, <1>3, ClosedJobs DEF IInv, TypeOK
<1>5. (FilesFirst /\ StepsInOrder /\ CertificateNeedsPass /\ ProgressMatchesSteps)'
  BY <1>1, <1>2 DEF IInv, FilesFirst, StepsInOrder, Climbed,
                    CertificateNeedsPass, ProgressMatchesSteps, Stored, Completed
<1> QED
  BY <1>1, <1>3, <1>4, <1>5 DEF IInv

LEMMA CommitAssessmentStep ==
    ASSUME IInv, NEW s \in Slots, CommitAssessment(s)
    PROVE  IInv' /\ Advance
<1>1. /\ Close(s) /\ UNCHANGED <<plan, steps, progress, cert>>
      /\ \/ UNCHANGED <<passed, weak, next>>
         \/ /\ passed' = (passed \/ job[s].yes)
            /\ weak' = (weak \/ ~job[s].yes)
            /\ WriteNext(s)
  BY DEF CommitAssessment
<1>2. passed' \in BOOLEAN /\ weak' \in BOOLEAN /\ (passed => passed')
  <2>1. passed \in BOOLEAN /\ weak \in BOOLEAN
    BY DEF IInv, TypeOK
  <2>2. CASE UNCHANGED <<passed, weak, next>>
    BY <2>1, <2>2
  <2>3. CASE passed' = (passed \/ job[s].yes) /\ weak' = (weak \/ ~job[s].yes)
    BY <2>3, Zenon
  <2> QED
    BY <1>1, <2>2, <2>3
<1>3. next' \in Action \cup {"none"}
  <2>1. job[s].act \in Action \cup {"keep"} /\ next \in Action \cup {"none"}
    BY DEF IInv, TypeOK, Job
  <2> QED
    BY <1>1, <2>1 DEF WriteNext
<1>4. Advance
  BY <1>1, <1>2 DEF Advance, Stored, Completed
<1>5. TypeOK' /\ (\A r \in Slots : JobOK(r)')
  BY <1>1, <1>2, <1>3, <1>4, ClosedJobs DEF IInv, TypeOK
<1>6. (FilesFirst /\ StepsInOrder /\ CertificateNeedsPass /\ ProgressMatchesSteps)'
  BY <1>1, <1>2 DEF IInv, FilesFirst, StepsInOrder, Climbed,
                    CertificateNeedsPass, ProgressMatchesSteps, Stored, Completed
<1> QED
  BY <1>1, <1>4, <1>5, <1>6 DEF IInv

-----------------------------------------------------------------------------
(* The crash and the administrator.                                        *)

LEMMA CrashStep ==
    ASSUME IInv, Crash
    PROVE  IInv' /\ Advance
<1>1. job' = [s \in Slots |-> NoJob] /\ UNCHANGED <<plan, db>>
  BY DEF Crash
<1>2. Advance
  BY <1>1 DEF Advance, db, Stored, Completed
<1>3. TypeOK'
  BY <1>1, NoJobType DEF IInv, TypeOK, db
<1>4. \A r \in Slots : JobOK(r)'
  BY <1>1 DEF JobOK, NoJob
<1>5. (FilesFirst /\ StepsInOrder /\ CertificateNeedsPass /\ ProgressMatchesSteps)'
  BY <1>1 DEF IInv, db, FilesFirst, StepsInOrder, Climbed,
              CertificateNeedsPass, ProgressMatchesSteps, Stored, Completed
<1> QED
  BY <1>1, <1>2, <1>3, <1>4, <1>5 DEF IInv

LEMMA EditStep ==
    ASSUME IInv, EditPlan, IsPlan(plan)', UNCHANGED <<db, job>>
    PROVE  IInv' /\ Advance
<1>1. Advance
  BY DEF Advance, db, Stored, Completed
<1>2. TypeOK'
  BY DEF IInv, TypeOK, db
<1>3. \A r \in Slots : JobOK(r)'
  BY <1>1, KeptJob
<1>4. (FilesFirst /\ StepsInOrder /\ CertificateNeedsPass /\ ProgressMatchesSteps)'
  BY DEF IInv, db, FilesFirst, StepsInOrder, Climbed,
         CertificateNeedsPass, ProgressMatchesSteps, Stored, Completed
<1> QED
  BY <1>1, <1>2, <1>3, <1>4 DEF IInv

-----------------------------------------------------------------------------
(* The invariant and what follows from it.                                 *)

LEMMA IInvInit == Init => IInv
<1> SUFFICES ASSUME Init PROVE IInv
  OBVIOUS
<1>1. TypeOK
  BY PlanAssumption, NoJobType DEF Init, TypeOK, StepRow, NoStep
<1>2. \A s \in Slots : JobOK(s)
  BY DEF Init, JobOK, NoJob
<1>3. \A l \in Scopes, p \in Places : ~Stored(l, p) /\ ~Completed(l, p)
  BY DEF Init, Stored, Completed, NoStep
<1> QED
  BY <1>1, <1>2, <1>3, ScopeFacts DEF Init, IInv, FilesFirst, StepsInOrder, CertificateNeedsPass,
                          ProgressMatchesSteps

LEMMA IInvNext == IInv /\ [Next]_vars => IInv' /\ Advance
<1> SUFFICES ASSUME IInv, [Next]_vars PROVE IInv' /\ Advance
  OBVIOUS
<1>1. ASSUME NEW s \in Slots, Request(s)
      PROVE  IInv' /\ Advance
  BY <1>1, OpensStep, LoadStepStep, ReadCertificateStep, GradeAssessmentStep
     DEF Request, Opens
<1>2. ASSUME NEW s \in Slots, Progress(s)
      PROVE  IInv' /\ Advance
  <2>1. CASE StartStep(s)            BY <2>1, StartStepStep
  <2>2. CASE SaveCheck(s)            BY <2>2, SaveCheckStep
  <2>3. CASE RefuseConfirmation(s)   BY <2>3, CloseStep DEF RefuseConfirmation
  <2>4. CASE CompleteStep(s)         BY <2>4, CompleteStepStep
  <2>5. CASE TrackProgress(s)        BY <2>5, TrackProgressStep
  <2>6. CASE RecalculateNextStep(s)  BY <2>6, RecalculateStep
  <2>7. CASE FlushProgress(s)        BY <2>7, FlushProgressStep
  <2>8. CASE CommitStep(s)           BY <2>8, CommitStepStep
  <2>9. CASE CommitCertificate(s)    BY <2>9, CommitCertificateStep
  <2>10. CASE CommitAssessment(s)    BY <2>10, CommitAssessmentStep
  <2>11. CASE GiveUp(s)              BY <2>11, CloseStep DEF GiveUp
  <2>12. CASE CompleteFile(s)        BY <2>12, CompleteFileStep
  <2> QED
    BY <1>2, <2>1, <2>2, <2>3, <2>4, <2>5, <2>6, <2>7, <2>8, <2>9, <2>10, <2>11, <2>12
       DEF Progress
<1>3. ASSUME NEW l \in Lessons, AddLesson(l)
      PROVE  IInv' /\ Advance
  BY <1>3, AddedPlan, EditStep DEF AddLesson, IInv, TypeOK
<1>4. ASSUME NEW i \in Positions, NEW q \in Positions, MoveLesson(i, q)
      PROVE  IInv' /\ Advance
  BY <1>4, MovedPlan, EditStep DEF MoveLesson, IInv, TypeOK
<1>5. CASE UNCHANGED vars
  <2>1. UNCHANGED <<plan, db, job>>
    BY <1>5 DEF vars
  <2>2. Advance
    BY <2>1 DEF Advance, db, Stored, Completed
  <2>3. \A r \in Slots : JobOK(r)'
    BY <2>1, <2>2, KeptJob
  <2>4. (TypeOK /\ FilesFirst /\ StepsInOrder /\ CertificateNeedsPass
            /\ ProgressMatchesSteps)'
    BY <2>1 DEF IInv, db, TypeOK, FilesFirst, StepsInOrder, Climbed,
                CertificateNeedsPass, ProgressMatchesSteps, Stored, Completed
  <2> QED
    BY <2>1, <2>2, <2>3, <2>4 DEF IInv
<1> QED
  BY <1>1, <1>2, <1>3, <1>4, <1>5, CrashStep DEF Next

\* Every reachable state satisfies the inductive invariant: what a request in
\* progress has read still holds when it writes, whatever was committed since.
THEOREM Invariance == Spec => []IInv
BY IInvInit, IInvNext, PTL DEF Spec

\* The rows of the steps, progress, attempts and the certificate keep their
\* types (teacher_teaching, learning and certificates models).
THEOREM TypeCorrectness == Spec => []TypeOK
<1>1. IInv => TypeOK
  BY DEF IInv
<1> QED
  BY <1>1, Invariance, PTL

\* While the course is not edited a student has a step with the course's teacher
\* only after every lesson before it is completed with that teacher, the first one
\* by a file perhaps, also when begin_step and the chat open the step after other
\* requests have committed.  A teacher without a course keeps no order.
THEOREM LessonsInOrder == Spec => []StepsInOrder
<1>1. IInv => StepsInOrder
  BY DEF IInv
<1> QED
  BY <1>1, Invariance, PTL

\* No certificate without a completed step and, where the course has an
\* assessment, without a passed attempt, on either of the two ways to one.
THEOREM CertificateEarned == Spec => []CertificateNeedsPass
<1>1. IInv => CertificateNeedsPass
  BY DEF IInv
<1> QED
  BY <1>1, Invariance, PTL

\* A lesson is shown as completed exactly if a step for it is completed:
\* the two are committed together or not at all.
THEOREM ProgressAgrees == Spec => []ProgressMatchesSteps
<1>1. IInv => ProgressMatchesSteps
  BY DEF IInv
<1> QED
  BY <1>1, Invariance, PTL

\* No check or confirmation that loaded a step earlier makes a completed one
\* active again.
THEOREM CompletionStays == Spec => CompletionIsFinal
<1>1. IInv /\ [Next]_vars =>
          [\A l \in Scopes, p \in Places :
              Completed(l, p) => Completed(l, p)']_vars
  BY IInvNext DEF Advance
<1> QED
  BY <1>1, Invariance, PTL DEF Spec, CompletionIsFinal

-----------------------------------------------------------------------------
(* The next step, where the database has one writer at a time.             *)

\* Slot s goes on to j; it was the writer, or there was none, or it is none.
LEMMA DecidingStep ==
    ASSUME IInv, NextInv, NEW s \in Slots, NEW j \in Job,
           job' = [job EXCEPT ![s] = j],
           Writing(s) \/ UNCHANGED <<next, weak>>,
           Writing(s)' => Writing(s) \/ \A r \in Slots : ~Writing(r),
           DecisionOK(s)', NextStepIsCurrent'
    PROVE  NextInv'
<1>1. job'[s] = j /\ \A r \in Slots \ {s} : job'[r] = job[r]
  BY DEF IInv, TypeOK
<1>2. \A r \in Slots \ {s} : Writing(r)' <=> Writing(r)
  BY <1>1 DEF Writing
<1>3. \A q, r \in Slots : Writing(q)' /\ Writing(r)' => q = r
  BY <1>2 DEF NextInv
<1>4. ASSUME NEW r \in Slots \ {s}
      PROVE  DecisionOK(r)'
  <2>1. DecisionOK(r) /\ job'[r] = job[r]
    BY <1>1 DEF NextInv
  <2>2. CASE UNCHANGED <<next, weak>>
    BY <2>1, <2>2 DEF DecisionOK, Decision
  <2>3. CASE Writing(s)
    <3>1. job[r].pc \notin {"recalc", "flush", "commit"}
      BY <2>3 DEF NextInv, Writing
    <3> QED
      BY <2>1, <3>1 DEF DecisionOK
  <2> QED
    BY <2>2, <2>3
<1> QED
  BY <1>3, <1>4 DEF NextInv

\* A request ends, or goes on without having read the weak points.
LEMMA UndecidedStep ==
    ASSUME IInv, NextInv, NEW s \in Slots, NEW j \in Job,
           job' = [job EXCEPT ![s] = j], UNCHANGED <<next, weak>>,
           j.pc \in {"idle", "read", "write"} \/ (j.pc = "commit" /\ j.op = "issue"),
           j.op = "confirm" => j.snap.st # "none",
           j.op = "issue" => \A r \in Slots : ~Writing(r)
    PROVE  NextInv'
<1>1. job'[s] = j
  BY DEF IInv, TypeOK
<1>2. Writing(s)' => \A r \in Slots : ~Writing(r)
  BY <1>1 DEF Writing
<1>3. DecisionOK(s)'
  BY <1>1 DEF DecisionOK
<1>4. NextStepIsCurrent'
  BY DEF NextInv, NextStepIsCurrent
<1> QED
  BY <1>2, <1>3, <1>4, DecidingStep

LEMMA UndecidedClose ==
    ASSUME IInv, NextInv, NEW s \in Slots, Close(s), UNCHANGED <<next, weak>>
    PROVE  NextInv'
<1>1. NoJob.pc = "idle" /\ NoJob.op = "none"
  BY DEF NoJob
<1> QED
  BY <1>1, NoJobType, UndecidedStep DEF Close

\* The writer commits the next step that it decided on.
LEMMA DecidedClose ==
    ASSUME IInv, NextInv, NEW s \in Slots, Close(s), Writing(s), NextStepIsCurrent'
    PROVE  NextInv'
<1>1. job'[s] = NoJob /\ NoJob.pc = "idle" /\ NoJob.op = "none"
  BY DEF Close, IInv, TypeOK, NoJob
<1>2. DecisionOK(s)'
  BY <1>1 DEF DecisionOK
<1> QED
  BY <1>2, NoJobType, DecidingStep DEF Close

LEMMA RequestDecides ==
    ASSUME IInv, NextInv, SingleWriter, NEW s \in Slots, Request(s)
    PROVE  NextInv'
<1>1. CASE Opens(s)
  <2>1. PICK j \in Job :
            /\ job' = [job EXCEPT ![s] = j] /\ UNCHANGED <<plan, db>>
            /\ j.pc = "write" /\ j.op = "open"
    BY <1>1, OpenedJob
  <2>2. UNCHANGED <<next, weak>>
    BY <2>1 DEF db
  <2> QED
    BY <2>1, <2>2, UndecidedStep
<1>2. ASSUME NEW o \in {"check", "confirm"}, NEW l \in Scopes, NEW p \in Places,
             NEW yes \in BOOLEAN, LoadStep(s, o, l, p, yes)
      PROVE  NextInv'
  <2> DEFINE j == [NoJob EXCEPT !.pc = "read", !.op = o, !.l = l, !.p = p,
                                !.yes = yes, !.snap = steps[l][p]]
  <2>1. steps[l][p] \in StepRow
    BY DEF IInv, TypeOK
  <2>2. j \in Job /\ j.pc = "read" /\ j.op # "issue" /\ j.snap = steps[l][p]
    BY <2>1, NoJobType DEF Job, NoJob
  <2>3. /\ job' = [job EXCEPT ![s] = j] /\ UNCHANGED <<next, weak>>
        /\ steps[l][p].st # "none"
    BY <1>2 DEF LoadStep, db, Stored
  <2> HIDE DEF j
  <2> QED
    BY <2>2, <2>3, UndecidedStep
<1>3. CASE ReadCertificate(s)
  <2> DEFINE j == [NoJob EXCEPT !.pc = "commit", !.op = "issue", !.newCert = TRUE]
  <2>1. j \in Job /\ j.pc = "commit" /\ j.op = "issue"
    BY NoJobType DEF Job, NoJob
  <2>2. /\ job' = [job EXCEPT ![s] = j] /\ UNCHANGED <<next, weak>>
        /\ \A r \in Slots : ~Writing(r)
    BY <1>3 DEF ReadCertificate, db, DatabaseFree
  <2> HIDE DEF j
  <2> QED
    BY <2>1, <2>2, UndecidedStep
<1>4. ASSUME NEW o \in {"submit", "sit"}, NEW yes \in BOOLEAN, GradeAssessment(s, o, yes)
      PROVE  NextInv'
  <2> DEFINE j == [NoJob EXCEPT !.pc = "recalc", !.op = o, !.yes = yes,
                                !.act = NextAction(weak \/ ~yes)]
  <2>1. j \in Job
    BY NoJobType DEF Job, NoJob, NextAction, Action
  <2>2. j.pc = "recalc" /\ j.op = o /\ j.yes = yes /\ j.act = NextAction(weak \/ ~yes)
    BY DEF NoJob
  <2>3. /\ job' = [job EXCEPT ![s] = j] /\ job'[s] = j /\ UNCHANGED <<next, weak>>
        /\ \A r \in Slots : ~Writing(r)
    BY <1>4 DEF GradeAssessment, db, DatabaseFree, IInv, TypeOK
  <2> HIDE DEF j
  <2>4. DecisionOK(s)'
    BY <2>2, <2>3 DEF DecisionOK, Decision
  <2>5. NextStepIsCurrent'
    BY <2>3 DEF NextInv, NextStepIsCurrent
  <2> QED
    BY <2>1, <2>3, <2>4, <2>5, DecidingStep
<1> QED
  BY <1>1, <1>2, <1>3, <1>4 DEF Request, Opens

LEMMA CompletionDecides ==
    ASSUME IInv, NextInv, SingleWriter, NEW s \in Slots, CompleteStep(s)
    PROVE  NextInv'
<1> DEFINE j == [job[s] EXCEPT !.pc = "track",
                               !.newProgress = (job[s].l \notin progress)]
<1>1. job[s] \in Job /\ DecisionOK(s) /\ job[s].op = "confirm"
  BY DEF CompleteStep, IInv, TypeOK, NextInv
<1>2. /\ j \in Job /\ j.pc = "track" /\ j.op = "confirm" /\ j.snap = job[s].snap
  BY <1>1 DEF Job
<1>3. /\ job' = [job EXCEPT ![s] = j] /\ UNCHANGED <<next, weak>>
      /\ job[s].snap.st = "active" => \A r \in Slots : ~Writing(r)
  BY DEF CompleteStep, db, RowFree, DatabaseFree
<1> HIDE DEF j
<1>7. job'[s] = j
  BY <1>3 DEF IInv, TypeOK
<1>4. DecisionOK(s)'
  BY <1>1, <1>2, <1>3, <1>7 DEF DecisionOK
<1>5. Writing(s)' => \A r \in Slots : ~Writing(r)
  BY <1>2, <1>3, <1>7 DEF Writing
<1>6. NextStepIsCurrent'
  BY <1>3 DEF NextInv, NextStepIsCurrent
<1> QED
  BY <1>2, <1>3, <1>4, <1>5, <1>6, DecidingStep

LEMMA TrackingDecides ==
    ASSUME IInv, NextInv, SingleWriter, NEW s \in Slots, TrackProgress(s)
    PROVE  NextInv'
<1> DEFINE j == [job[s] EXCEPT !.pc = "recalc", !.act = NextAction(weak)]
<1>1. job[s] \in Job /\ DecisionOK(s) /\ job[s].op = "confirm" /\ job[s].pc = "track"
  BY DEF TrackProgress, IInv, TypeOK, NextInv, DecisionOK
<1>2. UNCHANGED <<next, weak>>
  BY DEF TrackProgress, db
<1>3. CASE Close(s)
  BY <1>2, <1>3, UndecidedClose
<1>4. CASE ~Close(s)
  <2>1. /\ j \in Job /\ j.pc = "recalc" /\ j.op = "confirm" /\ j.snap = job[s].snap
        /\ j.act = NextAction(weak)
    BY <1>1 DEF Job, NextAction, Action
  <2>2. job' = [job EXCEPT ![s] = j]
    BY <1>4 DEF TrackProgress
  <2> HIDE DEF j
  <2>6. job'[s] = j
    BY <2>2 DEF IInv, TypeOK
  <2>3. DecisionOK(s)'
    BY <1>1, <1>2, <2>1, <2>6 DEF DecisionOK, Decision, NextAction
  <2>4. Writing(s) \/ \A r \in Slots : ~Writing(r)
    <3>1. job[s].snap.st \in {"active", "completed"}
      BY <1>1 DEF DecisionOK, Job, StepRow
    <3>2. job[s].snap.st = "completed" => \A r \in Slots : ~Writing(r)
      BY DEF TrackProgress, ProgressFree, DatabaseFree
    <3> QED
      BY <1>1, <3>1, <3>2 DEF Writing
  <2>5. NextStepIsCurrent'
    BY <1>2 DEF NextInv, NextStepIsCurrent
  <2> QED
    BY <1>2, <2>1, <2>2, <2>3, <2>4, <2>5, DecidingStep
<1> QED
  BY <1>3, <1>4

LEMMA RecalculationDecides ==
    ASSUME IInv, NextInv, NEW s \in Slots, RecalculateNextStep(s)
    PROVE  NextInv'
<1> DEFINE a == IF next = job[s].act THEN "keep" ELSE job[s].act
           j == [job[s] EXCEPT !.pc = "flush", !.act = a, !.newNext = (next = "none")]
<1>1. /\ job[s] \in Job /\ DecisionOK(s) /\ job[s].pc = "recalc"
      /\ job[s].act = Decision(s)
  BY DEF RecalculateNextStep, IInv, TypeOK, NextInv, DecisionOK
<1>2. /\ job' = [job EXCEPT ![s] = j] /\ job'[s] = j /\ UNCHANGED <<next, weak>>
  BY DEF RecalculateNextStep, db, IInv, TypeOK
<1>3. a \in Action \cup {"keep"} /\ job[s].act \in {"remediate", "course_complete"}
      /\ IF a = "keep" THEN next = job[s].act ELSE a = job[s].act
  BY <1>1 DEF Job, Action, Decision, NextAction
<1> HIDE DEF a
<1>4. /\ j \in Job /\ j.pc = "flush" /\ j.op = job[s].op /\ j.yes = job[s].yes
      /\ j.snap = job[s].snap /\ j.act = a
  BY <1>1, <1>3 DEF Job
<1> HIDE DEF j
<1>5. DecisionOK(s)'
  BY <1>1, <1>2, <1>3, <1>4 DEF DecisionOK, Decision
<1>6. Writing(s)
  BY <1>1 DEF Writing
<1>7. NextStepIsCurrent'
  BY <1>2 DEF NextInv, NextStepIsCurrent
<1> QED
  BY <1>2, <1>4, <1>5, <1>6, <1>7, DecidingStep

LEMMA FlushDecides ==
    ASSUME IInv, NextInv, NEW s \in Slots, FlushProgress(s)
    PROVE  NextInv'
<1> DEFINE c == ~cert /\ Certified(<<job[s].l, job[s].p>>)
           j == [job[s] EXCEPT !.pc = "commit", !.newCert = c]
<1>1. job[s] \in Job /\ DecisionOK(s) /\ job[s].pc = "flush" /\ job[s].op = "confirm"
  BY DEF FlushProgress, IInv, TypeOK, NextInv
<1>2. UNCHANGED <<next, weak>>
  BY DEF FlushProgress, db
<1>3. CASE Close(s)
  BY <1>2, <1>3, UndecidedClose
<1>4. CASE ~Close(s)
  <2>1. c \in BOOLEAN
    OBVIOUS
  <2>2. job' = [job EXCEPT ![s] = j] /\ job'[s] = j
    BY <1>4 DEF FlushProgress, IInv, TypeOK
  <2> HIDE DEF c
  <2>3. /\ j \in Job /\ j.pc = "commit" /\ j.op = "confirm" /\ j.yes = job[s].yes
        /\ j.snap = job[s].snap /\ j.act = job[s].act
    BY <1>1, <2>1 DEF Job
  <2> HIDE DEF j
  <2>4. DecisionOK(s)'
    BY <1>1, <1>2, <2>2, <2>3 DEF DecisionOK, Decision
  <2>5. Writing(s)
    BY <1>1 DEF Writing
  <2>6. NextStepIsCurrent'
    BY <1>2 DEF NextInv, NextStepIsCurrent
  <2> QED
    BY <1>2, <2>2, <2>3, <2>4, <2>5, <2>6, DecidingStep
<1> QED
  BY <1>3, <1>4

LEMMA CommitDecides ==
    ASSUME IInv, NextInv, NEW s \in Slots, CommitStep(s)
    PROVE  NextInv'
<1>1. DecisionOK(s) /\ job[s].pc = "commit" /\ job[s].op = "confirm" /\ Close(s)
  BY DEF CommitStep, NextInv
<1>2. Writing(s)
  BY <1>1 DEF Writing
<1>3. NextStepIsCurrent'
  <2>1. weak' = weak /\ (next' = next \/ WriteNext(s))
    BY DEF CommitStep
  <2>2. IF job[s].act = "keep" THEN next = NextAction(weak) ELSE job[s].act = NextAction(weak)
    BY <1>1 DEF DecisionOK, Decision, NextAction
  <2> QED
    BY <2>1, <2>2 DEF NextInv, NextStepIsCurrent, WriteNext
<1> QED
  BY <1>1, <1>2, <1>3, DecidedClose

LEMMA AssessmentDecides ==
    ASSUME IInv, NextInv, NEW s \in Slots, CommitAssessment(s)
    PROVE  NextInv'
<1>1. DecisionOK(s) /\ job[s].pc = "flush" /\ job[s].op \in {"submit", "sit"} /\ Close(s)
  BY DEF CommitAssessment, Grading, NextInv
<1>2. Writing(s)
  BY <1>1 DEF Writing
<1>3. NextStepIsCurrent'
  <2> DEFINE after == weak \/ ~job[s].yes
  <2>1. \/ UNCHANGED <<next, weak>>
        \/ weak' = after /\ WriteNext(s)
    BY DEF CommitAssessment
  <2>2. Decision(s) = NextAction(after)
    BY <1>1 DEF Decision
  <2>3. IF job[s].act = "keep" THEN next = NextAction(after) ELSE job[s].act = NextAction(after)
    BY <1>1, <2>2 DEF DecisionOK
  <2> HIDE DEF after
  <2> QED
    BY <2>1, <2>3 DEF NextInv, NextStepIsCurrent, WriteNext
<1> QED
  BY <1>1, <1>2, <1>3, DecidedClose

LEMMA NextInvInit == Init => NextInv
BY DEF Init, NextInv, NextStepIsCurrent, Writing, DecisionOK, NoJob

LEMMA NextInvNext ==
    ASSUME IInv, NextInv, SingleWriter, [Next]_vars
    PROVE  NextInv'
<1>1. ASSUME NEW s \in Slots, Progress(s)
      PROVE  NextInv'
  <2>1. CASE StartStep(s)            BY <2>1, UndecidedClose DEF StartStep
  <2>2. CASE SaveCheck(s)            BY <2>2, UndecidedClose DEF SaveCheck
  <2>3. CASE RefuseConfirmation(s)   BY <2>3, UndecidedClose DEF RefuseConfirmation, db
  <2>4. CASE CommitCertificate(s)    BY <2>4, UndecidedClose DEF CommitCertificate
  <2>5. CASE GiveUp(s)               BY <2>5, UndecidedClose DEF GiveUp, db
  <2>6. CASE CompleteFile(s)         BY <2>6, UndecidedClose DEF CompleteFile
  <2> QED
    BY <1>1, <2>1, <2>2, <2>3, <2>4, <2>5, <2>6, CompletionDecides, TrackingDecides,
       RecalculationDecides, FlushDecides, CommitDecides, AssessmentDecides
       DEF Progress
<1>2. CASE UNCHANGED <<next, weak, job>>
  BY <1>2 DEF NextInv, NextStepIsCurrent, Writing, DecisionOK, Decision
<1>3. CASE Crash
  BY <1>3 DEF Crash, db, NextInv, NextStepIsCurrent, Writing, DecisionOK, NoJob
<1>4. ASSUME NEW l \in Lessons, AddLesson(l)
      PROVE  NextInv'
  BY <1>2, <1>4 DEF AddLesson, db
<1>5. ASSUME NEW i \in Positions, NEW q \in Positions, MoveLesson(i, q)
      PROVE  NextInv'
  BY <1>2, <1>5 DEF MoveLesson, db
<1>6. CASE UNCHANGED vars
  BY <1>2, <1>6 DEF vars, db
<1> QED
  BY <1>1, <1>3, <1>4, <1>5, <1>6, RequestDecides DEF Next

\* The next step shown to the student is the one the weak points ask for, after
\* any number of confirmations and gradings at once, in a database with one
\* writer at a time (progress_service._recalculate_next_step).
THEOREM NextStepCurrent ==
    ASSUME SingleWriter
    PROVE  Spec => []NextStepIsCurrent
<1>1. IInv /\ NextInv /\ [Next]_vars => NextInv'
  BY NextInvNext
<1>2. NextInv => NextStepIsCurrent
  BY DEF NextInv
<1> QED
  BY <1>1, <1>2, NextInvInit, Invariance, PTL DEF Spec

-----------------------------------------------------------------------------
(* The certificate of a course without assessment.                         *)

\* The course is certified if a step is stored and none is unfinished.
LEMMA CertifiedMeans ==
    Certified(<<NoLesson, 0>>) <=>
        /\ \E l \in Lessons, p \in Places : Stored(l, p)
        /\ \A l \in Lessons, p \in Places : ~Unfinished(l, p)
        /\ HasAssessment => passed
<1> DEFINE opened == {k \in Lessons \X Places : Stored(k[1], k[2])}
<1>1. opened # {} <=> \E l \in Lessons, p \in Places : Stored(l, p)
  <2>1. ASSUME NEW k \in opened
        PROVE  \E l \in Lessons, p \in Places : Stored(l, p)
    OBVIOUS
  <2>2. ASSUME NEW l \in Lessons, NEW p \in Places, Stored(l, p)
        PROVE  <<l, p>> \in opened
    BY <2>2
  <2> QED
    BY <2>1, <2>2
<1>2. (\A k \in opened : Completed(k[1], k[2]) \/ k = <<NoLesson, 0>>) <=>
          \A l \in Lessons, p \in Places : ~Unfinished(l, p)
  <2>1. \A k \in opened : k # <<NoLesson, 0>>
    BY ScopeFacts
  <2>2. ASSUME NEW l \in Lessons, NEW p \in Places, Unfinished(l, p),
               \A k \in opened : Completed(k[1], k[2])
        PROVE  FALSE
    <3>1. <<l, p>> \in opened
      BY <2>2 DEF Unfinished
    <3> QED
      BY <2>2, <3>1 DEF Unfinished
  <2>3. ASSUME NEW k \in opened, \A l \in Lessons, p \in Places : ~Unfinished(l, p)
        PROVE  Completed(k[1], k[2])
    BY <2>3 DEF Unfinished
  <2> QED
    BY <2>1, <2>2, <2>3
<1> QED
  BY <1>1, <1>2 DEF Certified

LEMMA CertifiedMeansThen ==
    (Certified(<<NoLesson, 0>>) <=>
        /\ \E l \in Lessons, p \in Places : Stored(l, p)
        /\ \A l \in Lessons, p \in Places : ~Unfinished(l, p)
        /\ HasAssessment => passed)'
BY CertifiedMeans, PTL

\* What a confirmation leaves open that does not certify the course.
LEMMA NotCertified ==
    ASSUME NEW l \in Lessons, NEW p \in Places, Stored(l, p),
           ~HasAssessment, ~Certified(<<l, p>>)
    PROVE  \E m \in Lessons, q \in Places : Unfinished(m, q) /\ <<m, q>> # <<l, p>>
<1> DEFINE opened == {k \in Lessons \X Places : Stored(k[1], k[2])}
<1>1. <<l, p>> \in opened
  OBVIOUS
<1>2. PICK k \in opened : ~Completed(k[1], k[2]) /\ k # <<l, p>>
  BY <1>1 DEF Certified
<1>3. /\ k[1] \in Lessons /\ k[2] \in Places /\ k = <<k[1], k[2]>>
      /\ Unfinished(k[1], k[2])
  BY <1>2 DEF Unfinished
<1> QED
  BY <1>2, <1>3

\* Slot s goes on to j, not to the commit of a confirmation; what is unfinished
\* stays so, unless the certificate is there or no confirmation depends on it.
LEMMA CertifyingStep ==
    ASSUME IInv, CertificateInv, NEW s \in Slots, NEW j \in Job,
           job' = [job EXCEPT ![s] = j], j.pc # "commit" \/ j.op # "confirm",
           ~HasAssessment =>
             /\ cert => cert'
             /\ CompletionIsCertified'
             /\ \/ Committing(s)
                \/ \A l \in Lessons, p \in Places : Unfinished(l, p) => Unfinished(l, p)'
    PROVE  CertificateInv'
<1>1. job'[s] = j /\ \A r \in Slots \ {s} : job'[r] = job[r]
  BY DEF IInv, TypeOK
<1>2. ~Committing(s)' /\ \A r \in Slots \ {s} : Committing(r)' <=> Committing(r)
  BY <1>1 DEF Committing
<1>3. \A q, r \in Slots : Committing(q)' /\ Committing(r)' => q = r
  BY <1>2 DEF CertificateInv
<1>4. ASSUME ~HasAssessment, NEW r \in Slots, Committing(r)'
      PROVE  CertificateOK(r)'
  <2>1. r # s /\ Committing(r) /\ CertificateOK(r) /\ job'[r] = job[r]
    BY <1>1, <1>2, <1>4 DEF CertificateInv
  <2>2. ~Committing(s)
    BY <2>1 DEF CertificateInv
  <2>3. \A l \in Lessons, p \in Places : Unfinished(l, p) => Unfinished(l, p)'
    BY <1>4, <2>2
  <2> QED
    BY <1>4, <2>1, <2>3 DEF CertificateOK
<1>5. CompletionIsCertified'
  BY DEF CompletionIsCertified
<1> QED
  BY <1>3, <1>4, <1>5 DEF CertificateInv

\* A step that leaves steps, attempts and certificate alone, or adds to what is
\* unfinished.
LEMMA StillCertified ==
    ASSUME CertificateInv, passed' = passed, cert => cert',
           \A l \in Lessons, p \in Places :
             /\ Unfinished(l, p) => Unfinished(l, p)'
             /\ Stored(l, p)' => Stored(l, p) \/ Unfinished(l, p)'
    PROVE  CompletionIsCertified'
<1> SUFFICES ASSUME ~HasAssessment, Certified(<<NoLesson, 0>>)'
             PROVE  cert'
  BY DEF CompletionIsCertified
<1>1. Certified(<<NoLesson, 0>>)
  BY CertifiedMeans, CertifiedMeansThen
<1> QED
  BY <1>1 DEF CertificateInv, CompletionIsCertified

LEMMA QuietCertificate ==
    ASSUME IInv, CertificateInv, NEW s \in Slots, NEW j \in Job,
           job' = [job EXCEPT ![s] = j], j.pc # "commit" \/ j.op # "confirm",
           UNCHANGED db
    PROVE  CertificateInv'
<1>1. /\ passed' = passed /\ cert' = cert
      /\ \A l \in Lessons, p \in Places :
           /\ Unfinished(l, p)' <=> Unfinished(l, p)
           /\ Stored(l, p)' <=> Stored(l, p)
  BY DEF db, Unfinished, Stored, Completed
<1> QED
  BY <1>1, StillCertified, CertifyingStep

LEMMA QuietClose ==
    ASSUME IInv, CertificateInv, NEW s \in Slots, Close(s), UNCHANGED db
    PROVE  CertificateInv'
<1>1. NoJob.pc = "idle"
  BY DEF NoJob
<1> QED
  BY <1>1, NoJobType, QuietCertificate DEF Close

LEMMA RequestCertificate ==
    ASSUME IInv, CertificateInv, NEW s \in Slots, Request(s)
    PROVE  CertificateInv'
<1>1. CASE Opens(s)
  <2>1. PICK j \in Job :
            /\ job' = [job EXCEPT ![s] = j] /\ UNCHANGED <<plan, db>>
            /\ j.pc = "write"
    BY <1>1, OpenedJob
  <2> QED
    BY <2>1, QuietCertificate
<1>2. ASSUME NEW o \in {"check", "confirm"}, NEW l \in Scopes, NEW p \in Places,
             NEW yes \in BOOLEAN, LoadStep(s, o, l, p, yes)
      PROVE  CertificateInv'
  <2> DEFINE j == [NoJob EXCEPT !.pc = "read", !.op = o, !.l = l, !.p = p,
                                !.yes = yes, !.snap = steps[l][p]]
  <2>1. steps[l][p] \in StepRow
    BY DEF IInv, TypeOK
  <2>2. j \in Job /\ j.pc = "read"
    BY <2>1, NoJobType DEF Job, NoJob
  <2>3. job' = [job EXCEPT ![s] = j] /\ UNCHANGED db
    BY <1>2 DEF LoadStep
  <2> HIDE DEF j
  <2> QED
    BY <2>2, <2>3, QuietCertificate
<1>3. CASE ReadCertificate(s)
  <2> DEFINE j == [NoJob EXCEPT !.pc = "commit", !.op = "issue", !.newCert = TRUE]
  <2>1. j \in Job /\ j.op = "issue"
    BY NoJobType DEF Job, NoJob
  <2>2. job' = [job EXCEPT ![s] = j] /\ UNCHANGED db
    BY <1>3 DEF ReadCertificate
  <2> HIDE DEF j
  <2> QED
    BY <2>1, <2>2, QuietCertificate
<1>4. ASSUME NEW o \in {"submit", "sit"}, NEW yes \in BOOLEAN, GradeAssessment(s, o, yes)
      PROVE  CertificateInv'
  <2> DEFINE j == [NoJob EXCEPT !.pc = "recalc", !.op = o, !.yes = yes,
                                !.act = NextAction(weak \/ ~yes)]
  <2>1. j \in Job /\ j.pc = "recalc"
    BY NoJobType DEF Job, NoJob, NextAction, Action
  <2>2. job' = [job EXCEPT ![s] = j] /\ UNCHANGED db
    BY <1>4 DEF GradeAssessment
  <2> HIDE DEF j
  <2> QED
    BY <2>1, <2>2, QuietCertificate
<1> QED
  BY <1>1, <1>2, <1>3, <1>4 DEF Request, Opens

LEMMA ForwardCertificate ==
    ASSUME IInv, CertificateInv, NEW s \in Slots,
           CompleteStep(s) \/ TrackProgress(s) \/ RecalculateNextStep(s)
    PROVE  CertificateInv'
<1>1. job[s] \in Job /\ UNCHANGED db
  BY DEF CompleteStep, TrackProgress, RecalculateNextStep, IInv, TypeOK
<1>2. CASE CompleteStep(s)
  <2> DEFINE j == [job[s] EXCEPT !.pc = "track",
                                 !.newProgress = (job[s].l \notin progress)]
  <2>1. j \in Job /\ j.pc = "track"
    BY <1>1 DEF Job
  <2>2. job' = [job EXCEPT ![s] = j]
    BY <1>2 DEF CompleteStep
  <2> HIDE DEF j
  <2> QED
    BY <1>1, <2>1, <2>2, QuietCertificate
<1>3. CASE TrackProgress(s) /\ ~Close(s)
  <2> DEFINE j == [job[s] EXCEPT !.pc = "recalc", !.act = NextAction(weak)]
  <2>1. j \in Job /\ j.pc = "recalc"
    BY <1>1 DEF Job, NextAction, Action
  <2>2. job' = [job EXCEPT ![s] = j]
    BY <1>3 DEF TrackProgress
  <2> HIDE DEF j
  <2> QED
    BY <1>1, <2>1, <2>2, QuietCertificate
<1>4. CASE RecalculateNextStep(s)
  <2> DEFINE a == IF next = job[s].act THEN "keep" ELSE job[s].act
             j == [job[s] EXCEPT !.pc = "flush", !.act = a, !.newNext = (next = "none")]
  <2>1. a \in Action \cup {"keep"}
    BY <1>1 DEF Job
  <2>2. job' = [job EXCEPT ![s] = j]
    BY <1>4 DEF RecalculateNextStep
  <2> HIDE DEF a
  <2>3. j \in Job /\ j.pc = "flush"
    BY <1>1, <2>1 DEF Job
  <2> HIDE DEF j
  <2> QED
    BY <1>1, <2>2, <2>3, QuietCertificate
<1> QED
  BY <1>1, <1>2, <1>3, <1>4, QuietClose

\* The progress is flushed when no other confirmation is about to be committed,
\* so that what this one finds unfinished stays so until its own commit.
LEMMA FlushCertificate ==
    ASSUME IInv, CertificateInv, NEW s \in Slots, FlushProgress(s)
    PROVE  CertificateInv'
<1> DEFINE l == job[s].l
           p == job[s].p
           c == ~cert /\ Certified(<<l, p>>)
           j == [job[s] EXCEPT !.pc = "commit", !.newCert = c]
<1>1. /\ job[s] \in Job /\ l \in Lessons /\ p \in Places /\ Stored(l, p)
      /\ UNCHANGED db
  BY DEF FlushProgress, IInv, TypeOK, JobOK
<1>2. CASE Close(s)
  BY <1>1, <1>2, QuietClose
<1>3. CASE ~Close(s)
  <2>1. job' = [job EXCEPT ![s] = j]
    BY <1>3 DEF FlushProgress
  <2>2. c \in BOOLEAN /\ (~c => cert \/ ~Certified(<<l, p>>))
    OBVIOUS
  <2> HIDE DEF c
  <2>3. j.newCert = c /\ j.l = l /\ j.p = p
    BY <1>1, <2>2 DEF Job
  <2> HIDE DEF j, l, p
  <2>4. job'[s] = j /\ \A r \in Slots \ {s} : job'[r] = job[r]
    BY <2>1 DEF IInv, TypeOK
  <2>5. \A r \in Slots \ {s} : ~Committing(r)
    BY DEF FlushProgress, NextRowFree, Committing
  <2>6. \A r \in Slots \ {s} : ~Committing(r)'
    BY <2>4, <2>5 DEF Committing
  <2>7. /\ cert' = cert /\ passed' = passed
        /\ \A m \in Lessons, q \in Places :
             /\ Unfinished(m, q)' <=> Unfinished(m, q)
             /\ Stored(m, q)' <=> Stored(m, q)
    BY <1>1 DEF db, Unfinished, Stored, Completed
  <2>8. ~HasAssessment => CertificateOK(s)'
    BY <1>1, <2>2, <2>3, <2>4, <2>7, NotCertified DEF CertificateOK
  <2>9. CompletionIsCertified'
    BY <2>7, StillCertified
  <2> QED
    BY <2>6, <2>8, <2>9 DEF CertificateInv
<1> QED
  BY <1>2, <1>3

LEMMA CommitsCertificate ==
    ASSUME IInv, CertificateInv, NEW s \in Slots, CommitStep(s)
    PROVE  CertificateInv'
<1> DEFINE l == job[s].l
           p == job[s].p
<1>1. /\ job[s] \in Job /\ JobOK(s) /\ l \in Lessons /\ p \in Places /\ Stored(l, p)
      /\ Committing(s) /\ Close(s)
  BY DEF CommitStep, IInv, TypeOK, JobOK, Committing
<1>2. CASE job[s].newCert /\ cert
  BY <1>1, <1>2, QuietClose DEF CommitStep, db
<1>3. CASE ~(job[s].newCert /\ cert)
  <2>1. /\ steps' = [steps EXCEPT ![l][p].st = "completed"]
        /\ cert' = (cert \/ job[s].newCert) /\ passed' = passed
    BY <1>3 DEF CommitStep
  <2>2. ~HasAssessment => CertificateOK(s)
    BY <1>1 DEF CertificateInv
  <2>3. NoJob.pc = "idle" /\ job' = [job EXCEPT ![s] = NoJob]
    BY <1>1 DEF Close, NoJob
  <2> HIDE DEF l, p
  <2>5. \A m \in Lessons, q \in Places :
            <<m, q>> # <<l, p>> => (Unfinished(m, q)' <=> Unfinished(m, q))
    BY <1>1, <2>1, CompletedRows, ScopeFacts DEF Unfinished
  <2>6. ASSUME ~HasAssessment
        PROVE  cert' \/ \E m \in Lessons, q \in Places : Unfinished(m, q)'
    BY <2>1, <2>2, <2>5, <2>6 DEF CertificateOK, l, p
  <2>7. ~HasAssessment => CompletionIsCertified'
    BY <2>6, CertifiedMeansThen DEF CompletionIsCertified
  <2>8. cert => cert'
    BY <2>1
  <2> QED
    BY <1>1, <2>3, <2>7, <2>8, NoJobType, CertifyingStep
<1> QED
  BY <1>2, <1>3

LEMMA WritesCertificate ==
    ASSUME IInv, CertificateInv, NEW s \in Slots,
           \/ StartStep(s) \/ SaveCheck(s) \/ CompleteFile(s)
           \/ CommitCertificate(s) \/ CommitAssessment(s)
    PROVE  CertificateInv'
<1>1. Close(s) /\ job' = [job EXCEPT ![s] = NoJob] /\ NoJob.pc = "idle"
  BY DEF StartStep, SaveCheck, CompleteFile, CommitCertificate, CommitAssessment,
         Close, NoJob
<1>2. ASSUME passed' = passed, cert' = cert,
             \A m \in Lessons, q \in Places :
               /\ Unfinished(m, q) => Unfinished(m, q)'
               /\ Stored(m, q)' => Stored(m, q) \/ Unfinished(m, q)'
      PROVE  CertificateInv'
  BY <1>1, <1>2, NoJobType, StillCertified, CertifyingStep
<1>3. CASE StartStep(s)
  <2>1. passed' = passed /\ cert' = cert
    BY <1>3 DEF StartStep
  <2>2. \A m \in Lessons, q \in Places :
          /\ Unfinished(m, q) => Unfinished(m, q)'
          /\ Stored(m, q)' => Stored(m, q) \/ Unfinished(m, q)'
    <3>1. \A m \in Scopes, q \in Places :
            Completed(m, q) => Stored(m, q)
      BY DEF Completed, Stored
    <3> QED
      BY <1>3, <3>1, OpenedRows, ScopeFacts DEF Unfinished
  <2> QED
    BY <1>2, <2>1, <2>2
<1>4. CASE SaveCheck(s)
  <2>1. passed' = passed /\ cert' = cert
    BY <1>4 DEF SaveCheck
  <2>2. \A m \in Lessons, q \in Places :
          /\ Unfinished(m, q) => Unfinished(m, q)'
          /\ Stored(m, q)' => Stored(m, q) \/ Unfinished(m, q)'
    BY <1>4, CheckedRows, ScopeFacts DEF Unfinished, Stored, Completed
  <2> QED
    BY <1>2, <2>1, <2>2
<1>7. CASE CompleteFile(s)
  <2> DEFINE l == job[s].l
             p == job[s].p
  <2>1. /\ l \in Files /\ l \in Scopes /\ p \in Places
        /\ Stored(l, p) /\ passed' = passed /\ cert' = cert
        /\ steps' = [steps EXCEPT ![l][p].st = "completed"]
    BY <1>7 DEF CompleteFile, IInv, JobOK
  <2> HIDE DEF l, p
  <2>2. \A m \in Lessons, q \in Places :
          /\ Unfinished(m, q) => Unfinished(m, q)'
          /\ Stored(m, q)' => Stored(m, q) \/ Unfinished(m, q)'
    <3>1. \A m \in Scopes, q \in Places :
            /\ Stored(m, q) <=> Stored(m, q)'
            /\ Completed(m, q)' <=> Completed(m, q) \/ (m = l /\ q = p)
      BY <2>1, CompletedRows
    <3>2. \A m \in Lessons : m \in Scopes /\ m # l
      BY <2>1, ScopeFacts
    <3> QED
      BY <3>1, <3>2 DEF Unfinished
  <2> QED
    BY <1>2, <2>1, <2>2
<1>5. CASE CommitCertificate(s)
  <2>1. cert' = TRUE /\ steps' = steps
    BY <1>5 DEF CommitCertificate
  <2>2. CompletionIsCertified'
    BY <2>1 DEF CompletionIsCertified
  <2>3. \A m \in Lessons, q \in Places : Unfinished(m, q) => Unfinished(m, q)'
    BY <2>1 DEF Unfinished, Stored, Completed
  <2> QED
    BY <1>1, <2>1, <2>2, <2>3, NoJobType, CertifyingStep
<1>6. CASE CommitAssessment(s)
  <2>1. HasAssessment
    BY <1>6 DEF CommitAssessment, Grading, IInv, JobOK
  <2> QED
    BY <1>1, <2>1, NoJobType, CertifyingStep
<1> QED
  BY <1>3, <1>4, <1>5, <1>6, <1>7

LEMMA CertificateInvInit == Init => CertificateInv
<1> SUFFICES ASSUME Init PROVE CertificateInv
  OBVIOUS
<1>1. \A l \in Lessons, p \in Places : ~Stored(l, p)
  BY ScopeFacts DEF Init, Stored, NoStep
<1>2. CompletionIsCertified
  BY <1>1, CertifiedMeans DEF CompletionIsCertified
<1>3. \A s \in Slots : ~Committing(s)
  BY DEF Init, Committing, NoJob
<1> QED
  BY <1>2, <1>3 DEF CertificateInv

LEMMA CertificateInvNext ==
    ASSUME IInv, CertificateInv, [Next]_vars
    PROVE  CertificateInv'
<1>1. ASSUME NEW s \in Slots, Progress(s)
      PROVE  CertificateInv'
  <2>1. CASE RefuseConfirmation(s) \/ GiveUp(s)
    BY <2>1, QuietClose DEF RefuseConfirmation, GiveUp
  <2> QED
    BY <1>1, <2>1, WritesCertificate, ForwardCertificate, FlushCertificate,
       CommitsCertificate DEF Progress
<1>2. ASSUME UNCHANGED db, \A s \in Slots : job'[s] = job[s] \/ job'[s] = NoJob
      PROVE  CertificateInv'
  <2>1. /\ cert' = cert /\ passed' = passed
        /\ \A m \in Lessons, q \in Places :
             /\ Unfinished(m, q)' <=> Unfinished(m, q)
             /\ Stored(m, q)' <=> Stored(m, q)
    BY <1>2 DEF db, Unfinished, Stored, Completed
  <2>2. CompletionIsCertified'
    BY <2>1, StillCertified
  <2>3. \A s \in Slots : Committing(s)' => Committing(s) /\ job'[s] = job[s]
    BY <1>2 DEF Committing, NoJob
  <2>4. \A s \in Slots : CertificateOK(s) /\ job'[s] = job[s] => CertificateOK(s)'
    BY <2>1 DEF CertificateOK
  <2> QED
    BY <2>2, <2>3, <2>4 DEF CertificateInv
<1>3. CASE Crash
  BY <1>2, <1>3 DEF Crash
<1>4. ASSUME NEW l \in Lessons, AddLesson(l)
      PROVE  CertificateInv'
  BY <1>2, <1>4 DEF AddLesson
<1>5. ASSUME NEW i \in Positions, NEW q \in Positions, MoveLesson(i, q)
      PROVE  CertificateInv'
  BY <1>2, <1>5 DEF MoveLesson
<1>6. CASE UNCHANGED vars
  BY <1>2, <1>6 DEF vars
<1> QED
  BY <1>1, <1>3, <1>4, <1>5, <1>6, RequestCertificate DEF Next

\* In a course without assessment the certificate is there as soon as every step
\* that was opened is completed, for any number of confirmations at once: the
\* next-step row lets one of them through at a time (issue_course_certificate).
THEOREM CompletionCertified == Spec => []CompletionIsCertified
<1>1. IInv /\ CertificateInv /\ [Next]_vars => CertificateInv'
  BY CertificateInvNext
<1>2. CertificateInv => CompletionIsCertified
  BY DEF CertificateInv
<1> QED
  BY <1>1, <1>2, CertificateInvInit, Invariance, PTL DEF Spec

-----------------------------------------------------------------------------
(***************************************************************************)
(* Mastery implements LessonLadder while the course is not edited: every   *)
(* step of it opens a step of the ladder, completes one, excuses the first,*)
(* gives the certificate, passes the assessment, or changes nothing the    *)
(* student sees.                                                           *)
(***************************************************************************)

OpenedRungs == {k \in Lessons \X Places : Stored(k[1], k[2])}
DoneRungs   == {k \in Lessons \X Places : Completed(k[1], k[2])}
Excused     == \E f \in Files : Completed(f, 1)

\* The steps of the course's teacher are those of its lessons in order.
LEMMA RungFacts ==
    ASSUME IInv, ~EditPlan
    PROVE  /\ plan = FirstPlan
           /\ Rungs = 1..Len(FirstPlan) /\ Len(FirstPlan) \in Nat
           /\ Rungs \subseteq Positions
           /\ \A p \in Rungs : FirstPlan[p] \in Lessons
<1>1. plan = FirstPlan
  BY DEF IInv
<1>2. /\ Rungs = 1..Len(FirstPlan) /\ Len(FirstPlan) \in Nat
      /\ Rungs \subseteq Positions
      /\ \A p \in Rungs : FirstPlan[p] \in Lessons
  BY PlanFacts, PlanAssumption DEF Rungs
<1> QED
  BY <1>1, <1>2

\* A step that stores the same and completes the same keeps the rungs.
LEMMA SameOpened ==
    ASSUME \A l \in Lessons, p \in Places : Stored(l, p)' <=> Stored(l, p)
    PROVE  OpenedRungs' = OpenedRungs
BY DEF OpenedRungs

LEMMA SameDone ==
    ASSUME \A l \in Lessons, p \in Places : Completed(l, p)' <=> Completed(l, p)
    PROVE  DoneRungs' = DoneRungs
BY DEF DoneRungs

Stutter == UNCHANGED <<OpenedRungs, DoneRungs, Excused, passed, cert>>

LEMMA SameRungs ==
    ASSUME \A l \in Scopes, p \in Places :
             /\ Stored(l, p)' <=> Stored(l, p)
             /\ Completed(l, p)' <=> Completed(l, p)
    PROVE  UNCHANGED <<OpenedRungs, DoneRungs, Excused>>
<1>1. OpenedRungs' = OpenedRungs /\ DoneRungs' = DoneRungs
  BY ScopeFacts, SameOpened, SameDone
<1>2. Excused' = Excused
  BY ScopeFacts DEF Excused
<1> QED
  BY <1>1, <1>2

LEMMA QuietStutter ==
    ASSUME UNCHANGED <<steps, passed, cert>>
    PROVE  Stutter
BY SameRungs DEF Stutter, Stored, Completed

LEMMA SaveCheckStutter ==
    ASSUME IInv, NEW s \in Slots, SaveCheck(s)
    PROVE  Stutter
<1>1. UNCHANGED <<passed, cert>>
  BY DEF SaveCheck
<1>2. \A l \in Scopes, p \in Places :
          /\ Stored(l, p)' <=> Stored(l, p)
          /\ Completed(l, p)' <=> Completed(l, p)
  BY CheckedRows DEF Stored, Completed
<1> QED
  BY <1>1, <1>2, SameRungs DEF Stutter

LEMMA StartStepOpens ==
    ASSUME IInv, ~EditPlan, NEW s \in Slots, StartStep(s)
    PROVE  /\ UNCHANGED <<DoneRungs, Excused, passed, cert>>
           /\ \/ OpenedRungs' = OpenedRungs
              \/ \E p \in Rungs :
                    /\ <<FirstPlan[p], p>> \notin OpenedRungs
                    /\ \A q \in 1..(p - 1) :
                          /\ q \in Rungs
                          /\ <<FirstPlan[q], q>> \in DoneRungs \/ (q = 1 /\ Excused)
                    /\ OpenedRungs' = OpenedRungs \cup {<<FirstPlan[p], p>>}
              \/ \E k \in (Lessons \X Elsewhere) \ OpenedRungs :
                    OpenedRungs' = OpenedRungs \cup {k}
<1> DEFINE l == job[s].l
           p == job[s].p
<1>1. /\ l \in Scopes \cup {NoLesson} /\ p \in Places \cup {0}
      /\ p = 0 <=> l = NoLesson
      /\ job[s].file \in Files \cup {NoLesson}
      /\ p \in Positions =>
            /\ p \in DOMAIN plan /\ plan[p] = l
            /\ \A q \in 1..(p - 1) : Climbed(q)
  BY DEF StartStep, IInv, TypeOK, JobOK, Job
<1>2. UNCHANGED <<passed, cert>>
  BY DEF StartStep
<1>3. \A m \in Scopes, q \in Places :
          /\ Stored(m, q)' <=> Stored(m, q) \/ <<m, q>> \in Opening(s)
          /\ Completed(m, q)' <=> Completed(m, q)
  BY OpenedRows
<1>4. \A m \in Lessons, q \in Places : <<m, q>> \in Opening(s) <=> m = l /\ q = p
  BY <1>1, ScopeFacts DEF Opening
<1> HIDE DEF l, p
<1>5. UNCHANGED <<DoneRungs, Excused>>
  BY <1>3, ScopeFacts, SameDone DEF Excused
<1>6. \A m \in Lessons, q \in Places :
          Stored(m, q)' <=> Stored(m, q) \/ (m = l /\ q = p)
  BY <1>3, <1>4, ScopeFacts
<1>7. CASE l \notin Lessons \/ Stored(l, p)
  <2>1. \A m \in Lessons, q \in Places : Stored(m, q)' <=> Stored(m, q)
    BY <1>6, <1>7
  <2> QED
    BY <1>2, <1>5, <2>1, SameOpened
<1>8. CASE l \in Lessons /\ ~Stored(l, p)
  <2>1. p \in Places /\ (p \in Positions \/ p \in Elsewhere)
    BY <1>1, <1>8, ScopeFacts, LessonPlaces
  <2>2. OpenedRungs' = OpenedRungs \cup {<<l, p>>} /\ <<l, p>> \notin OpenedRungs
    BY <1>6, <1>8, <2>1 DEF OpenedRungs
  <2>3. CASE p \in Elsewhere
    BY <1>2, <1>5, <1>8, <2>2, <2>3
  <2>4. CASE p \in Positions
    <3>1. p \in Rungs /\ FirstPlan[p] = l /\ \A q \in 1..(p - 1) : Climbed(q)
      BY <1>1, <2>4, RungFacts DEF Rungs
    <3>2. ASSUME NEW q \in 1..(p - 1)
          PROVE  /\ q \in Rungs
                 /\ <<FirstPlan[q], q>> \in DoneRungs \/ (q = 1 /\ Excused)
      <4>1. q \in Rungs /\ q \in Places /\ FirstPlan[q] \in Lessons /\ plan = FirstPlan
        BY <3>1, RungFacts, ScopeFacts
      <4>2. Completed(FirstPlan[q], q) \/ (q = 1 /\ Excused)
        BY <3>1, <4>1 DEF Climbed, Excused
      <4> QED
        BY <4>1, <4>2 DEF DoneRungs
    <3> QED
      BY <1>2, <1>5, <2>2, <3>1, <3>2
  <2> QED
    BY <2>1, <2>3, <2>4
<1> QED
  BY <1>7, <1>8

LEMMA CompleteFileExcuses ==
    ASSUME IInv, NEW s \in Slots, CompleteFile(s)
    PROVE  Excused' = TRUE /\ UNCHANGED <<OpenedRungs, DoneRungs, passed, cert>>
<1> DEFINE l == job[s].l
           p == job[s].p
<1>1. /\ l \in Files /\ l \in Scopes /\ p \in Places /\ Stored(l, p)
      /\ steps' = [steps EXCEPT ![l][p].st = "completed"]
      /\ UNCHANGED <<passed, cert>>
  BY DEF CompleteFile, IInv, JobOK
<1> HIDE DEF l, p
<1>2. \A m \in Scopes, q \in Places :
          /\ Stored(m, q) <=> Stored(m, q)'
          /\ Completed(m, q)' <=> Completed(m, q) \/ (m = l /\ q = p)
  BY <1>1, CompletedRows
<1>3. p = 1
  BY <1>1 DEF IInv, FilesFirst
<1>4. Excused' = TRUE
  BY <1>1, <1>2, <1>3 DEF Excused
<1>5. UNCHANGED <<OpenedRungs, DoneRungs>>
  BY <1>1, <1>2, ScopeFacts, SameOpened, SameDone
<1> QED
  BY <1>1, <1>4, <1>5

LEMMA CommitStepCompletes ==
    ASSUME IInv, NEW s \in Slots, CommitStep(s)
    PROVE  \/ Stutter
           \/ /\ UNCHANGED <<OpenedRungs, Excused, passed>>
              /\ cert' = cert \/ ((HasAssessment => passed) /\ cert' = TRUE)
              /\ \/ DoneRungs # {} /\ DoneRungs' = DoneRungs
                 \/ \E k \in OpenedRungs \ DoneRungs : DoneRungs' = DoneRungs \cup {k}
<1> DEFINE l == job[s].l
           p == job[s].p
<1>1. /\ l \in Lessons /\ l \in Scopes /\ p \in Places /\ Stored(l, p)
      /\ job[s].newCert => (HasAssessment => passed)
  BY ScopeFacts DEF CommitStep, IInv, JobOK
<1>2. CASE job[s].newCert /\ cert
  BY <1>2, QuietStutter DEF CommitStep
<1>3. CASE ~(job[s].newCert /\ cert)
  <2>1. /\ steps' = [steps EXCEPT ![l][p].st = "completed"]
        /\ cert' = (cert \/ job[s].newCert) /\ passed' = passed
    BY <1>3 DEF CommitStep
  <2>2. cert \in BOOLEAN /\ job[s].newCert \in BOOLEAN
    BY DEF IInv, TypeOK, Job
  <2>3. cert' = cert \/ ((HasAssessment => passed) /\ cert' = TRUE)
    <3>1. CASE job[s].newCert
      BY <1>1, <2>1, <3>1
    <3>2. CASE ~job[s].newCert
      <4>1. cert' = (cert \/ FALSE)
        BY <2>1, <2>2, <3>2, Zenon
      <4> QED
        BY <2>2, <4>1
    <3> QED
      BY <3>1, <3>2
  <2> HIDE DEF l, p
  <2>4. \A m \in Scopes, q \in Places :
            /\ Stored(m, q) <=> Stored(m, q)'
            /\ Completed(m, q)' <=> Completed(m, q) \/ (m = l /\ q = p)
    BY <1>1, <2>1, CompletedRows
  <2>5. OpenedRungs' = OpenedRungs
    BY <2>4, ScopeFacts, SameOpened
  <2>6. Excused' = Excused
    <3>1. \A f \in Files : f \in Scopes /\ f # l
      BY <1>1, ScopeFacts
    <3>2. \A f \in Files : Completed(f, 1)' <=> Completed(f, 1)
      BY <2>4, <3>1, ScopeFacts
    <3> QED
      BY <3>2 DEF Excused
  <2>7. \A m \in Lessons, q \in Places :
            Completed(m, q)' <=> Completed(m, q) \/ (m = l /\ q = p)
    BY <2>4, ScopeFacts
  <2>8. <<l, p>> \in OpenedRungs /\ DoneRungs' = DoneRungs \cup {<<l, p>>}
    BY <1>1, <2>7 DEF OpenedRungs, DoneRungs
  <2>9. \/ DoneRungs # {} /\ DoneRungs' = DoneRungs
        \/ \E k \in OpenedRungs \ DoneRungs : DoneRungs' = DoneRungs \cup {k}
    BY <2>8
  <2> QED
    BY <2>1, <2>3, <2>5, <2>6, <2>9
<1> QED
  BY <1>2, <1>3

LEMMA CommitCertificateCertifies ==
    ASSUME IInv, NEW s \in Slots, CommitCertificate(s)
    PROVE  /\ DoneRungs # {} /\ (HasAssessment => passed) /\ cert' = TRUE
           /\ UNCHANGED <<OpenedRungs, DoneRungs, Excused, passed>>
<1>1. (HasAssessment => passed) /\ \E l \in Lessons, p \in Places : Completed(l, p)
  BY DEF CommitCertificate, IInv, JobOK
<1>2. DoneRungs # {}
  <2>1. PICK l \in Lessons, p \in Places : Completed(l, p)
    BY <1>1
  <2>2. <<l, p>> \in DoneRungs
    BY <2>1 DEF DoneRungs
  <2> QED
    BY <2>2
<1>3. steps' = steps /\ passed' = passed /\ cert' = TRUE
  BY DEF CommitCertificate
<1> QED
  BY <1>1, <1>2, <1>3, SameRungs DEF Stored, Completed

LEMMA CommitAssessmentPasses ==
    ASSUME IInv, NEW s \in Slots, CommitAssessment(s)
    PROVE  \/ Stutter
           \/ /\ HasAssessment /\ passed' = TRUE
              /\ UNCHANGED <<OpenedRungs, DoneRungs, Excused, cert>>
<1>1. /\ steps' = steps /\ cert' = cert
      /\ passed' = passed \/ passed' = (passed \/ job[s].yes)
  BY DEF CommitAssessment
<1>2. HasAssessment
  BY DEF CommitAssessment, Grading, IInv, JobOK
<1>3. passed' = passed \/ passed' = TRUE
  <2>1. passed \in BOOLEAN /\ job[s].yes \in BOOLEAN
    BY DEF IInv, TypeOK, Job
  <2> QED
    BY <1>1, <2>1, Zenon
<1>4. UNCHANGED <<OpenedRungs, DoneRungs, Excused>>
  BY <1>1, SameRungs DEF Stored, Completed
<1> QED
  BY <1>1, <1>2, <1>3, <1>4 DEF Stutter

-----------------------------------------------------------------------------
LEMMA StartsOnTheGround ==
    ASSUME Init
    PROVE  Ladder!Start
<1>1. \A l \in Scopes, p \in Places : ~Stored(l, p) /\ ~Completed(l, p)
  BY DEF Init, Stored, Completed, NoStep
<1> QED
  BY <1>1, ScopeFacts DEF Ladder!Start, Init

LEMMA EveryStepClimbs ==
    ASSUME ~EditPlan, IInv, [Next]_vars
    PROVE  [Ladder!Climb]_(Ladder!ladder)
<1>1. Stutter => UNCHANGED Ladder!ladder
  BY DEF Stutter, Ladder!ladder, OpenedRungs, DoneRungs, Excused
<1>2. ASSUME NEW s \in Slots, Request(s)
      PROVE  Stutter
  <2>1. UNCHANGED <<steps, passed, cert>>
    BY <1>2 DEF Request, ReadPlan, ReadPlanWithFile, BeginElsewhere, Begin, LoadStep,
                ReadCertificate, GradeAssessment, db
  <2> QED
    BY <2>1, QuietStutter
<1>3. ASSUME NEW s \in Slots, StartStep(s)
      PROVE  Stutter \/ Ladder!Climb
  <2>1. CASE OpenedRungs' = OpenedRungs
    BY <1>3, <2>1, StartStepOpens DEF Stutter
  <2>2. CASE \E p \in Rungs :
               /\ <<FirstPlan[p], p>> \notin OpenedRungs
               /\ \A q \in 1..(p - 1) :
                     /\ q \in Rungs
                     /\ <<FirstPlan[q], q>> \in DoneRungs \/ (q = 1 /\ Excused)
               /\ OpenedRungs' = OpenedRungs \cup {<<FirstPlan[p], p>>}
    BY <1>3, <2>2, StartStepOpens
       DEF Ladder!Climb, Ladder!Open, OpenedRungs, DoneRungs, Excused
  <2>3. CASE \E k \in (Lessons \X Elsewhere) \ OpenedRungs :
               OpenedRungs' = OpenedRungs \cup {k}
    BY <1>3, <2>3, StartStepOpens
       DEF Ladder!Climb, Ladder!StepAside, OpenedRungs, DoneRungs, Excused
  <2> QED
    BY <1>3, <2>1, <2>2, <2>3, StartStepOpens
<1>4. ASSUME NEW s \in Slots, CommitStep(s)
      PROVE  Stutter \/ Ladder!Climb
  BY <1>4, CommitStepCompletes
     DEF Ladder!Climb, Ladder!Complete, Ladder!Certify, Ladder!Award,
         OpenedRungs, DoneRungs, Excused
<1>5. ASSUME NEW s \in Slots, CommitCertificate(s)
      PROVE  Ladder!Climb
  BY <1>5, CommitCertificateCertifies
     DEF Ladder!Climb, Ladder!Certify, Ladder!Award, OpenedRungs, DoneRungs, Excused
<1>6. ASSUME NEW s \in Slots, CommitAssessment(s)
      PROVE  Stutter \/ Ladder!Climb
  BY <1>6, CommitAssessmentPasses
     DEF Ladder!Climb, Ladder!Pass, OpenedRungs, DoneRungs, Excused
<1>10. ASSUME NEW s \in Slots, CompleteFile(s)
       PROVE  Ladder!Climb
  BY <1>10, CompleteFileExcuses
     DEF Ladder!Climb, Ladder!Excuse, OpenedRungs, DoneRungs, Excused
<1>7. ASSUME NEW s \in Slots, Progress(s)
      PROVE  Stutter \/ Ladder!Climb
  <2>1. CASE \/ RefuseConfirmation(s) \/ CompleteStep(s) \/ TrackProgress(s)
             \/ RecalculateNextStep(s) \/ FlushProgress(s) \/ GiveUp(s)
    <3>1. UNCHANGED <<steps, passed, cert>>
      BY <2>1 DEF RefuseConfirmation, CompleteStep, TrackProgress,
                  RecalculateNextStep, FlushProgress, GiveUp, db
    <3> QED
      BY <3>1, QuietStutter
  <2>2. CASE SaveCheck(s)
    BY <2>2, SaveCheckStutter
  <2> QED
    BY <1>3, <1>4, <1>5, <1>6, <1>7, <1>10, <2>1, <2>2 DEF Progress
<1>8. CASE \/ (\E l \in Lessons : AddLesson(l))
           \/ (\E i, q \in Positions : MoveLesson(i, q))
  BY <1>8 DEF AddLesson, MoveLesson
<1>9. CASE Crash \/ UNCHANGED vars
  <2>1. UNCHANGED <<steps, passed, cert>>
    BY <1>9 DEF Crash, vars, db
  <2> QED
    BY <2>1, <1>1, QuietStutter
<1> QED
  BY <1>1, <1>2, <1>7, <1>8, <1>9 DEF Next

\* What the endpoints and the chats do to the steps, the attempts and the
\* certificate of a student is a climb of LessonLadder, for every course that
\* is not edited and any number of requests that interleave, fail or crash: the
\* steps of the course's teacher in order, but for a first one that a file may
\* stand in for, and those of teachers without a course at any time.
THEOREM LadderClimbed ==
    ASSUME ~EditPlan
    PROVE  Spec => ClimbsTheLadder
<1>1. Init => Ladder!Start
  BY StartsOnTheGround
<1>2. IInv /\ [Next]_vars => [Ladder!Climb]_(Ladder!ladder)
  BY EveryStepClimbs
<1> QED
  BY <1>1, <1>2, Invariance, PTL DEF Spec, ClimbsTheLadder, Ladder!Spec
=============================================================================
