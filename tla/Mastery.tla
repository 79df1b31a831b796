------------------------------- MODULE Mastery -------------------------------
(***************************************************************************)
(* One student learning one TOFAN course with its teacher agent: teaching  *)
(* steps opened lesson by lesson, the check of understanding, the          *)
(* student's confirmation, the learning progress derived from it, the      *)
(* course assessment and the certificate.                                  *)
(*                                                                         *)
(* Steps come about in two other ways.  A teacher agent that was given no  *)
(* TOFAN course (teacher_from_course) opens a step for any lesson at any   *)
(* position, and progress and certificate count it like the others; and a  *)
(* chat about a file of the academy opens a step of position 1 for the     *)
(* file, which begin_step takes for the first lesson.                      *)
(*                                                                         *)
(* As in Payments, a slot is a request in progress with a session of its   *)
(* own: it works on what it loaded, an UPDATE writes only the columns whose*)
(* value differs from the loaded one, what was written (a row, or with     *)
(* SQLite the whole database) stays locked until the commit, and a         *)
(* duplicate of a unique key fails the whole request.                      *)
(***************************************************************************)
EXTENDS Naturals, FiniteSets, Sequences

CONSTANTS
    Lessons,        \* lessons the course may have
    FirstPlan,      \* the lessons of the course in order, at the start
    EditPlan,       \* whether the administrator adds and reorders lessons
    HasAssessment,  \* the course has an assessment of type "course"
    Elsewhere,      \* teachers without a course, each with a position they use
    Asked,          \* lessons the student asks such a teacher for
    Files,          \* files of the academy the student has access to
    SingleWriter,   \* the database has one writer at a time (SQLite)
    Slots,          \* requests in progress at once
    NoLesson        \* lesson of an idle slot

\* The plan never holds a lesson twice: it has at most this many positions.
Positions == 1..Cardinality(Lessons)

\* What a step may be about, and where it may stand: at a position of the course's
\* teacher, or elsewhere.
Scopes == Lessons \cup Files
Places == Positions \cup {1} \cup Elsewhere

IsPlan(f) ==
    \E n \in 0..Cardinality(Lessons) :
        /\ f \in [1..n -> Lessons]
        /\ \A p, q \in 1..n : f[p] = f[q] => p = q

ASSUME PlanAssumption ==
    /\ IsFiniteSet(Lessons)
    /\ IsPlan(FirstPlan)
    /\ EditPlan \in BOOLEAN /\ HasAssessment \in BOOLEAN
    /\ SingleWriter \in BOOLEAN
    /\ NoLesson \notin Scopes
    /\ Asked \subseteq Lessons
    /\ Lessons \cap Files = {}
    /\ Elsewhere \cap (Positions \cup {0, 1}) = {}

VARIABLES
    plan,      \* CurriculumLesson rows, by unit and lesson position
    steps,     \* steps[l][p]: the TeachingStep with scope l and place p
    progress,  \* lessons whose LearningProgress row is completed
    next,      \* LearningNextStep.action, "none" before the row exists
    weak,      \* an unresolved LearningWeakPoint exists
    passed,    \* a passed attempt of the course assessment exists
    cert,      \* the student's certificate for the course exists
    job        \* what the request in each slot is doing

db   == <<steps, progress, next, weak, passed, cert>>
vars == <<plan, db, job>>

StepRow == [st : {"none", "active", "completed"}, ver : BOOLEAN]
NoStep  == [st |-> "none", ver |-> FALSE]

Action == {"remediate", "course_complete"}

Job == [pc : {"idle", "read", "write", "track", "recalc", "flush", "commit"},
        op : {"none", "open", "check", "confirm", "issue", "submit", "sit"},
        l : Scopes \cup {NoLesson}, p : Places \cup {0},
        file : Files \cup {NoLesson},  \* of which a step is opened as well
        yes : BOOLEAN,             \* verified, confirmed or passed
        snap : StepRow,            \* the step as loaded
        act : Action \cup {"keep"},\* next action decided, or left as it is
        newNext : BOOLEAN,         \* rows to be inserted, not updated
        newProgress : BOOLEAN,
        newCert : BOOLEAN]

NoJob == [pc |-> "idle", op |-> "none", l |-> NoLesson, p |-> 0,
          file |-> NoLesson, yes |-> FALSE, snap |-> NoStep, act |-> "keep",
          newNext |-> FALSE, newProgress |-> FALSE, newCert |-> FALSE]

TypeOK ==
    /\ IsPlan(plan)
    /\ steps \in [Scopes -> [Places -> StepRow]]
    /\ progress \subseteq Lessons
    /\ next \in Action \cup {"none"}
    /\ weak \in BOOLEAN
    /\ passed \in BOOLEAN
    /\ cert \in BOOLEAN
    /\ job \in [Slots -> Job]

Init ==
    /\ plan = FirstPlan
    /\ steps = [l \in Scopes |-> [p \in Places |-> NoStep]]
    /\ progress = {}
    /\ next = "none"
    /\ weak = FALSE
    /\ passed = FALSE
    /\ cert = FALSE
    /\ job = [s \in Slots |-> NoJob]

-----------------------------------------------------------------------------
Stored(l, p)    == steps[l][p].st # "none"
Completed(l, p) == steps[l][p].st = "completed"

\* completed_positions: positions alone, whatever lesson or file the step was for.
Done(p) == \E l \in Scopes : Completed(l, p)

Close(s) == job' = [job EXCEPT ![s] = NoJob]

\* The session in s has written what is not committed.
Writing(s) ==
    \/ job[s].pc \in {"recalc", "flush", "commit"}
    \/ job[s].pc = "track" /\ job[s].snap.st = "active"

\* A single writer keeps out every other one; authentication writes too, so
\* that no request starts meanwhile.
DatabaseFree == SingleWriter => \A r \in Slots : ~Writing(r)

\* An UPDATE of a step row waits for the session that completed the step.
RowFree(s) ==
    /\ DatabaseFree
    /\ \A r \in Slots \ {s} :
          /\ job[r].op = "confirm" /\ job[r].snap.st = "active"
          /\ job[r].pc \in {"track", "recalc", "flush", "commit"}
          => <<job[r].l, job[r].p>> # <<job[s].l, job[s].p>>

\* The progress row of the lesson is written by every confirmation.
ProgressFree(s) ==
    /\ job[s].snap.st = "completed" => DatabaseFree
    /\ \A r \in Slots \ {s} :
          job[r].op = "confirm" /\ job[r].pc \in {"recalc", "flush", "commit"}
          => job[r].l # job[s].l

-----------------------------------------------------------------------------
(* Opening a step: begin_step for the position the client names, and the   *)
(* chat for the first position that is not completed, which is one of them.*)

Begin(s, l, p, f) ==
    /\ job[s] = NoJob
    /\ DatabaseFree
    /\ job' = [job EXCEPT ![s] = [NoJob EXCEPT !.pc = "write", !.op = "open",
                                               !.l = l, !.p = p, !.file = f]]
    /\ UNCHANGED <<plan, db>>

ReadPlanUnchecked(s, p) ==  \* variant: previous lessons are not asked for
    /\ p \in DOMAIN plan
    /\ Begin(s, plan[p], p, NoLesson)

ReadPlan(s, p) ==
    /\ p \in DOMAIN plan
    /\ \A q \in 1..(p - 1) : Done(q)
    /\ Begin(s, plan[p], p, NoLesson)

\* A chat about a file opens the current lesson, if there is one, and the file.
ReadPlanWithFile(s, f) ==
    \/ \E p \in DOMAIN plan :
          /\ ~Done(p) /\ \A q \in 1..(p - 1) : Done(q)
          /\ Begin(s, plan[p], p, f)
    \/ /\ \A p \in DOMAIN plan : Done(p)
       /\ Begin(s, NoLesson, 0, f)

\* A teacher without a course looks at no plan.
BeginElsewhere(s, l, o) == Begin(s, l, o, NoLesson)

Opening(s) == {<<job[s].l, job[s].p>>, <<job[s].file, 1>>}

\* start_step returns the step it finds.
StartStep(s) ==
    /\ job[s].pc = "write" /\ job[s].op = "open"
    /\ DatabaseFree
    /\ steps' = [l \in Scopes |-> [p \in Places |->
                    IF <<l, p>> \in Opening(s) /\ ~Stored(l, p)
                      THEN [st |-> "active", ver |-> FALSE] ELSE steps[l][p]]]
    /\ Close(s)
    /\ UNCHANGED <<plan, progress, next, weak, passed, cert>>

-----------------------------------------------------------------------------
(* Understanding and confirmation of a step the student has.               *)

LoadStep(s, o, l, p, yes) ==
    /\ job[s] = NoJob
    /\ DatabaseFree
    /\ Stored(l, p)
    /\ job' = [job EXCEPT ![s] = [NoJob EXCEPT !.pc = "read", !.op = o,
                                    !.l = l, !.p = p, !.yes = yes,
                                    !.snap = steps[l][p]]]
    /\ UNCHANGED <<plan, db>>

SaveCheckReset(s) ==  \* variant: a check makes the step active again
    /\ job[s].pc = "read" /\ job[s].op = "check"
    /\ RowFree(s)
    /\ steps' = IF job[s].yes = job[s].snap.ver THEN steps
                ELSE [steps EXCEPT ![job[s].l][job[s].p] =
                          [st |-> "active", ver |-> job[s].yes]]
    /\ Close(s)
    /\ UNCHANGED <<plan, progress, next, weak, passed, cert>>

\* record_understanding_check: the column is written if it changes; the
\* counter of attempts always is, hence the lock.  A step already completed
\* is checked like any other.
SaveCheck(s) ==
    /\ job[s].pc = "read" /\ job[s].op = "check"
    /\ RowFree(s)
    /\ steps' = IF job[s].yes = job[s].snap.ver THEN steps
                ELSE [steps EXCEPT ![job[s].l][job[s].p].ver = job[s].yes]
    /\ Close(s)
    /\ UNCHANGED <<plan, progress, next, weak, passed, cert>>

\* confirm_student_understanding without an effect: the student does not
\* confirm, or the teacher has not verified.
RefuseConfirmation(s) ==
    /\ job[s].pc = "read" /\ job[s].op = "confirm"
    /\ job[s].snap.st = "active"
    /\ ~job[s].yes \/ ~job[s].snap.ver
    /\ Close(s)
    /\ UNCHANGED <<plan, db>>

\* The step of a file is completed, and nothing follows from it: its scope
\* names no course.
CompleteFile(s) ==
    /\ job[s].pc = "read" /\ job[s].op = "confirm" /\ job[s].l \in Files
    /\ job[s].snap.st = "completed" \/ (job[s].yes /\ job[s].snap.ver)
    /\ job[s].snap.st = "active" => RowFree(s)
    /\ steps' = [steps EXCEPT ![job[s].l][job[s].p].st = "completed"]
    /\ Close(s)
    /\ UNCHANGED <<plan, progress, next, weak, passed, cert>>

\* The step is completed (and its row locked), or it was already; then
\* sync_lesson_progress looks for the progress row of the lesson.
CompleteStep(s) ==
    /\ job[s].pc = "read" /\ job[s].op = "confirm" /\ job[s].l \in Lessons
    /\ job[s].snap.st = "completed" \/ (job[s].yes /\ job[s].snap.ver)
    /\ job[s].snap.st = "active" => RowFree(s)
    /\ job' = [job EXCEPT ![s].pc = "track",
                          ![s].newProgress = (job[s].l \notin progress)]
    /\ UNCHANGED <<plan, db>>

\* _recalculate_next_step: every tracked lesson is a completed one.
NextAction(w) == IF w THEN "remediate" ELSE "course_complete"

\* The progress row is written, unless another session committed the row
\* this one inserts; then the weak points are read ...
TrackProgress(s) ==
    /\ job[s].pc = "track"
    /\ ProgressFree(s)
    /\ IF job[s].newProgress /\ job[s].l \in progress
         THEN Close(s)
         ELSE job' = [job EXCEPT ![s].pc = "recalc", ![s].act = NextAction(weak)]
    /\ UNCHANGED <<plan, db>>

\* ... and after them the next-step row, to be inserted, or to be given the
\* action if it differs.
RecalculateNextStep(s) ==
    /\ job[s].pc = "recalc"
    /\ job' = [job EXCEPT ![s].pc = "flush",
                          ![s].act = IF next = @ THEN "keep" ELSE @,
                          ![s].newNext = (next = "none")]
    /\ UNCHANGED <<plan, db>>

\* The next-step row this session inserts was committed by another one.
DuplicateNext(s) == job[s].newNext /\ next # "none"

\* The next-step row is touched by every recalculation, so that a session
\* flushing it waits for the one that has it.
NextRowFreeNoLock(s) == TRUE  \* variant: an unchanged row is not written

NextRowFree(s) ==
    \A r \in Slots \ {s} : ~(job[r].pc = "commit" /\ job[r].op = "confirm")

\* issue_course_certificate: the steps that are STORED are all completed,
\* the one this session completes included.
CertifiedUngraded(own) ==  \* variant: the assessment is not asked for
    LET opened == {k \in Lessons \X Places : Stored(k[1], k[2])} IN
    /\ opened # {}
    /\ \A k \in opened : Completed(k[1], k[2]) \/ k = own

Certified(own) ==
    LET opened == {k \in Lessons \X Places : Stored(k[1], k[2])} IN
    /\ opened # {}
    /\ \A k \in opened : Completed(k[1], k[2]) \/ k = own
    /\ HasAssessment => passed

FlushProgress(s) ==
    /\ job[s].pc = "flush" /\ job[s].op = "confirm"
    /\ NextRowFree(s)
    /\ IF DuplicateNext(s)
         THEN Close(s)
         ELSE job' = [job EXCEPT ![s].pc = "commit",
                                ![s].newCert =
                                    ~cert /\ Certified(<<job[s].l, job[s].p>>)]
    /\ UNCHANGED <<plan, db>>

WriteNext(s) == next' = IF job[s].act = "keep" THEN next ELSE job[s].act

\* A second certificate of the course violates the unique key and takes the
\* completion of the step with it.
CommitStep(s) ==
    /\ job[s].pc = "commit" /\ job[s].op = "confirm"
    /\ IF job[s].newCert /\ cert
         THEN UNCHANGED <<steps, progress, next, cert>>
         ELSE /\ steps' = [steps EXCEPT ![job[s].l][job[s].p].st = "completed"]
              /\ progress' = progress \cup {job[s].l}
              /\ WriteNext(s)
              /\ cert' = (cert \/ job[s].newCert)
    /\ Close(s)
    /\ UNCHANGED <<plan, weak, passed>>

-----------------------------------------------------------------------------
(* Certificates on demand, and the assessment of the course.               *)

ReadCertificate(s) ==
    /\ job[s] = NoJob
    /\ DatabaseFree
    /\ ~cert /\ Certified(<<NoLesson, 0>>)
    /\ job' = [job EXCEPT ![s] = [NoJob EXCEPT !.pc = "commit", !.op = "issue",
                                               !.newCert = TRUE]]
    /\ UNCHANGED <<plan, db>>

\* Where the certificate was issued meanwhile the insert fails.
CommitCertificate(s) ==
    /\ job[s].pc = "commit" /\ job[s].op = "issue"
    /\ cert' = TRUE
    /\ Close(s)
    /\ UNCHANGED <<plan, steps, progress, next, weak, passed>>

\* The teacher's and the student's own endpoint ("submit" and "sit") grade
\* the answers; a failed attempt leaves a weak point.  It has no lesson, so
\* no progress row is touched.
GradeAssessment(s, o, yes) ==
    /\ job[s] = NoJob
    /\ DatabaseFree
    /\ HasAssessment
    /\ job' = [job EXCEPT ![s] = [NoJob EXCEPT !.pc = "recalc", !.op = o,
                                    !.yes = yes,
                                    !.act = NextAction(weak \/ ~yes)]]
    /\ UNCHANGED <<plan, db>>

Grading(s, l) == job[s].pc = l /\ job[s].op \in {"submit", "sit"}

\* The event of "submit" is processed before anything is committed, and
\* raises unless the manager is active, which is Assessments' business: here
\* it may be inactive at any time; "sit" commits first.
AttemptKept(s, active) ==
    /\ job[s].op = "submit" => active
    /\ ~DuplicateNext(s)

CommitAssessmentForgetful(s) ==  \* variant: the next step is not written
    /\ Grading(s, "flush")
    /\ NextRowFree(s)
    /\ \E active \in BOOLEAN :
          IF AttemptKept(s, active)
            THEN /\ passed' = (passed \/ job[s].yes)
                 /\ weak' = (weak \/ ~job[s].yes)
            ELSE UNCHANGED <<passed, weak>>
    /\ Close(s)
    /\ UNCHANGED <<plan, steps, progress, next, cert>>

CommitAssessment(s) ==
    /\ Grading(s, "flush")
    /\ NextRowFree(s)
    /\ \E active \in BOOLEAN :
          IF AttemptKept(s, active)
            THEN /\ passed' = (passed \/ job[s].yes)
                 /\ weak' = (weak \/ ~job[s].yes)
                 /\ WriteNext(s)
            ELSE UNCHANGED <<passed, weak, next>>
    /\ Close(s)
    /\ UNCHANGED <<plan, steps, progress, cert>>

-----------------------------------------------------------------------------
(* The database gives up a session that waits for the writer too long; the *)
(* process dies; the administrator edits the course.                       *)

GiveUp(s) ==
    /\ ~DatabaseFree
    /\ job[s].pc \in {"read", "write"} \/ (job[s].pc = "track" /\ ~Writing(s))
    /\ Close(s)
    /\ UNCHANGED <<plan, db>>

Crash ==
    /\ \E s \in Slots : job[s] # NoJob
    /\ job' = [s \in Slots |-> NoJob]
    /\ UNCHANGED <<plan, db>>

\* The last guard follows from the one before.
AddLesson(l) ==
    /\ EditPlan
    /\ DatabaseFree
    /\ \A p \in DOMAIN plan : plan[p] # l
    /\ Len(plan) + 1 \in Positions
    /\ plan' = Append(plan, l)
    /\ UNCHANGED <<db, job>>

\* The lesson at position i moves to position q, the others close up.
MoveLesson(i, q) ==
    /\ EditPlan
    /\ DatabaseFree
    /\ i \in DOMAIN plan /\ q \in DOMAIN plan /\ i # q
    /\ plan' = [p \in DOMAIN plan |->
                  IF p = q THEN plan[i]
                  ELSE IF i <= p /\ p < q THEN plan[p + 1]
                  ELSE IF q < p /\ p <= i THEN plan[p - 1]
                  ELSE plan[p]]
    /\ UNCHANGED <<db, job>>

-----------------------------------------------------------------------------
Request(s) ==
    /\ job[s] = NoJob
    /\ \/ \E p \in Positions : ReadPlan(s, p)
       \/ \E f \in Files : ReadPlanWithFile(s, f)
       \/ \E l \in Asked, o \in Elsewhere : BeginElsewhere(s, l, o)
       \/ \E l \in Scopes, p \in Places :
             /\ Stored(l, p)
             /\ \E o \in {"check", "confirm"}, yes \in BOOLEAN :
                   LoadStep(s, o, l, p, yes)
       \/ ReadCertificate(s)
       \/ \E o \in {"submit", "sit"}, yes \in BOOLEAN : GradeAssessment(s, o, yes)

Progress(s) ==
    \/ StartStep(s)
    \/ SaveCheck(s)
    \/ RefuseConfirmation(s)
    \/ CompleteFile(s)
    \/ CompleteStep(s)
    \/ TrackProgress(s)
    \/ RecalculateNextStep(s)
    \/ FlushProgress(s)
    \/ CommitStep(s)
    \/ CommitCertificate(s)
    \/ CommitAssessment(s)
    \/ GiveUp(s)

Next ==
    \/ \E s \in Slots : Request(s) \/ Progress(s)
    \/ \E l \in Lessons : AddLesson(l)
    \/ \E i, q \in Positions : MoveLesson(i, q)
    \/ Crash

Spec == Init /\ [][Next]_vars

-----------------------------------------------------------------------------
(* Properties.                                                             *)

\* While the course is not edited, a student has a step with the course's teacher
\* only at the position of its lesson, and only if every lesson before it is
\* completed with that teacher, the first one by a file perhaps.  begin_step and the
\* chat check this on what they read, and open the step later
\* (teacher_teaching.begin_step, teacher_chat.chat_with_teacher).
Climbed(q) == \/ Completed(plan[q], q)
              \/ q = 1 /\ \E f \in Files : Completed(f, 1)

StepsInOrder ==
    ~EditPlan =>
        \A l \in Lessons, p \in Positions : Stored(l, p) =>
            /\ p \in DOMAIN plan /\ plan[p] = l
            /\ \A q \in 1..(p - 1) : Climbed(q)

\* A certificate means a completed step and, where the course has an
\* assessment, a passed attempt, although the two are checked by the session
\* that completes a step as well as on demand (issue_course_certificate).
CertificateNeedsPass ==
    cert => /\ \E l \in Lessons, p \in Places : Completed(l, p)
            /\ HasAssessment => passed

\* The progress shown to the student and to the main manager is what the
\* steps say: a request that fails after completing the step keeps neither.
ProgressMatchesSteps ==
    \A l \in Lessons :
        l \in progress <=> \E p \in Places : Completed(l, p)

\* In a course without assessment the certificate comes with the last
\* completed step, without being asked for, also when two steps are
\* confirmed at once: the next-step row makes the second session wait, and
\* read the steps after the first one has committed.
CompletionIsCertified ==
    ~HasAssessment /\ Certified(<<NoLesson, 0>>) => cert

\* The next step shown to the student asks for remediation exactly when a
\* weak point is unresolved, whatever kind of request came last.
NextStepIsCurrent == next # "none" => next = NextAction(weak)

\* A step once completed is never active again, whatever a check or a
\* confirmation that loaded it earlier writes.
CompletionIsFinal ==
    [][\A l \in Scopes, p \in Places :
          Completed(l, p) => Completed(l, p)']_vars

\* A certificate means that the course was completed: every lesson of it.
CertificateIsEarned ==
    cert => \A p \in DOMAIN plan : plan[p] \in progress

-----------------------------------------------------------------------------
(* The promise of LessonLadder, seen through the stored rows.              *)

Rungs == DOMAIN FirstPlan

Ladder == INSTANCE LessonLadder WITH
    Course     <- [p \in Rungs |-> <<FirstPlan[p], p>>],
    Aside      <- Lessons \X Elsewhere,
    Exam       <- HasAssessment,
    opened     <- {k \in Lessons \X Places : Stored(k[1], k[2])},
    done       <- {k \in Lessons \X Places : Completed(k[1], k[2])},
    excused    <- (\E f \in Files : Completed(f, 1)),
    examPassed <- passed,
    certified  <- cert

\* While the course is not edited, what the endpoints do to the steps, the
\* attempts and the certificate of a student is a climb of LessonLadder,
\* however the requests interleave, fail and crash.
ClimbsTheLadder == Ladder!Spec

-----------------------------------------------------------------------------
(* The inductive invariant behind the safety properties.                   *)

\* What the request in a slot has read and still holds of the database.
JobOK(s) ==
    LET j == job[s] IN
    /\ j = NoJob \/ j.pc # "idle"
    /\ j.op = "open" =>
          j.pc = "write" /\ (j.p = 0 <=> j.l = NoLesson) /\ j.l \notin Files
    /\ j.op = "open" /\ j.p \in Positions /\ ~EditPlan =>
          /\ j.p \in DOMAIN plan /\ plan[j.p] = j.l
          /\ \A q \in 1..(j.p - 1) : Climbed(q)
    /\ j.op \in {"check", "confirm"} =>
          /\ j.l \in Scopes /\ j.p \in Places
          /\ j.pc # "read" => j.l \in Lessons
          /\ Stored(j.l, j.p)
          /\ j.snap.st = "completed" => Completed(j.l, j.p)
    /\ j.op \in {"submit", "sit"} => HasAssessment
    /\ j.newCert => (HasAssessment => passed)
    /\ j.pc = "commit" => j.op \in {"confirm", "issue"}
    /\ j.op = "issue" => j.newCert
    /\ j.op = "issue" => \E l \in Lessons, p \in Places : Completed(l, p)

\* A chat opens a file's step where the first lesson's would stand.
FilesFirst == \A f \in Files, p \in Places : Stored(f, p) => p = 1

IInv ==
    /\ TypeOK
    /\ ~EditPlan => plan = FirstPlan
    /\ \A s \in Slots : JobOK(s)
    /\ FilesFirst
    /\ StepsInOrder
    /\ CertificateNeedsPass
    /\ ProgressMatchesSteps

\* What the requests know of the next step where one session at a time writes:
\* from the weak points it has read on, no other session changes them or the
\* next-step row, so that what a request writes, or leaves, is current.
Decision(s) == NextAction(weak \/ (job[s].op # "confirm" /\ ~job[s].yes))

DecisionOK(s) ==
    /\ job[s].op = "confirm" => job[s].snap.st # "none"
    /\ job[s].pc = "track" => job[s].op = "confirm"
    /\ job[s].pc = "recalc" => job[s].act = Decision(s)
    /\ job[s].pc \in {"flush", "commit"} /\ job[s].op # "issue" =>
          IF job[s].act = "keep" THEN next = Decision(s) ELSE job[s].act = Decision(s)

NextInv ==
    /\ NextStepIsCurrent
    /\ \A r, s \in Slots : Writing(r) /\ Writing(s) => r = s
    /\ \A s \in Slots : DecisionOK(s)

\* What a confirmation about to be committed knows of the certificate of a
\* course without assessment: it issues one, finds it issued, or leaves a step
\* open that only a later confirmation completes.
Committing(s) == job[s].pc = "commit" /\ job[s].op = "confirm"

Unfinished(l, p) == Stored(l, p) /\ ~Completed(l, p)

CertificateOK(s) ==
    \/ cert \/ job[s].newCert
    \/ \E l \in Lessons, p \in Places :
          Unfinished(l, p) /\ <<l, p>> # <<job[s].l, job[s].p>>

CertificateInv ==
    /\ CompletionIsCertified
    /\ \A r, s \in Slots : Committing(r) /\ Committing(s) => r = s
    /\ ~HasAssessment => \A s \in Slots : Committing(s) => CertificateOK(s)
=============================================================================
