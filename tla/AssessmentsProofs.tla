-------------------------- MODULE AssessmentsProofs --------------------------
(***************************************************************************)
(* Proofs about Assessments, for any papers, attempts and requests at      *)
(* once: the inductive invariant, that every student is graded with the    *)
(* questions that were shown, that an attempt is graded once, that a       *)
(* completion is reported for a passed attempt only and that no verdict    *)
(* is lost.                                                                *)
(***************************************************************************)
EXTENDS Assessments, TLAPS

LEMMA IdleJob == NoJob \in Job /\ NoJob.pc = "idle"
BY DEF NoJob, Job, Verdicts

\* A request for questions, and one that submits, are jobs.
LEMMA AskingJob ==
    ASSUME NEW w \in BOOLEAN
    PROVE  [NoJob EXCEPT !.pc = "ask", !.writing = w] \in Job
BY DEF NoJob, Job, Verdicts

LEMMA SubmittingJob ==
    ASSUME NEW a \in Attempts, NEW v \in Verdicts
    PROVE  [NoJob EXCEPT !.pc = "submit", !.attempt = a, !.verdict = v] \in Job
BY DEF NoJob, Job, Verdicts

-----------------------------------------------------------------------------
(* The actions: each preserves every conjunct of the invariant.            *)

\* The stored questions are shown: no other paper can be stored later.
LEMMA ShowPaperKeeps ==
    ASSUME IInv, NEW s \in Slots, ShowPaper(s)
    PROVE  IInv'
<1> USE DEF IInv, ShowPaper, Begin, rows, history
<1>1. TypeOK'
  BY AbsentAssumption DEF TypeOK, Job, JobsAreSound, JobIsSound, Verdicts
<1>2. JobsAreSound'
  BY AbsentAssumption DEF TypeOK, Job, JobsAreSound, JobIsSound, SharedAttemptIsMarked,
     Graded, Verdicts
<1>3. SharedAttemptIsMarked'
  BY AbsentAssumption DEF TypeOK, Job, JobsAreSound, JobIsSound, SharedAttemptIsMarked,
     Graded, Verdicts
<1>4. ReportsAreAlone'
  BY AbsentAssumption DEF TypeOK, Job, JobsAreSound, JobIsSound, SharedAttemptIsMarked,
     Graded, Verdicts, ReportsAreAlone
<1>5. EventsHaveAttempts'
  BY AbsentAssumption DEF TypeOK, Job, JobsAreSound, JobIsSound, SharedAttemptIsMarked,
     Graded, Verdicts, EventsHaveAttempts
<1>6. ShownIsGraded'
  BY AbsentAssumption DEF TypeOK, Job, JobsAreSound, JobIsSound, SharedAttemptIsMarked,
     Graded, Verdicts, ShownIsGraded
<1>7. CompletionIsPassed'
  BY AbsentAssumption DEF TypeOK, Job, JobsAreSound, JobIsSound, SharedAttemptIsMarked,
     Graded, Verdicts, CompletionIsPassed, EventsHaveAttempts
<1>8. VerdictsAreAnnounced'
  BY AbsentAssumption DEF TypeOK, Job, JobsAreSound, JobIsSound, SharedAttemptIsMarked,
     Graded, Verdicts, VerdictsAreAnnounced, Ending, ReportsAreAlone
<1> QED
  BY <1>1, <1>2, <1>3, <1>4, <1>5, <1>6, <1>7, <1>8

LEMMA AskModelKeeps ==
    ASSUME IInv, NEW s \in Slots, AskModel(s)
    PROVE  IInv'
<1> USE DEF IInv, AskModel, Begin, rows, history
<1>1. TypeOK'
  <2> USE DEF TypeOK
  <2>1. job' \in [Slots -> Job]
    <3>1. PICK w \in BOOLEAN : job' = [job EXCEPT ![s] = [NoJob EXCEPT !.pc = "ask", !.writing = w]]
      OBVIOUS
    <3>2. [NoJob EXCEPT !.pc = "ask", !.writing = w] \in Job
      BY AskingJob
    <3> QED
      BY <3>1, <3>2
  <2>2. paper' \in Papers \cup {NoPaper} /\ shown' \subseteq Papers /\ active' \subseteq {"manager", "teacher"}
    OBVIOUS
  <2>3. attempt' \in [Attempts -> {"none", "started"} \cup Verdicts]
    BY DEF JobsAreSound, JobIsSound, Job, Verdicts
  <2>4. events' \subseteq Attempts \X Verdicts
    BY DEF JobsAreSound, JobIsSound, Job, Verdicts
  <2>5. reports' \subseteq Attempts /\ twice' \subseteq Attempts /\ cut' \subseteq Attempts
        /\ decided' \subseteq Attempts
    BY DEF JobsAreSound, JobIsSound
  <2> QED
    BY <2>1, <2>2, <2>3, <2>4, <2>5
<1>2. JobsAreSound'
  BY AbsentAssumption DEF TypeOK, Job, JobsAreSound, JobIsSound, SharedAttemptIsMarked,
     Graded, Verdicts, NoJob
<1>3. SharedAttemptIsMarked'
  BY AbsentAssumption DEF TypeOK, Job, JobsAreSound, JobIsSound, SharedAttemptIsMarked,
     Graded, Verdicts, NoJob
<1>4. ReportsAreAlone'
  BY AbsentAssumption DEF TypeOK, Job, JobsAreSound, JobIsSound, SharedAttemptIsMarked,
     Graded, Verdicts, ReportsAreAlone, NoJob
<1>5. EventsHaveAttempts'
  BY AbsentAssumption DEF TypeOK, Job, JobsAreSound, JobIsSound, SharedAttemptIsMarked,
     Graded, Verdicts, EventsHaveAttempts, NoJob
<1>6. ShownIsGraded'
  BY AbsentAssumption DEF TypeOK, Job, JobsAreSound, JobIsSound, SharedAttemptIsMarked,
     Graded, Verdicts, ShownIsGraded, NoJob
<1>7. CompletionIsPassed'
  BY AbsentAssumption DEF TypeOK, Job, JobsAreSound, JobIsSound, SharedAttemptIsMarked,
     Graded, Verdicts, CompletionIsPassed, EventsHaveAttempts, NoJob
<1>8. VerdictsAreAnnounced'
  BY AbsentAssumption DEF TypeOK, Job, JobsAreSound, JobIsSound, SharedAttemptIsMarked,
     Graded, Verdicts, VerdictsAreAnnounced, Ending, ReportsAreAlone, NoJob
<1> QED
  BY <1>1, <1>2, <1>3, <1>4, <1>5, <1>6, <1>7, <1>8

\* Only the first paper is stored, so that nobody was shown another one.
LEMMA StorePaperKeeps ==
    ASSUME IInv, NEW s \in Slots, StorePaper(s)
    PROVE  IInv'
<1> USE DEF IInv, StorePaper, Close, NoJob, history
<1>1. TypeOK'
  <2> USE DEF TypeOK
  <2>1. job' \in [Slots -> Job]
    BY IdleJob
  <2>2. paper' \in Papers \cup {NoPaper} /\ shown' \subseteq Papers /\ active' \subseteq {"manager", "teacher"}
    OBVIOUS
  <2>3. attempt' \in [Attempts -> {"none", "started"} \cup Verdicts]
    BY DEF JobsAreSound, JobIsSound, Job, Verdicts
  <2>4. events' \subseteq Attempts \X Verdicts
    BY DEF JobsAreSound, JobIsSound, Job, Verdicts
  <2>5. reports' \subseteq Attempts /\ twice' \subseteq Attempts /\ cut' \subseteq Attempts
        /\ decided' \subseteq Attempts
    BY DEF JobsAreSound, JobIsSound
  <2> QED
    BY <2>1, <2>2, <2>3, <2>4, <2>5
<1>2. JobsAreSound'
  BY AbsentAssumption DEF TypeOK, Job, JobsAreSound, JobIsSound, SharedAttemptIsMarked,
     Graded, Verdicts
<1>3. SharedAttemptIsMarked'
  BY AbsentAssumption DEF TypeOK, Job, JobsAreSound, JobIsSound, SharedAttemptIsMarked,
     Graded, Verdicts
<1>4. ReportsAreAlone'
  BY AbsentAssumption DEF TypeOK, Job, JobsAreSound, JobIsSound, SharedAttemptIsMarked,
     Graded, Verdicts, ReportsAreAlone
<1>5. EventsHaveAttempts'
  BY AbsentAssumption DEF TypeOK, Job, JobsAreSound, JobIsSound, SharedAttemptIsMarked,
     Graded, Verdicts, EventsHaveAttempts
<1>6. ShownIsGraded'
  BY AbsentAssumption DEF TypeOK, Job, JobsAreSound, JobIsSound, SharedAttemptIsMarked,
     Graded, Verdicts, ShownIsGraded
<1>7. CompletionIsPassed'
  BY AbsentAssumption DEF TypeOK, Job, JobsAreSound, JobIsSound, SharedAttemptIsMarked,
     Graded, Verdicts, CompletionIsPassed, EventsHaveAttempts
<1>8. VerdictsAreAnnounced'
  BY AbsentAssumption DEF TypeOK, Job, JobsAreSound, JobIsSound, SharedAttemptIsMarked,
     Graded, Verdicts, VerdictsAreAnnounced, Ending, ReportsAreAlone
<1> QED
  BY <1>1, <1>2, <1>3, <1>4, <1>5, <1>6, <1>7, <1>8

LEMMA FailModelKeeps ==
    ASSUME IInv, NEW s \in Slots, FailModel(s)
    PROVE  IInv'
<1> USE DEF IInv, FailModel, Close, NoJob, rows, history
<1>1. TypeOK'
  <2> USE DEF TypeOK
  <2>1. job' \in [Slots -> Job]
    BY IdleJob
  <2>2. paper' \in Papers \cup {NoPaper} /\ shown' \subseteq Papers /\ active' \subseteq {"manager", "teacher"}
    OBVIOUS
  <2>3. attempt' \in [Attempts -> {"none", "started"} \cup Verdicts]
    BY DEF JobsAreSound, JobIsSound, Job, Verdicts
  <2>4. events' \subseteq Attempts \X Verdicts
    BY DEF JobsAreSound, JobIsSound, Job, Verdicts
  <2>5. reports' \subseteq Attempts /\ twice' \subseteq Attempts /\ cut' \subseteq Attempts
        /\ decided' \subseteq Attempts
    BY DEF JobsAreSound, JobIsSound
  <2> QED
    BY <2>1, <2>2, <2>3, <2>4, <2>5
<1>2. JobsAreSound'
  BY AbsentAssumption DEF TypeOK, Job, JobsAreSound, JobIsSound, SharedAttemptIsMarked,
     Graded, Verdicts
<1>3. SharedAttemptIsMarked'
  BY AbsentAssumption DEF TypeOK, Job, JobsAreSound, JobIsSound, SharedAttemptIsMarked,
     Graded, Verdicts
<1>4. ReportsAreAlone'
  BY AbsentAssumption DEF TypeOK, Job, JobsAreSound, JobIsSound, SharedAttemptIsMarked,
     Graded, Verdicts, ReportsAreAlone
<1>5. EventsHaveAttempts'
  BY AbsentAssumption DEF TypeOK, Job, JobsAreSound, JobIsSound, SharedAttemptIsMarked,
     Graded, Verdicts, EventsHaveAttempts
<1>6. ShownIsGraded'
  BY AbsentAssumption DEF TypeOK, Job, JobsAreSound, JobIsSound, SharedAttemptIsMarked,
     Graded, Verdicts, ShownIsGraded
<1>7. CompletionIsPassed'
  BY AbsentAssumption DEF TypeOK, Job, JobsAreSound, JobIsSound, SharedAttemptIsMarked,
     Graded, Verdicts, CompletionIsPassed, EventsHaveAttempts
<1>8. VerdictsAreAnnounced'
  BY AbsentAssumption DEF TypeOK, Job, JobsAreSound, JobIsSound, SharedAttemptIsMarked,
     Graded, Verdicts, VerdictsAreAnnounced, Ending, ReportsAreAlone
<1> QED
  BY <1>1, <1>2, <1>3, <1>4, <1>5, <1>6, <1>7, <1>8

\* A new attempt is nobody's.
LEMMA StartKeeps ==
    ASSUME IInv, NEW s \in Slots, NEW a \in Attempts, Start(s, a)
    PROVE  IInv'
<1> USE DEF IInv, Start, Begin, Unused, history
<1>1. TypeOK'
  BY AbsentAssumption DEF TypeOK, Job, JobsAreSound, JobIsSound, Verdicts
<1>2. JobsAreSound'
  BY AbsentAssumption DEF TypeOK, Job, JobsAreSound, JobIsSound, SharedAttemptIsMarked,
     Graded, Verdicts
<1>3. SharedAttemptIsMarked'
  BY AbsentAssumption DEF TypeOK, Job, JobsAreSound, JobIsSound, SharedAttemptIsMarked,
     Graded, Verdicts
<1>4. ReportsAreAlone'
  BY AbsentAssumption DEF TypeOK, Job, JobsAreSound, JobIsSound, SharedAttemptIsMarked,
     Graded, Verdicts, ReportsAreAlone
<1>5. EventsHaveAttempts'
  BY AbsentAssumption DEF TypeOK, Job, JobsAreSound, JobIsSound, SharedAttemptIsMarked,
     Graded, Verdicts, EventsHaveAttempts
<1>6. ShownIsGraded'
  BY AbsentAssumption DEF TypeOK, Job, JobsAreSound, JobIsSound, SharedAttemptIsMarked,
     Graded, Verdicts, ShownIsGraded
<1>7. CompletionIsPassed'
  BY AbsentAssumption DEF TypeOK, Job, JobsAreSound, JobIsSound, SharedAttemptIsMarked,
     Graded, Verdicts, CompletionIsPassed, EventsHaveAttempts
<1>8. VerdictsAreAnnounced'
  BY AbsentAssumption DEF TypeOK, Job, JobsAreSound, JobIsSound, SharedAttemptIsMarked,
     Graded, Verdicts, VerdictsAreAnnounced, Ending, ReportsAreAlone
<1> QED
  BY <1>1, <1>2, <1>3, <1>4, <1>5, <1>6, <1>7, <1>8

\* Whoever else holds the attempt was submitting it too, and it is marked.
LEMMA LoadAttemptKeeps ==
    ASSUME IInv, NEW s \in Slots, NEW a \in Attempts, LoadAttempt(s, a)
    PROVE  IInv'
<1> USE DEF IInv, LoadAttempt, Begin, Active, Unused, rows, history
<1>1. TypeOK'
  <2> USE DEF TypeOK
  <2>1. job' \in [Slots -> Job]
    <3>1. PICK v \in Verdicts : job' = [job EXCEPT ![s] = [NoJob EXCEPT !.pc = "submit", !.attempt = a, !.verdict = v]]
      OBVIOUS
    <3>2. [NoJob EXCEPT !.pc = "submit", !.attempt = a, !.verdict = v] \in Job
      BY SubmittingJob
    <3> QED
      BY <3>1, <3>2
  <2>2. paper' \in Papers \cup {NoPaper} /\ shown' \subseteq Papers /\ active' \subseteq {"manager", "teacher"}
    OBVIOUS
  <2>3. attempt' \in [Attempts -> {"none", "started"} \cup Verdicts]
    BY DEF JobsAreSound, JobIsSound, Job, Verdicts
  <2>4. events' \subseteq Attempts \X Verdicts
    BY DEF JobsAreSound, JobIsSound, Job, Verdicts
  <2>5. reports' \subseteq Attempts /\ twice' \subseteq Attempts /\ cut' \subseteq Attempts
        /\ decided' \subseteq Attempts
    BY DEF JobsAreSound, JobIsSound
  <2> QED
    BY <2>1, <2>2, <2>3, <2>4, <2>5
<1>2. JobsAreSound'
  BY AbsentAssumption DEF TypeOK, Job, JobsAreSound, JobIsSound, SharedAttemptIsMarked,
     Graded, Verdicts, NoJob
<1>3. SharedAttemptIsMarked'
  BY AbsentAssumption DEF TypeOK, Job, JobsAreSound, JobIsSound, SharedAttemptIsMarked,
     Graded, Verdicts, NoJob
<1>4. ReportsAreAlone'
  BY AbsentAssumption DEF TypeOK, Job, JobsAreSound, JobIsSound, SharedAttemptIsMarked,
     Graded, Verdicts, ReportsAreAlone, NoJob
<1>5. EventsHaveAttempts'
  BY AbsentAssumption DEF TypeOK, Job, JobsAreSound, JobIsSound, SharedAttemptIsMarked,
     Graded, Verdicts, EventsHaveAttempts, NoJob
<1>6. ShownIsGraded'
  BY AbsentAssumption DEF TypeOK, Job, JobsAreSound, JobIsSound, SharedAttemptIsMarked,
     Graded, Verdicts, ShownIsGraded, NoJob
<1>7. CompletionIsPassed'
  BY AbsentAssumption DEF TypeOK, Job, JobsAreSound, JobIsSound, SharedAttemptIsMarked,
     Graded, Verdicts, CompletionIsPassed, EventsHaveAttempts, NoJob
<1>8. VerdictsAreAnnounced'
  BY AbsentAssumption DEF TypeOK, Job, JobsAreSound, JobIsSound, SharedAttemptIsMarked,
     Graded, Verdicts, VerdictsAreAnnounced, Ending, ReportsAreAlone, NoJob
<1> QED
  BY <1>1, <1>2, <1>3, <1>4, <1>5, <1>6, <1>7, <1>8

\* The verdict of an attempt that is not marked is its first one.
LEMMA CommitGradeKeeps ==
    ASSUME IInv, NEW s \in Slots, CommitGrade(s)
    PROVE  IInv'
<1> USE DEF IInv, CommitGrade, history
<1>1. TypeOK'
  BY AbsentAssumption DEF TypeOK, Job, JobsAreSound, JobIsSound, Verdicts
<1>2. JobsAreSound'
  BY AbsentAssumption DEF TypeOK, Job, JobsAreSound, JobIsSound, SharedAttemptIsMarked,
     Graded, Verdicts
<1>3. SharedAttemptIsMarked'
  BY AbsentAssumption DEF TypeOK, Job, JobsAreSound, JobIsSound, SharedAttemptIsMarked,
     Graded, Verdicts
<1>4. ReportsAreAlone'
  BY AbsentAssumption DEF TypeOK, Job, JobsAreSound, JobIsSound, SharedAttemptIsMarked,
     Graded, Verdicts, ReportsAreAlone
<1>5. EventsHaveAttempts'
  BY AbsentAssumption DEF TypeOK, Job, JobsAreSound, JobIsSound, SharedAttemptIsMarked,
     Graded, Verdicts, EventsHaveAttempts
<1>6. ShownIsGraded'
  BY AbsentAssumption DEF TypeOK, Job, JobsAreSound, JobIsSound, SharedAttemptIsMarked,
     Graded, Verdicts, ShownIsGraded
<1>7. CompletionIsPassed'
  BY AbsentAssumption DEF TypeOK, Job, JobsAreSound, JobIsSound, SharedAttemptIsMarked,
     Graded, Verdicts, CompletionIsPassed, EventsHaveAttempts
<1>8. VerdictsAreAnnounced'
  BY AbsentAssumption DEF TypeOK, Job, JobsAreSound, JobIsSound, SharedAttemptIsMarked,
     Graded, Verdicts, VerdictsAreAnnounced, Ending, ReportsAreAlone
<1> QED
  BY <1>1, <1>2, <1>3, <1>4, <1>5, <1>6, <1>7, <1>8

\* What is announced is the verdict of the attempt, or the attempt is marked.
LEMMA AnnounceKeeps ==
    ASSUME IInv, NEW s \in Slots, Announce(s)
    PROVE  IInv'
<1> USE DEF IInv, Announce, Close, NoJob, history
<1>1. TypeOK'
  <2> USE DEF TypeOK
  <2>1. job' \in [Slots -> Job]
    BY IdleJob
  <2>2. paper' \in Papers \cup {NoPaper} /\ shown' \subseteq Papers /\ active' \subseteq {"manager", "teacher"}
    OBVIOUS
  <2>3. attempt' \in [Attempts -> {"none", "started"} \cup Verdicts]
    BY DEF JobsAreSound, JobIsSound, Job, Verdicts
  <2>4. events' \subseteq Attempts \X Verdicts
    BY DEF JobsAreSound, JobIsSound, Job, Verdicts
  <2>5. reports' \subseteq Attempts /\ twice' \subseteq Attempts /\ cut' \subseteq Attempts
        /\ decided' \subseteq Attempts
    BY DEF JobsAreSound, JobIsSound
  <2> QED
    BY <2>1, <2>2, <2>3, <2>4, <2>5
<1>2. JobsAreSound'
  BY AbsentAssumption DEF TypeOK, Job, JobsAreSound, JobIsSound, SharedAttemptIsMarked,
     Graded, Verdicts
<1>3. SharedAttemptIsMarked'
  BY AbsentAssumption DEF TypeOK, Job, JobsAreSound, JobIsSound, SharedAttemptIsMarked,
     Graded, Verdicts
<1>4. ReportsAreAlone'
  BY AbsentAssumption DEF TypeOK, Job, JobsAreSound, JobIsSound, SharedAttemptIsMarked,
     Graded, Verdicts, ReportsAreAlone
<1>5. EventsHaveAttempts'
  BY AbsentAssumption DEF TypeOK, Job, JobsAreSound, JobIsSound, SharedAttemptIsMarked,
     Graded, Verdicts, EventsHaveAttempts
<1>6. ShownIsGraded'
  BY AbsentAssumption DEF TypeOK, Job, JobsAreSound, JobIsSound, SharedAttemptIsMarked,
     Graded, Verdicts, ShownIsGraded
<1>7. CompletionIsPassed'
  BY AbsentAssumption DEF TypeOK, Job, JobsAreSound, JobIsSound, SharedAttemptIsMarked,
     Graded, Verdicts, CompletionIsPassed, EventsHaveAttempts
<1>8. VerdictsAreAnnounced'
  BY AbsentAssumption DEF TypeOK, Job, JobsAreSound, JobIsSound, SharedAttemptIsMarked,
     Graded, Verdicts, VerdictsAreAnnounced, Ending, ReportsAreAlone
<1> QED
  BY <1>1, <1>2, <1>3, <1>4, <1>5, <1>6, <1>7, <1>8

LEMMA FlushReportKeeps ==
    ASSUME IInv, NEW s \in Slots, NEW a \in Attempts, FlushReport(s, a)
    PROVE  IInv'
<1> USE DEF IInv, FlushReport, Begin, Unused, rows, history
<1>1. TypeOK'
  BY AbsentAssumption DEF TypeOK, Job, JobsAreSound, JobIsSound, Verdicts
<1>2. JobsAreSound'
  BY AbsentAssumption DEF TypeOK, Job, JobsAreSound, JobIsSound, SharedAttemptIsMarked,
     Graded, Verdicts
<1>3. SharedAttemptIsMarked'
  BY AbsentAssumption DEF TypeOK, Job, JobsAreSound, JobIsSound, SharedAttemptIsMarked,
     Graded, Verdicts
<1>4. ReportsAreAlone'
  BY AbsentAssumption DEF TypeOK, Job, JobsAreSound, JobIsSound, SharedAttemptIsMarked,
     Graded, Verdicts, ReportsAreAlone
<1>5. EventsHaveAttempts'
  BY AbsentAssumption DEF TypeOK, Job, JobsAreSound, JobIsSound, SharedAttemptIsMarked,
     Graded, Verdicts, EventsHaveAttempts
<1>6. ShownIsGraded'
  BY AbsentAssumption DEF TypeOK, Job, JobsAreSound, JobIsSound, SharedAttemptIsMarked,
     Graded, Verdicts, ShownIsGraded
<1>7. CompletionIsPassed'
  BY AbsentAssumption DEF TypeOK, Job, JobsAreSound, JobIsSound, SharedAttemptIsMarked,
     Graded, Verdicts, CompletionIsPassed, EventsHaveAttempts
<1>8. VerdictsAreAnnounced'
  BY AbsentAssumption DEF TypeOK, Job, JobsAreSound, JobIsSound, SharedAttemptIsMarked,
     Graded, Verdicts, VerdictsAreAnnounced, Ending, ReportsAreAlone
<1> QED
  BY <1>1, <1>2, <1>3, <1>4, <1>5, <1>6, <1>7, <1>8

\* Attempt, report and event appear together.
LEMMA CommitReportKeeps ==
    ASSUME IInv, NEW s \in Slots, CommitReport(s)
    PROVE  IInv'
<1> USE DEF IInv, CommitReport, Close, NoJob, rows, history
<1>1. TypeOK'
  <2> USE DEF TypeOK
  <2>1. job' \in [Slots -> Job]
    BY IdleJob
  <2>2. paper' \in Papers \cup {NoPaper} /\ shown' \subseteq Papers /\ active' \subseteq {"manager", "teacher"}
    OBVIOUS
  <2>3. attempt' \in [Attempts -> {"none", "started"} \cup Verdicts]
    BY DEF JobsAreSound, JobIsSound, Job, Verdicts
  <2>4. events' \subseteq Attempts \X Verdicts
    BY DEF JobsAreSound, JobIsSound, Job, Verdicts
  <2>5. reports' \subseteq Attempts /\ twice' \subseteq Attempts /\ cut' \subseteq Attempts
        /\ decided' \subseteq Attempts
    BY DEF JobsAreSound, JobIsSound
  <2> QED
    BY <2>1, <2>2, <2>3, <2>4, <2>5
<1>2. JobsAreSound'
  BY AbsentAssumption DEF TypeOK, Job, JobsAreSound, JobIsSound, SharedAttemptIsMarked,
     Graded, Verdicts
<1>3. SharedAttemptIsMarked'
  BY AbsentAssumption DEF TypeOK, Job, JobsAreSound, JobIsSound, SharedAttemptIsMarked,
     Graded, Verdicts
<1>4. ReportsAreAlone'
  BY AbsentAssumption DEF TypeOK, Job, JobsAreSound, JobIsSound, SharedAttemptIsMarked,
     Graded, Verdicts, ReportsAreAlone, EventsHaveAttempts
<1>5. EventsHaveAttempts'
  BY AbsentAssumption DEF TypeOK, Job, JobsAreSound, JobIsSound, SharedAttemptIsMarked,
     Graded, Verdicts, EventsHaveAttempts
<1>6. ShownIsGraded'
  BY AbsentAssumption DEF TypeOK, Job, JobsAreSound, JobIsSound, SharedAttemptIsMarked,
     Graded, Verdicts, ShownIsGraded
<1>7. CompletionIsPassed'
  BY AbsentAssumption DEF TypeOK, Job, JobsAreSound, JobIsSound, SharedAttemptIsMarked,
     Graded, Verdicts, CompletionIsPassed, EventsHaveAttempts
<1>8. VerdictsAreAnnounced'
  BY AbsentAssumption DEF TypeOK, Job, JobsAreSound, JobIsSound, SharedAttemptIsMarked,
     Graded, Verdicts, VerdictsAreAnnounced, Ending, ReportsAreAlone
<1> QED
  BY <1>1, <1>2, <1>3, <1>4, <1>5, <1>6, <1>7, <1>8

LEMMA ReceiveResultKeeps ==
    ASSUME IInv, NEW s \in Slots, NEW a \in Attempts, ReceiveResult(s, a)
    PROVE  IInv'
<1> USE DEF IInv, ReceiveResult, Begin, Reported, history
<1>1. TypeOK'
  BY AbsentAssumption DEF TypeOK, Job, JobsAreSound, JobIsSound, Verdicts
<1>2. JobsAreSound'
  BY AbsentAssumption DEF TypeOK, Job, JobsAreSound, JobIsSound, SharedAttemptIsMarked,
     Graded, Verdicts
<1>3. SharedAttemptIsMarked'
  BY AbsentAssumption DEF TypeOK, Job, JobsAreSound, JobIsSound, SharedAttemptIsMarked,
     Graded, Verdicts
<1>4. ReportsAreAlone'
  BY AbsentAssumption DEF TypeOK, Job, JobsAreSound, JobIsSound, SharedAttemptIsMarked,
     Graded, Verdicts, ReportsAreAlone
<1>5. EventsHaveAttempts'
  BY AbsentAssumption DEF TypeOK, Job, JobsAreSound, JobIsSound, SharedAttemptIsMarked,
     Graded, Verdicts, EventsHaveAttempts
<1>6. ShownIsGraded'
  BY AbsentAssumption DEF TypeOK, Job, JobsAreSound, JobIsSound, SharedAttemptIsMarked,
     Graded, Verdicts, ShownIsGraded
<1>7. CompletionIsPassed'
  BY AbsentAssumption DEF TypeOK, Job, JobsAreSound, JobIsSound, SharedAttemptIsMarked,
     Graded, Verdicts, CompletionIsPassed, EventsHaveAttempts
<1>8. VerdictsAreAnnounced'
  BY AbsentAssumption DEF TypeOK, Job, JobsAreSound, JobIsSound, SharedAttemptIsMarked,
     Graded, Verdicts, VerdictsAreAnnounced, Ending, ReportsAreAlone
<1> QED
  BY <1>1, <1>2, <1>3, <1>4, <1>5, <1>6, <1>7, <1>8

\* The attempt is marked, so that nothing is claimed of its completion.
LEMMA DecideEventKeeps ==
    ASSUME IInv, NEW s \in Slots, NEW a \in Attempts, NEW v \in Verdicts,
           DecideEvent(s, a, v)
    PROVE  IInv'
<1> USE DEF IInv, DecideEvent, Begin, history
<1>1. TypeOK'
  BY AbsentAssumption DEF TypeOK, Job, JobsAreSound, JobIsSound, Verdicts
<1>2. JobsAreSound'
  BY AbsentAssumption DEF TypeOK, Job, JobsAreSound, JobIsSound, SharedAttemptIsMarked,
     Graded, Verdicts
<1>3. SharedAttemptIsMarked'
  BY AbsentAssumption DEF TypeOK, Job, JobsAreSound, JobIsSound, SharedAttemptIsMarked,
     Graded, Verdicts
<1>4. ReportsAreAlone'
  BY AbsentAssumption DEF TypeOK, Job, JobsAreSound, JobIsSound, SharedAttemptIsMarked,
     Graded, Verdicts, ReportsAreAlone
<1>5. EventsHaveAttempts'
  BY AbsentAssumption DEF TypeOK, Job, JobsAreSound, JobIsSound, SharedAttemptIsMarked,
     Graded, Verdicts, EventsHaveAttempts
<1>6. ShownIsGraded'
  BY AbsentAssumption DEF TypeOK, Job, JobsAreSound, JobIsSound, SharedAttemptIsMarked,
     Graded, Verdicts, ShownIsGraded
<1>7. CompletionIsPassed'
  BY AbsentAssumption DEF TypeOK, Job, JobsAreSound, JobIsSound, SharedAttemptIsMarked,
     Graded, Verdicts, CompletionIsPassed, EventsHaveAttempts
<1>8. VerdictsAreAnnounced'
  BY AbsentAssumption DEF TypeOK, Job, JobsAreSound, JobIsSound, SharedAttemptIsMarked,
     Graded, Verdicts, VerdictsAreAnnounced, Ending, ReportsAreAlone
<1> QED
  BY <1>1, <1>2, <1>3, <1>4, <1>5, <1>6, <1>7, <1>8

LEMMA GiveUpKeeps ==
    ASSUME IInv, NEW s \in Slots, GiveUp(s)
    PROVE  IInv'
<1> USE DEF IInv, GiveUp, Close, NoJob, rows, history
<1>1. TypeOK'
  <2> USE DEF TypeOK
  <2>1. job' \in [Slots -> Job]
    BY IdleJob
  <2>2. paper' \in Papers \cup {NoPaper} /\ shown' \subseteq Papers /\ active' \subseteq {"manager", "teacher"}
    OBVIOUS
  <2>3. attempt' \in [Attempts -> {"none", "started"} \cup Verdicts]
    BY DEF JobsAreSound, JobIsSound, Job, Verdicts
  <2>4. events' \subseteq Attempts \X Verdicts
    BY DEF JobsAreSound, JobIsSound, Job, Verdicts
  <2>5. reports' \subseteq Attempts /\ twice' \subseteq Attempts /\ cut' \subseteq Attempts
        /\ decided' \subseteq Attempts
    BY DEF JobsAreSound, JobIsSound
  <2> QED
    BY <2>1, <2>2, <2>3, <2>4, <2>5
<1>2. JobsAreSound'
  BY AbsentAssumption DEF TypeOK, Job, JobsAreSound, JobIsSound, SharedAttemptIsMarked,
     Graded, Verdicts
<1>3. SharedAttemptIsMarked'
  BY AbsentAssumption DEF TypeOK, Job, JobsAreSound, JobIsSound, SharedAttemptIsMarked,
     Graded, Verdicts
<1>4. ReportsAreAlone'
  BY AbsentAssumption DEF TypeOK, Job, JobsAreSound, JobIsSound, SharedAttemptIsMarked,
     Graded, Verdicts, ReportsAreAlone
<1>5. EventsHaveAttempts'
  BY AbsentAssumption DEF TypeOK, Job, JobsAreSound, JobIsSound, SharedAttemptIsMarked,
     Graded, Verdicts, EventsHaveAttempts
<1>6. ShownIsGraded'
  BY AbsentAssumption DEF TypeOK, Job, JobsAreSound, JobIsSound, SharedAttemptIsMarked,
     Graded, Verdicts, ShownIsGraded
<1>7. CompletionIsPassed'
  BY AbsentAssumption DEF TypeOK, Job, JobsAreSound, JobIsSound, SharedAttemptIsMarked,
     Graded, Verdicts, CompletionIsPassed, EventsHaveAttempts
<1>8. VerdictsAreAnnounced'
  BY AbsentAssumption DEF TypeOK, Job, JobsAreSound, JobIsSound, SharedAttemptIsMarked,
     Graded, Verdicts, VerdictsAreAnnounced, Ending, ReportsAreAlone
<1> QED
  BY <1>1, <1>2, <1>3, <1>4, <1>5, <1>6, <1>7, <1>8

\* Verdicts not yet announced are marked as cut.
LEMMA CrashKeeps ==
    ASSUME IInv, Crash
    PROVE  IInv'
<1> USE DEF IInv, Crash, NoJob, rows, history
<1>1. TypeOK'
  BY AbsentAssumption DEF TypeOK, Job, JobsAreSound, JobIsSound, Verdicts
<1>2. JobsAreSound'
  BY AbsentAssumption DEF TypeOK, Job, JobsAreSound, JobIsSound, SharedAttemptIsMarked,
     Graded, Verdicts
<1>3. SharedAttemptIsMarked'
  BY AbsentAssumption DEF TypeOK, Job, JobsAreSound, JobIsSound, SharedAttemptIsMarked,
     Graded, Verdicts
<1>4. ReportsAreAlone'
  BY AbsentAssumption DEF TypeOK, Job, JobsAreSound, JobIsSound, SharedAttemptIsMarked,
     Graded, Verdicts, ReportsAreAlone
<1>5. EventsHaveAttempts'
  BY AbsentAssumption DEF TypeOK, Job, JobsAreSound, JobIsSound, SharedAttemptIsMarked,
     Graded, Verdicts, EventsHaveAttempts
<1>6. ShownIsGraded'
  BY AbsentAssumption DEF TypeOK, Job, JobsAreSound, JobIsSound, SharedAttemptIsMarked,
     Graded, Verdicts, ShownIsGraded
<1>7. CompletionIsPassed'
  BY AbsentAssumption DEF TypeOK, Job, JobsAreSound, JobIsSound, SharedAttemptIsMarked,
     Graded, Verdicts, CompletionIsPassed, EventsHaveAttempts
<1>8. VerdictsAreAnnounced'
  BY AbsentAssumption DEF TypeOK, Job, JobsAreSound, JobIsSound, SharedAttemptIsMarked,
     Graded, Verdicts, VerdictsAreAnnounced, Ending, ReportsAreAlone
<1> QED
  BY <1>1, <1>2, <1>3, <1>4, <1>5, <1>6, <1>7, <1>8

LEMMA SetStatusKeeps ==
    ASSUME IInv, NEW agent \in {"manager", "teacher"}, SetStatus(agent)
    PROVE  IInv'
<1>1. TypeOK'
  BY DEF IInv, TypeOK, SetStatus, rows, history
<1> QED
  BY <1>1 DEF IInv, SetStatus, rows, history, JobsAreSound, JobIsSound, SharedAttemptIsMarked, Graded,
     ReportsAreAlone, EventsHaveAttempts, ShownIsGraded, CompletionIsPassed,
     VerdictsAreAnnounced, Ending

-----------------------------------------------------------------------------
(* The theorems                                                            *)

LEMMA InitHolds == Init => IInv
<1> SUFFICES ASSUME Init PROVE IInv
  OBVIOUS
<1>1. TypeOK
  BY IdleJob DEF Init, TypeOK
<1>2. JobsAreSound /\ SharedAttemptIsMarked
  BY DEF Init, JobsAreSound, JobIsSound, SharedAttemptIsMarked, NoJob
<1> QED
  BY <1>1, <1>2 DEF Init, IInv, ReportsAreAlone, EventsHaveAttempts, ShownIsGraded,
     CompletionIsPassed, VerdictsAreAnnounced, Verdicts

LEMMA NextHolds == IInv /\ [Next]_vars => IInv'
<1> SUFFICES ASSUME IInv, [Next]_vars PROVE IInv'
  OBVIOUS
<1>1. CASE UNCHANGED vars
  BY <1>1 DEF vars, rows, history, IInv, TypeOK, JobsAreSound, JobIsSound, SharedAttemptIsMarked, Graded,
     ReportsAreAlone, EventsHaveAttempts, ShownIsGraded, CompletionIsPassed,
     VerdictsAreAnnounced, Ending
<1> QED
  BY <1>1, ShowPaperKeeps, AskModelKeeps, StorePaperKeeps, FailModelKeeps, StartKeeps,
     LoadAttemptKeeps, CommitGradeKeeps, AnnounceKeeps, FlushReportKeeps, CommitReportKeeps,
     ReceiveResultKeeps, DecideEventKeeps, GiveUpKeeps, CrashKeeps, SetStatusKeeps DEF Next

\* What the requests in progress know of their attempts agrees with what is stored,
\* shown and announced (student_assessments.py, teacher_teaching.py).
THEOREM Invariance == Spec => []IInv
BY InitHolds, NextHolds, PTL DEF Spec

\* Whoever was shown questions is graded with them (generate_assessment).
THEOREM QuestionsStay == Spec => []ShownIsGraded
<1>1. IInv => ShownIsGraded
  BY DEF IInv
<1> QED
  BY <1>1, Invariance, PTL

\* The endpoints and the tool that reports a result record a completion for a passed
\* attempt, unless two submissions of it overlapped; a decision of the manager's model
\* is apart (process_event, receive_assessment_result, event_decision).
THEOREM CompletionsArePassed == Spec => []CompletionIsPassed
<1>1. IInv => CompletionIsPassed
  BY DEF IInv
<1> QED
  BY <1>1, Invariance, PTL

\* No verdict is lost, unless the student's request was cut short between its two
\* commits (submit_assessment).
THEOREM VerdictsReachTheManager == Spec => []VerdictsAreAnnounced
<1>1. IInv => VerdictsAreAnnounced
  BY DEF IInv
<1> QED
  BY <1>1, Invariance, PTL

\* An attempt is graded once, unless two submissions had both loaded it in
\* progress (submit_assessment).
THEOREM GradesStay == Spec => GradedOnce
<1> DEFINE Stays == \A a \in Attempts \ twice' : attempt[a] \in Verdicts => attempt'[a] = attempt[a]
<1>1. ASSUME IInv, Next
      PROVE  Stays
  <2> USE DEF IInv, TypeOK, Verdicts
  <2>1. ASSUME NEW s \in Slots, CommitGrade(s)
        PROVE  Stays
    BY <1>1, <2>1 DEF CommitGrade, JobsAreSound, JobIsSound, Graded, history
  <2>2. ASSUME NEW s \in Slots, CommitReport(s)
        PROVE  Stays
    BY <1>1, <2>2 DEF CommitReport, JobsAreSound, JobIsSound, rows, history
  <2>3. ASSUME NEW s \in Slots, NEW a \in Attempts, Start(s, a)
        PROVE  Stays
    BY <1>1, <2>3 DEF Start, Unused
  <2> QED
    BY <1>1, <2>1, <2>2, <2>3
    DEF Next, ShowPaper, AskModel, StorePaper, FailModel, Announce, GiveUp, LoadAttempt,
        FlushReport, ReceiveResult, DecideEvent, Crash, SetStatus, rows, history
<1>2. IInv /\ [Next]_vars => [Stays]_vars
  BY <1>1
<1> QED
  BY <1>2, Invariance, PTL DEF Spec, GradedOnce

-----------------------------------------------------------------------------
(* No two requests submit one attempt at a time.                            *)

\* At most one request has loaded attempt a in progress and not yet graded it.
Apart(a) ==
    \A r, s \in Slots : /\ job[r].pc = "submit" /\ job[r].attempt = a
                        /\ job[s].pc = "submit" /\ job[s].attempt = a
                       => r = s

LEMMA ApartStep ==
    ASSUME NEW a \in Attempts, IInv, a \notin twice, Apart(a)', [Next]_vars
    PROVE  a \notin twice'
<1>1. ASSUME NEW s \in Slots, NEW b \in Attempts, LoadAttempt(s, b)
      PROVE  a \notin twice'
  <2>1. job'[s].pc = "submit" /\ job'[s].attempt = b
    BY <1>1 DEF LoadAttempt, IInv, TypeOK, NoJob
  <2>2. \A r \in Slots : job[r].pc = "submit" => r # s /\ job'[r] = job[r]
    BY <1>1 DEF LoadAttempt, Begin, IInv, TypeOK
  <2>3. \A r \in Slots : job[r].pc = "submit" /\ job[r].attempt = b => a # b
    BY <2>1, <2>2 DEF Apart
  <2> QED
    BY <1>1, <2>3 DEF LoadAttempt
<1> QED
  BY <1>1
  DEF Next, vars, ShowPaper, AskModel, StorePaper, FailModel, CommitGrade, Announce,
      CommitReport, GiveUp, Start, FlushReport, ReceiveResult, DecideEvent, Crash, SetStatus,
      history

\* The verdict of an attempt that no two requests submit at a time never changes, and
\* its completion is recorded only if it is passed, unless the manager's model decides
\* an event of it, whatever happens to the others: overlapping submissions and those
\* decisions are the only ways to break the two properties (submit_assessment).
THEOREM ApartGrades ==
    ASSUME NEW x \in Attempts
    PROVE  Spec /\ []Apart(x) =>
             /\ [](x \notin decided => (<<x, "passed">> \in events => attempt[x] = "passed"))
             /\ [][Graded(x) => attempt'[x] = attempt[x]]_vars
<1> DEFINE Once == x \notin twice
<1>1. Init => Once
  BY DEF Init
<1>2. IInv /\ Once /\ Apart(x)' /\ [Next]_vars => Once'
  BY ApartStep
<1>3. Once /\ CompletionIsPassed =>
        (x \notin decided => (<<x, "passed">> \in events => attempt[x] = "passed"))
  BY DEF CompletionIsPassed
<1>4. Once' /\ [\A a \in Attempts \ twice' :
                  attempt[a] \in Verdicts => attempt'[a] = attempt[a]]_vars
        => [Graded(x) => attempt'[x] = attempt[x]]_vars
  BY DEF Graded
<1> HIDE DEF Once
<1>5. Spec /\ []Apart(x) => []Once
  BY <1>1, <1>2, Invariance, PTL DEF Spec
<1>6. Spec /\ []Apart(x) =>
        [](x \notin decided => (<<x, "passed">> \in events => attempt[x] = "passed"))
  BY <1>3, <1>5, CompletionsArePassed, PTL
<1>7. Spec /\ []Apart(x) => [][Graded(x) => attempt'[x] = attempt[x]]_vars
  BY <1>4, <1>5, GradesStay, PTL DEF GradedOnce
<1> QED
  BY <1>6, <1>7

=============================================================================
