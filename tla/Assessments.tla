---------------------------- MODULE Assessments ----------------------------
(***************************************************************************)
(* The assessment of a course as one student takes it: the questions a     *)
(* model writes once, the attempts, their grading by two endpoints, the    *)
(* student's and the teacher's, and the events the main manager records:   *)
(* of a graded attempt, of a stored result its tool reports, and of a      *)
(* decision its model makes on its own.                                    *)
(*                                                                         *)
(* Requests share a SQLite database as in FileTeaching: what a request     *)
(* read may be old when it writes, one session writes at a time, and a     *)
(* second writer fails after the driver's time-out.                        *)
(***************************************************************************)
EXTENDS Naturals

CONSTANTS
    Papers,      \* sets of questions the model may write
    Attempts,    \* attempts the student may make
    Slots,       \* requests in progress at once
    NoPaper,     \* no question is stored
    NoAttempt    \* attempt of an idle slot

ASSUME AbsentAssumption == NoPaper \notin Papers /\ NoAttempt \notin Attempts

Verdicts == {"passed", "failed"}

VARIABLES
    paper,       \* the CurriculumAssessmentQuestion rows
    shown,       \* papers that were answered to a request
    attempt,     \* CurriculumAssessmentAttempt rows: none, started or a verdict
    events,      \* <<a, verdict>> of the manager's events
    reports,     \* attempts with an AssessmentResultReport
    active,      \* which of "manager" and "teacher" are active
    job,         \* what the request in each slot is doing
    twice,       \* history: attempts two requests were submitting at once
    cut,         \* history: attempts whose request ended before the event
    decided      \* history: attempts the manager's model recorded an event for

rows  == <<paper, attempt, events, reports>>
history == <<twice, cut, decided>>
vars  == <<rows, shown, active, job, history>>

\* ask: the model is called; submit: the attempt was loaded or added, and is
\* graded; event: the grade is committed; report: the teacher's attempt is
\* flushed and not committed
Job == [pc : {"idle", "ask", "submit", "event", "report"},
        attempt : Attempts \cup {NoAttempt}, verdict : Verdicts, writing : BOOLEAN]

NoJob == [pc |-> "idle", attempt |-> NoAttempt, verdict |-> "failed", writing |-> FALSE]

TypeOK ==
    /\ paper \in Papers \cup {NoPaper}
    /\ shown \subseteq Papers
    /\ attempt \in [Attempts -> {"none", "started"} \cup Verdicts]
    /\ events \subseteq Attempts \X Verdicts
    /\ {reports, twice, cut, decided} \subseteq SUBSET Attempts
    /\ active \subseteq {"manager", "teacher"}
    /\ job \in [Slots -> Job]

Init ==
    /\ paper = NoPaper /\ shown = {}
    /\ attempt = [a \in Attempts |-> "none"]
    /\ events = {} /\ reports = {}
    /\ active = {"manager", "teacher"}
    /\ job = [s \in Slots |-> NoJob]
    /\ twice = {} /\ cut = {} /\ decided = {}

-----------------------------------------------------------------------------
(* Helpers *)

DatabaseFree(s) == \A r \in Slots \ {s} : ~job[r].writing

Close(s) == job' = [job EXCEPT ![s] = NoJob]

Unused(a) == attempt[a] = "none" /\ \A s \in Slots : job[s].attempt # a

\* a request begins: its session look-up commits last_seen_at
Begin(s) == job[s].pc = "idle" /\ DatabaseFree(s)

\* what start and submit ask for
Ready == paper # NoPaper /\ "teacher" \in active

-----------------------------------------------------------------------------
(* The questions *)

\* the three endpoints and the chat answer with the stored questions
ShowPaper(s) ==
    /\ Begin(s)
    /\ paper # NoPaper
    /\ shown' = shown \cup {paper}
    /\ UNCHANGED <<rows, active, job, history>>

\* generate_assessment and generate_curriculum_assessment hold nothing during
\* the model's call; the chat may hold the writer, for a new conversation
AskModel(s) ==
    /\ Begin(s)
    /\ paper = NoPaper
    /\ \E w \in BOOLEAN :
         /\ w => "teacher" \in active
         /\ job' = [job EXCEPT ![s] = [NoJob EXCEPT !.pc = "ask", !.writing = w]]
    /\ UNCHANGED <<rows, shown, active, history>>

StorePaperAgain(s) ==  \* variant: without the unique key
    /\ job[s].pc = "ask" /\ DatabaseFree(s)
    /\ \E p \in Papers : paper' = p /\ shown' = shown \cup {p}
    /\ Close(s)
    /\ UNCHANGED <<attempt, events, reports, active, history>>

\* uq_assessment_question_position refuses a second paper: 500, or 502
StorePaper(s) ==
    /\ job[s].pc = "ask" /\ DatabaseFree(s)
    /\ \/ /\ paper = NoPaper
          /\ \E p \in Papers : paper' = p /\ shown' = shown \cup {p}
       \/ paper # NoPaper /\ UNCHANGED <<paper, shown>>
    /\ Close(s)
    /\ UNCHANGED <<attempt, events, reports, active, history>>

\* the provider raised or its questions are not usable: 502
FailModel(s) ==
    /\ job[s].pc = "ask"
    /\ Close(s)
    /\ UNCHANGED <<rows, shown, active, history>>

-----------------------------------------------------------------------------
(* Start and submission by the student *)

Start(s, a) ==
    /\ Begin(s) /\ Ready /\ Unused(a)
    /\ attempt' = [attempt EXCEPT ![a] = "started"]
    /\ UNCHANGED <<paper, shown, events, reports, active, job, history>>

ActiveUnlessPassed(a) == attempt[a] \in {"started", "failed"}  \* variant: a retry

\* the attempt the request names is in progress
Active(a) == attempt[a] = "started"

\* the answers are graded and the attempt is loaded, or a new one is added
LoadAttempt(s, a) ==
    /\ Begin(s) /\ Ready
    /\ Active(a) \/ Unused(a)
    /\ \E v \in Verdicts : job' = [job EXCEPT ![s] =
          [NoJob EXCEPT !.pc = "submit", !.attempt = a, !.verdict = v]]
    /\ twice' = IF \E r \in Slots : job[r].pc = "submit" /\ job[r].attempt = a
                THEN twice \cup {a} ELSE twice
    /\ UNCHANGED <<rows, shown, active, cut, decided>>

CommitGrade(s) ==
    /\ job[s].pc = "submit" /\ DatabaseFree(s)
    /\ attempt' = [attempt EXCEPT ![job[s].attempt] = job[s].verdict]
    /\ job' = [job EXCEPT ![s].pc = "event"]
    /\ UNCHANGED <<paper, shown, events, reports, active, history>>

\* process_event, which raises without an active manager
Announce(s) ==
    LET j == job[s] IN
    /\ j.pc = "event" /\ DatabaseFree(s)
    /\ IF "manager" \in active
       THEN events' = events \cup {<<j.attempt, j.verdict>>} /\ UNCHANGED cut
       ELSE cut' = cut \cup {j.attempt} /\ UNCHANGED events
    /\ Close(s)
    /\ UNCHANGED <<paper, attempt, reports, shown, active, twice, decided>>

-----------------------------------------------------------------------------
(* Submission to the teacher, and the manager's tool *)

\* the attempt is inserted as graded and flushed
FlushReport(s, a) ==
    /\ Begin(s) /\ Ready /\ Unused(a)
    /\ \E v \in Verdicts : job' = [job EXCEPT ![s] =
          [pc |-> "report", attempt |-> a, verdict |-> v, writing |-> TRUE]]
    /\ UNCHANGED <<rows, shown, active, history>>

CommitReportUnannounced(s) ==  \* variant: the report does not ask for the manager
    LET j == job[s] IN
    /\ j.pc = "report"
    /\ attempt' = [attempt EXCEPT ![j.attempt] = j.verdict]
    /\ reports' = reports \cup {j.attempt}
    /\ events' = IF "manager" \in active
                 THEN events \cup {<<j.attempt, j.verdict>>} ELSE events
    /\ Close(s)
    /\ UNCHANGED <<paper, shown, active, history>>

\* attempt, report and event in the commit of process_event; without an active
\* manager it raises and the request is rolled back
CommitReport(s) ==
    LET j == job[s] IN
    /\ j.pc = "report"
    /\ \/ /\ "manager" \in active
          /\ attempt' = [attempt EXCEPT ![j.attempt] = j.verdict]
          /\ reports' = reports \cup {j.attempt}
          /\ events' = events \cup {<<j.attempt, j.verdict>>}
       \/ "manager" \notin active /\ UNCHANGED rows
    /\ Close(s)
    /\ UNCHANGED <<paper, shown, active, history>>

ReportedAnyway(a) == "passed"  \* variant: the event's name taken for its verdict

\* an attempt that is not graded has passed = None: "not passed"
Reported(a) == IF attempt[a] = "passed" THEN "passed" ELSE "failed"

\* receive_assessment_result, a tool of the manager, for any attempt
ReceiveResult(s, a) ==
    /\ Begin(s)
    /\ "manager" \in active /\ attempt[a] # "none"
    /\ events' = events \cup {<<a, Reported(a)>>}
    /\ UNCHANGED <<paper, attempt, reports, shown, active, job, history>>

\* manager.event_decision, a tool of the manager as well: process_event with the
\* verdict the manager's model gives of an attempt, which it does not look up
DecideEvent(s, a, v) ==
    /\ Begin(s)
    /\ "manager" \in active /\ attempt[a] # "none"
    /\ events' = events \cup {<<a, v>>}
    /\ decided' = decided \cup {a}
    /\ UNCHANGED <<paper, attempt, reports, shown, active, job, twice, cut>>

-----------------------------------------------------------------------------
(* Environment *)

Ending(a) == \E s \in Slots : job[s].attempt = a /\ job[s].pc = "event"

GiveUp(s) ==
    /\ job[s].pc # "idle" /\ ~job[s].writing /\ ~DatabaseFree(s)
    /\ cut' = IF job[s].pc = "event" THEN cut \cup {job[s].attempt} ELSE cut
    /\ Close(s)
    /\ UNCHANGED <<rows, shown, active, twice, decided>>

Crash ==
    /\ \E s \in Slots : job[s].pc # "idle"
    /\ cut' = cut \cup {a \in Attempts : Ending(a)}
    /\ job' = [s \in Slots |-> NoJob]
    /\ UNCHANGED <<rows, shown, active, twice, decided>>

\* an administrator changes the status of an agent
SetStatus(agent) ==
    /\ \A s \in Slots : ~job[s].writing
    /\ active' = IF agent \in active THEN active \ {agent} ELSE active \cup {agent}
    /\ UNCHANGED <<rows, shown, job, history>>

Next ==
    \/ \E s \in Slots :
         \/ ShowPaper(s) \/ AskModel(s) \/ StorePaper(s) \/ FailModel(s)
         \/ CommitGrade(s) \/ Announce(s) \/ CommitReport(s) \/ GiveUp(s)
         \/ \E a \in Attempts : \/ Start(s, a) \/ LoadAttempt(s, a)
                                \/ FlushReport(s, a) \/ ReceiveResult(s, a)
                                \/ \E v \in Verdicts : DecideEvent(s, a, v)
    \/ Crash
    \/ \E agent \in {"manager", "teacher"} : SetStatus(agent)

Spec == Init /\ [][Next]_vars

-----------------------------------------------------------------------------
(* Properties *)

\* Whoever was shown questions was shown the ones all answers are graded with,
\* although two requests may ask the model for them at once.
ShownIsGraded == shown \subseteq {paper}

\* An attempt is graded once: only two submissions that both loaded it in
\* progress can change a verdict.
GradedOnce ==
    [][\A a \in Attempts \ twice' : attempt[a] \in Verdicts => attempt'[a] = attempt[a]]_vars

\* The endpoints and the tool that reports a result record the completion of the
\* course only for a passed attempt, unless two submissions of it overlapped.  The
\* one other way is a decision of the manager's model: manager.event_decision
\* checks no attempt (tools.py, 445-457).
CompletionIsPassed ==
    \A a \in Attempts \ (twice \cup decided) : <<a, "passed">> \in events => attempt[a] = "passed"

\* Every verdict reaches the manager, except where the request of the student
\* was cut short between its two commits; the teacher's endpoint, which has
\* one, never loses it.
VerdictsAreAnnounced ==
    /\ \A a \in Attempts \ cut : attempt[a] \in Verdicts =>
          Ending(a) \/ \E v \in Verdicts : <<a, v>> \in events
    /\ \A a \in reports : <<a, attempt[a]>> \in events

-----------------------------------------------------------------------------
(* The inductive invariant *)

Graded(a) == attempt[a] \in Verdicts

\* what the request in slot s knows of its attempt
JobIsSound(s) ==
    LET j == job[s]
        a == job[s].attempt
    IN  /\ j.pc \in {"submit", "event", "report"} => a \in Attempts
        /\ j.pc \in {"idle", "ask"} => a = NoAttempt
        /\ j.writing => j.pc \in {"ask", "report"}
        /\ j.pc = "submit" => a \in twice \/ ~Graded(a)
        /\ j.pc = "event" => a \in twice \/ attempt[a] = j.verdict
        /\ j.pc = "event" => Graded(a)
        /\ j.pc = "report" => j.writing /\ attempt[a] = "none"

JobsAreSound == \A s \in Slots : JobIsSound(s)

\* two requests work on one attempt only if both loaded it in progress
SharedAttemptIsMarked ==
    \A s, r \in Slots :
      s # r /\ job[s].attempt = job[r].attempt /\ job[s].attempt # NoAttempt =>
        /\ job[s].attempt \in twice
        /\ job[s].pc \in {"submit", "event"}

\* a report's attempt was never loaded by a second request
ReportsAreAlone ==
    \A a \in reports : Graded(a) /\ a \notin twice /\ \A s \in Slots : job[s].attempt # a

EventsHaveAttempts ==
    /\ \A e \in events : attempt[e[1]] # "none"
    /\ \A a \in twice : attempt[a] # "none"

\* The state of the requests, of the attempts they hold and of the events is
\* consistent: the invariant the theorems are proved by.
IInv ==
    /\ TypeOK /\ JobsAreSound /\ SharedAttemptIsMarked /\ ReportsAreAlone
    /\ EventsHaveAttempts
    /\ ShownIsGraded /\ CompletionIsPassed /\ VerdictsAreAnnounced

=============================================================================
