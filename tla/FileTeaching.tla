---------------------------- MODULE FileTeaching ----------------------------
(***************************************************************************)
(* A student's own files with one teacher: the upload (object store, row,  *)
(* quota), the chat that teaches a file and moves its teaching step, and   *)
(* the exam of the file.                                                   *)
(*                                                                         *)
(* The database is SQLite.  A request starts when its session look-up may  *)
(* write last_seen_at; it reads committed rows; its first INSERT or UPDATE *)
(* takes the one writer until the request commits or is rolled back; an    *)
(* UPDATE writes the columns that differ from what the request loaded.  A  *)
(* second writer waits, and fails after the driver's time-out (GiveUp).    *)
(* Uploads are coroutines without an await after the file was read, so     *)
(* only one is between its quota check and its end.                        *)
(*                                                                         *)
(* A quota window is one unit of `now'.  The student has a conversation    *)
(* with the teacher, who is active; a duplicate key of a usage or step row *)
(* fails as a time-out does, and is not told apart from one.               *)
(***************************************************************************)
EXTENDS Naturals, FiniteSets

CONSTANTS
    Files,       \* uploads the student may make
    Taught,      \* the ones the student goes on to work with
    Slots,       \* requests in progress at once
    FileLimit,   \* STUDENT_FILE_LIMIT, 3 in the code
    CharLimit,   \* DAILY_RESPONSE_CHAR_LIMIT, 2000 in the code
    MaxTime,     \* the last window of the model
    NoFile       \* file of an idle slot

ASSUME LimitAssumption ==
    /\ FileLimit \in Nat \ {0}
    /\ CharLimit \in Nat \ {0}
    /\ MaxTime \in Nat
    /\ NoFile \notin Files
    /\ Taught \subseteq Files

Hours   == 0 .. MaxTime
Columns == {"there", "start", "files", "chars"}
Usage   == [there : BOOLEAN, start : Hours, files : Nat, chars : Nat]

\* student_confirmed is set together with the status and never alone
StepRow == [status : {"none", "active", "completed"}, verified : BOOLEAN]

VARIABLES
    now,         \* 24-hour windows passed
    usage,       \* the TeachingUsage row (source student_files), if there
    objects,     \* files whose object is in the store
    uploads,     \* <<f, h>>: committed ContentFile row, counted in window h
    step,        \* the TeachingStep "file:<f>"
    exam,        \* files whose assessment_json is set
    results,     \* TeachingAssessment rows: <<f, "graded">> by the server,
                 \*   <<f, "posted">> as the request stated them
    said,        \* characters of the committed answers of each window
    isCheck,     \* the last assistant message looks like a check question
    job,         \* what the request in each slot is doing
    staleWrite,  \* history: a usage row was written over a newer one
    leaked       \* history: uploads whose clean-up was cut short

quota == <<usage, said, staleWrite>>
store == <<objects, leaked>>
work  == <<step, exam, results, isCheck>>
vars  == <<now, quota, store, uploads, work, job>>

Rows    == {u[1] : u \in uploads}
NoUsage == [there |-> FALSE, start |-> 0, files |-> 0, chars |-> 0]
NoStep  == [status |-> "none", verified |-> FALSE]

Pc == {"idle", "quota", "stored", "row", "confirm", "evaluate", "model",
       "answered", "exam"}

\* base: the usage row as loaded; use: as the session holds it; touched: the
\* columns assigned since; loaded: the step as loaded; opens: the session
\* inserts it; writing: the session holds the writer
Job == [pc : Pc, file : Files \cup {NoFile}, base : Usage, use : Usage,
        touched : SUBSET Columns, loaded : StepRow, opens : BOOLEAN,
        chars : Nat, writing : BOOLEAN]

NoJob == [pc |-> "idle", file |-> NoFile, base |-> NoUsage, use |-> NoUsage,
          touched |-> {}, loaded |-> NoStep, opens |-> FALSE, chars |-> 0,
          writing |-> FALSE]

TypeOK ==
    /\ now \in Hours
    /\ usage \in Usage
    /\ objects \subseteq Files
    /\ uploads \subseteq Files \X Hours
    /\ step \in [Taught -> StepRow]
    /\ exam \subseteq Taught
    /\ results \subseteq Taught \X {"graded", "posted"}
    /\ said \in [Hours -> Nat]
    /\ {isCheck, staleWrite} \subseteq BOOLEAN
    /\ job \in [Slots -> Job]
    /\ leaked \subseteq Files

Init ==
    /\ now = 0
    /\ usage = NoUsage
    /\ objects = {} /\ uploads = {}
    /\ step = [f \in Taught |-> NoStep]
    /\ exam = {} /\ results = {}
    /\ said = [h \in Hours |-> 0]
    /\ isCheck = FALSE
    /\ job = [s \in Slots |-> NoJob]
    /\ staleWrite = FALSE
    /\ leaked = {}

-----------------------------------------------------------------------------
(* Helpers *)

DatabaseFree(s) == \A r \in Slots \ {s} : ~job[r].writing

Close(s) == job' = [job EXCEPT ![s] = NoJob]

Expired(u) == now >= u.start + 1

\* get_or_create_usage with _reset_if_expired
Current(u) == IF ~u.there \/ Expired(u)
              THEN [there |-> TRUE, start |-> now, files |-> 0, chars |-> 0]
              ELSE u

Changed(u, v) == {c \in Columns : u[c] # v[c]}

\* the usage row once the session of job j has flushed and committed
Flushed(j) == [c \in Columns |-> IF c \in j.touched THEN j.use[c] ELSE usage[c]]

CommitUsage(j) ==
    /\ usage' = Flushed(j)
    /\ staleWrite' = (staleWrite \/ (j.touched # {} /\ j.base # usage))

\* the step of the file once the session has inserted it, if it does
OpenedStep(j) ==
    IF j.opens THEN [step EXCEPT ![j.file].status = "active"] ELSE step

\* more characters on the usage row the session holds
Consume(j, n) ==
    LET u == Current(j.use)
        v == [u EXCEPT !.chars = @ + n]
    IN  [j EXCEPT !.use = v, !.chars = n, !.writing = TRUE,
                  !.touched = @ \cup Changed(j.use, u) \cup Changed(u, v)]

-----------------------------------------------------------------------------
(* upload_student_file *)

\* The quota check.  A missing usage row is inserted, which takes the writer.
CheckQuota(s, f) ==
    LET u == Current(usage) IN
    /\ job[s].pc = "idle"
    /\ f \notin Rows \cup objects \cup leaked
    /\ \A r \in Slots : job[r].pc \notin {"quota", "stored", "row"}
    /\ DatabaseFree(s)
    /\ u.files < FileLimit
    /\ job' = [job EXCEPT ![s] =
          [NoJob EXCEPT !.pc = "quota", !.file = f, !.base = usage, !.use = u,
                        !.touched = Changed(usage, u), !.writing = ~usage.there]]
    /\ UNCHANGED <<now, quota, store, uploads, work>>

\* put_bytes; if it raises, the request fails with nothing to clean up
PutObject(s) ==
    /\ job[s].pc = "quota"
    /\ \/ /\ objects' = objects \cup {job[s].file}
          /\ job' = [job EXCEPT ![s].pc = "stored"]
       \/ Close(s) /\ UNCHANGED objects
    /\ UNCHANGED <<now, quota, uploads, work, leaked>>

\* db.flush() of the row, before the try block
FlushRow(s) ==
    /\ job[s].pc = "stored"
    /\ DatabaseFree(s)
    /\ job' = [job EXCEPT ![s].pc = "row", ![s].writing = TRUE]
    /\ UNCHANGED <<now, quota, store, uploads, work>>

RegisteredUncounted(j) ==  \* variant: the file is not counted
    [j EXCEPT !.use = Current(j.use)]

\* register_student_file, which checks the limit again
Registered(j) ==
    LET u == Current(j.use)
        v == [u EXCEPT !.files = @ + 1]
    IN  [j EXCEPT !.use = v,
                  !.touched = @ \cup Changed(j.use, u) \cup Changed(u, v)]

\* the commit; db.refresh after it may raise, and then the object is deleted
\* although the row stays
CommitUpload(s) ==
    LET f == job[s].file
        j == Registered(job[s])
    IN  /\ job[s].pc = "row"
        /\ j.use.files <= FileLimit
        /\ uploads' = uploads \cup {<<f, j.use.start>>}
        /\ CommitUsage(j)
        /\ \/ UNCHANGED store
           \/ objects' = objects \ {f} /\ leaked' = leaked \cup {f}
        /\ Close(s)
        /\ UNCHANGED <<now, work, said>>

DeleteNothing(f) == UNCHANGED store  \* variant: no clean-up

\* storage.delete, which may raise itself
Delete(f) == \/ objects' = objects \ {f} /\ UNCHANGED leaked
             \/ leaked' = leaked \cup {f} /\ UNCHANGED objects

\* registration or commit raised: rollback and delete
FailUpload(s) ==
    LET f == job[s].file IN
    /\ job[s].pc = "row"
    /\ Delete(f)
    /\ Close(s)
    /\ UNCHANGED <<now, quota, uploads, work>>

-----------------------------------------------------------------------------
(* chat_with_teacher on a file, and the step endpoints *)

\* start_step, the remaining characters, and the branch: a confirmation of a
\* verified step, an answer to a check, or the orchestrator, whose first query
\* flushes a reset of the usage row
OpenChat(s, f) ==
    LET u     == Current(usage)
        new   == step[f].status = "none"
        read  == IF new THEN [NoStep EXCEPT !.status = "active"] ELSE step[f]
        fresh == new \/ ~usage.there
    IN  /\ job[s].pc = "idle"
        /\ f \in Rows
        /\ DatabaseFree(s)
        /\ u.chars < CharLimit
        /\ \E pc \in {"confirm", "evaluate", "model"} :
             /\ pc = "confirm"  => read.verified /\ read.status # "completed"
             /\ pc = "evaluate" => ~read.verified /\ isCheck
             /\ pc = "model"    => read.verified \/ ~isCheck
             /\ job' = [job EXCEPT ![s] =
                  [NoJob EXCEPT !.pc = pc, !.file = f, !.base = usage, !.use = u,
                     !.touched = Changed(usage, u), !.loaded = read, !.opens = new,
                     !.writing = fresh \/ (pc = "model" /\ u # usage)]]
        /\ UNCHANGED <<now, quota, store, uploads, work>>

Answers(j) == 1 .. (CharLimit - j.use.chars)

SayAndCommit(s, j) ==
    /\ CommitUsage(j)
    /\ said' = [said EXCEPT ![j.use.start] = @ + j.chars]
    /\ Close(s)

\* the student's words confirm a step that was loaded as verified
ConfirmInChat(s) ==
    LET j == job[s] IN
    /\ j.pc = "confirm"
    /\ DatabaseFree(s)
    /\ \E n \in Answers(j) : SayAndCommit(s, Consume(j, n))
    /\ step' = [step EXCEPT ![j.file].status = "completed"]
    /\ isCheck' = FALSE
    /\ UNCHANGED <<now, store, uploads, exam, results>>

VerifiedStepWhole(j, correct) ==  \* variant: the whole loaded row is written
    [OpenedStep(j) EXCEPT ![j.file] = [j.loaded EXCEPT !.verified = correct]]

\* the model judges the answer; only a changed verification is written
VerifiedStep(j, correct) ==
    IF correct # j.loaded.verified
    THEN [OpenedStep(j) EXCEPT ![j.file].verified = correct] ELSE OpenedStep(j)

EvaluateAnswer(s) ==
    LET j == job[s] IN
    /\ j.pc = "evaluate"
    /\ DatabaseFree(s)
    /\ \E n \in Answers(j) : SayAndCommit(s, Consume(j, n))
    /\ \E correct \in BOOLEAN : step' = VerifiedStep(j, correct)
    /\ isCheck' \in BOOLEAN
    /\ UNCHANGED <<now, store, uploads, exam, results>>

\* a tool the model calls: the runtime commits what the chat has pending (so
\* does a chat whose answer is empty, which then ends as in FailChat)
CallTool(s) ==
    LET j == job[s] IN
    /\ j.pc = "model"
    /\ DatabaseFree(s)
    /\ CommitUsage(j)
    /\ step' = OpenedStep(j)
    /\ job' = [job EXCEPT ![s].base = IF j.touched = {} THEN @ ELSE Flushed(j),
                          ![s].touched = {}, ![s].opens = FALSE,
                          ![s].writing = FALSE]
    /\ UNCHANGED <<now, store, uploads, exam, results, said, isCheck>>

\* the orchestrator's answer is cut and counted; the memory's model calls
\* follow before the commit, with the writer held
Answer(s) ==
    LET j == job[s] IN
    /\ j.pc = "model"
    /\ DatabaseFree(s)
    /\ \E n \in Answers(j) : job' = [job EXCEPT ![s] = [Consume(j, n) EXCEPT !.pc = "answered"]]
    /\ UNCHANGED <<now, quota, store, uploads, work>>

CommitAnswer(s) ==
    /\ job[s].pc = "answered"
    /\ SayAndCommit(s, job[s])
    /\ step' = OpenedStep(job[s])
    /\ isCheck' \in BOOLEAN
    /\ UNCHANGED <<now, store, uploads, exam, results>>

\* a provider, a tool or the guard raises: 400 and rollback
FailChat(s) ==
    /\ job[s].pc \in {"evaluate", "model"}
    /\ Close(s)
    /\ UNCHANGED <<now, quota, store, uploads, work>>

\* begin_step, understanding_check and confirm_step on the step of a file
BeginStep(f) ==
    /\ f \in Rows /\ step[f].status = "none"
    /\ \A s \in Slots : ~job[s].writing
    /\ step' = [step EXCEPT ![f].status = "active"]
    /\ UNCHANGED <<now, quota, store, uploads, exam, results, isCheck, job>>

CheckStep(f) ==
    /\ step[f].status # "none"
    /\ \A s \in Slots : ~job[s].writing
    /\ \E v \in BOOLEAN : step' = [step EXCEPT ![f].verified = v]
    /\ UNCHANGED <<now, quota, store, uploads, exam, results, isCheck, job>>

ConfirmStep(f) ==
    /\ step[f].status = "active" /\ step[f].verified
    /\ \A s \in Slots : ~job[s].writing
    /\ step' = [step EXCEPT ![f].status = "completed"]
    /\ UNCHANGED <<now, quota, store, uploads, exam, results, isCheck, job>>

-----------------------------------------------------------------------------
(* The exam of a file *)

TaughtAtAll(f) == step[f].status # "none"  \* variant: any step will do

\* what generation and submission of an exam ask for
TaughtThrough(f) == step[f].status = "completed"

\* generate_student_file_exam: the model is asked when no exam is stored
OpenExam(s, f) ==
    /\ job[s].pc = "idle"
    /\ f \in Rows \ exam
    /\ DatabaseFree(s)
    /\ TaughtThrough(f)
    /\ job' = [job EXCEPT ![s] = [NoJob EXCEPT !.pc = "exam", !.file = f]]
    /\ UNCHANGED <<now, quota, store, uploads, work>>

StoreExam(s) ==
    /\ job[s].pc = "exam"
    /\ \/ exam' = exam \cup {job[s].file} /\ DatabaseFree(s)
       \/ UNCHANGED exam                   \* 502: unusable questions
    /\ Close(s)
    /\ UNCHANGED <<now, quota, store, uploads, step, results, isCheck>>

\* record_exam_result: result and report are committed by the manager's event,
\* which refuses without an active manager (then nothing is stored)
RecordResult(f, by) ==
    /\ \A s \in Slots : ~job[s].writing
    /\ results' = results \cup {<<f, by>>}
    /\ UNCHANGED <<now, quota, store, uploads, step, exam, isCheck, job>>

SubmitExam(f) == f \in exam /\ TaughtThrough(f) /\ RecordResult(f, "graded")

\* submit_file_exam stores the score of the request as it is
PostResult(f) == RecordResult(f, "posted")

-----------------------------------------------------------------------------
(* Time-outs, crashes, time *)

\* a session waited too long for the writer; the upload's flush of the row is
\* not guarded, so that its object stays
GiveUp(s) ==
    /\ job[s].pc # "idle" /\ ~job[s].writing /\ ~DatabaseFree(s)
    /\ leaked' = IF job[s].pc = "stored" THEN leaked \cup {job[s].file} ELSE leaked
    /\ Close(s)
    /\ UNCHANGED <<now, quota, objects, uploads, work>>

Crash ==
    /\ \E s \in Slots : job[s].pc # "idle"
    /\ leaked' = leaked \cup {job[s].file : s \in {r \in Slots : job[r].pc \in {"stored", "row"}}}
    /\ job' = [s \in Slots |-> NoJob]
    /\ UNCHANGED <<now, quota, objects, uploads, work>>

Tick ==
    /\ now < MaxTime
    /\ now' = now + 1
    /\ UNCHANGED <<quota, store, uploads, work, job>>

Upload(s) == \/ \E f \in Files : CheckQuota(s, f)
             \/ PutObject(s) \/ FlushRow(s) \/ CommitUpload(s) \/ FailUpload(s)

Chat(s) == \/ \E f \in Taught : OpenChat(s, f)
           \/ ConfirmInChat(s) \/ EvaluateAnswer(s) \/ CallTool(s)
           \/ Answer(s) \/ CommitAnswer(s) \/ FailChat(s)

Exam(s) == (\E f \in Taught : OpenExam(s, f)) \/ StoreExam(s)

Next ==
    \/ \E s \in Slots : Upload(s) \/ Chat(s) \/ Exam(s) \/ GiveUp(s)
    \/ \E f \in Taught : \/ BeginStep(f) \/ CheckStep(f) \/ ConfirmStep(f)
                         \/ SubmitExam(f) \/ PostResult(f)
    \/ Crash \/ Tick

Spec == Init /\ [][Next]_vars

-----------------------------------------------------------------------------
(* Properties *)

Uploading == {job[s].file : s \in {r \in Slots : job[r].pc \in {"stored", "row"}}}

UploadedIn(h) == {f \in Files : <<f, h>> \in uploads}

UploadsIn(h) == Cardinality(UploadedIn(h))

\* Every upload ends with both its row and its object or with neither of
\* them, except where the clean-up of upload_student_file was cut short: by a
\* crash, a time-out of the unguarded flush, or a failing refresh or delete.
UploadIsAllOrNothing ==
    \A f \in Files \ (leaked \cup Uploading) : f \in objects <=> f \in Rows

\* What the requests in progress rely on: at most one holds the writer and at
\* most one is uploading; an upload has no row yet, and an object once it was
\* stored; a step that a session inserts is still missing; an exam is asked for
\* only for a file that was taught through.
OneWriter == \A r, s \in Slots : job[r].writing /\ job[s].writing => r = s

OneUpload ==
    \A r, s \in Slots :
      job[r].pc \in {"quota", "stored", "row"} /\ job[s].pc \in {"quota", "stored", "row"}
        => r = s

JobIsSound(s) ==
    LET j == job[s] IN
    /\ j.pc # "idle" => j.file \in Files
    /\ j.pc \in {"quota", "stored", "row"} => j.file \notin Rows \cup leaked
    /\ j.pc = "quota" => j.file \notin objects
    /\ j.pc \in {"stored", "row"} => j.file \in objects
    /\ j.pc \in {"confirm", "evaluate", "model", "answered", "exam"} => j.file \in Taught \cap Rows
    /\ j.pc \in {"row", "answered"} => j.writing
    /\ j.opens => j.writing /\ j.pc \in {"confirm", "evaluate", "model", "answered"}
                  /\ step[j.file].status = "none"
    /\ j.pc = "exam" => step[j.file].status = "completed"

JobsAreSound == \A s \in Slots : JobIsSound(s)

\* Unless one request wrote the usage row over a newer version of it, the
\* quota of get_or_create_usage is exact: the row counts the files and the
\* characters of its window, and no window exceeds the two limits, whatever
\* failed, crashed or expired meanwhile.
QuotaIsExact ==
    ~staleWrite =>
      /\ \A h \in Hours : UploadsIn(h) <= FileLimit /\ said[h] <= CharLimit
      /\ usage.there => /\ usage.files = UploadsIn(usage.start)
                        /\ usage.chars = said[usage.start]

\* No request takes the completion of a file's step back, although the chat
\* and the endpoints write steps they loaded before a call of the model.
FileCompletionIsFinal ==
    [][\A f \in Taught : step[f].status = "completed" => step'[f].status = "completed"]_vars

\* An exam is stored, and graded by the server, only for a file whose
\* teaching step is completed and whose row exists.
ExamClosesTeaching ==
    /\ \A f \in exam : f \in Rows /\ step[f].status = "completed"
    /\ \A f \in Taught : <<f, "graded">> \in results => f \in exam

IInv ==
    /\ TypeOK
    /\ OneWriter /\ OneUpload /\ JobsAreSound
    /\ UploadIsAllOrNothing
    /\ ExamClosesTeaching

-----------------------------------------------------------------------------
(* Why the quota is exact: the inductive invariant behind QuotaIsExact.     *)

Untouched(h) == UploadedIn(h) = {} /\ said[h] = 0

\* A usage row tells what happened in its window, but for n characters that are
\* not said yet; nothing happened later.
IsExact(u, n) ==
    /\ u.start <= now
    /\ u.files = UploadsIn(u.start) /\ u.chars = said[u.start] + n
    /\ \A h \in Hours : h > u.start => Untouched(h)

RowIsExact ==
    /\ usage.there => IsExact(usage, 0)
    /\ ~usage.there => \A h \in Hours : Untouched(h)

\* The row u is b with n more characters, or starts a later window with them.
Since(b, u, n) ==
    \/ b.there /\ u.start = b.start /\ u.files = b.files /\ u.chars = b.chars + n
    \/ (b.there => u.start > b.start) /\ u.files = 0 /\ u.chars = n

\* The requests that hold a usage row.
Counting(s) == job[s].pc \notin {"idle", "exam"}

\* What a session holds of the usage row differs from the row it loaded in the
\* columns it assigned, by the answer it is about to commit or a new window.
Holds(j) ==
    /\ j.use.there /\ j.use.start <= now
    /\ \A c \in Columns \ j.touched : j.use[c] = j.base[c]
    /\ Since(j.base, j.use, j.chars)

CountIsOK(s) ==
    LET j == job[s] IN
    /\ Holds(j)
    /\ j.pc = "answered" => j.use.chars <= CharLimit /\ j.touched # {}
    /\ j.pc # "answered" => j.chars = 0

QuotaInv ==
    /\ \A h \in Hours : IsFiniteSet(UploadedIn(h))
    /\ ~staleWrite =>
         /\ \A h \in Hours : UploadsIn(h) <= FileLimit /\ said[h] <= CharLimit
         /\ RowIsExact
         /\ \A s \in Slots : Counting(s) => CountIsOK(s)

=============================================================================
