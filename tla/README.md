# TOFAN Academy: models, checks and proofs

TOFAN is a teaching platform: a FastAPI application over SQLAlchemy in which
students buy access to stages, courses and lectures, learn with teacher agents
(language models behind a quota), pass assessments and receive certificates,
and in which a "main manager" agent and administrators run the academy. This
directory holds TLA+ modules that model the parts of it where requests meet,
TLC configurations that check them on small instances, and theorems about them
checked by TLAPS.

Paths below are relative to the repository (`app/...`).

## 1. The system

### Components

| component | state it keeps | operations | module |
|---|---|---|---|
| payments and entitlements (`api/student_identity.py`, `agents/payment_tools.py`, `api/main_manager.py`), access (`agents/academy_access_policy.py`, `api/content_admin.py`) | `PaymentTransaction`, `CurriculumEntitlement`, `Entitlement`, paid `TeachingUsage`, audit rows | request, upload a proof, confirm (router, dashboard, agent tool), reject; who may open a paid stage or lecture | `Payments`, `AccessLedger` |
| mastery, progress, certificates (`api/teacher_teaching.py`, `agents/teaching_policy.py`, `learning/`, `certificates/`) | `TeachingStep`, `LearningProgress`, `LearningWeakPoint`, `LearningNextStep`, `Certificate` | begin a step, check understanding, confirm, submit the assessment, issue the certificate | `Mastery`, `LessonLadder` |
| student assessments (`api/student_assessments.py`, `agents/assessment_generator.py`) | questions, attempts, reports | generate, start, submit (two endpoints), the manager's report tool | `Assessments` |
| student files, quota, file teaching (`api/student_files.py`, `storage.py`, `agents/teaching_policy.py`, `api/teacher_chat.py`, `api/teacher_teaching.py`) | `ContentFile`, stored objects, `TeachingUsage` windows, steps and exam of a file | upload, chat, confirm, evaluate, exam, submit | `FileTeaching` |
| sessions, accounts, roles (`auth/`, `api/auth.py`, `api/users.py`, `api/admin_users.py`) | `User`, `AuthSession`, `UserRole` | register, log in, look up, revoke, grant and take roles, activate | `Accounts` |
| passkeys, one-time passwords, profile (`auth/webauthn.py`, `auth/otp.py`, `api/student_identity.py`) | challenges, credential counters, `StudentProfile` | begin and finish, create and consume a code, edit, verify | `Passkeys` |
| main manager, teachers, runtime (`agents/main_manager.py`, `agents/runtime.py`, `agents/tools.py`, `api/agent_admin.py`, `api/teacher_admin.py`) | `Agent`, `AgentRun`, events, the owner's chat | chat, run a tool, provision, set a status, delegate | `Workforce` |
| curriculum content (`api/academy_admin.py`, `agents/curriculum_content_generator.py`, `scripts/seed_*.py`) | `CurriculumUnit`, `CurriculumLesson`, `is_active` of a course | create, update, delete, reorder, generate, seed at a start | `CourseContent` |
| conversations and memory (`agents/memory*.py`, `api/agent_memory.py`) | conversations, numbered messages, memory items, permissions | chat, extract, delete, edit, remove, permit, revoke | `Conversations` |
| notifications, views, migrations, web client | | | none, see "Not modelled" |

### How they interact

* Every endpoint authenticates first (`auth/dependencies.py`): the session row
  is looked up and its `last_seen_at` written **and committed**, then the
  handler works in the same SQLAlchemy session. `get_db` closes it at the end:
  what was not committed is rolled back.
* The endpoints are ordinary functions, which FastAPI runs in a pool of
  threads; only the uploads are coroutines. Two requests therefore interleave
  between any two statements. There is no lock in the application, no
  `SELECT ... FOR UPDATE`, no version column.
* A loaded row is a copy. SQLAlchemy writes, at the next query (autoflush), at a
  flush or at the commit, the columns whose value differs from the loaded one,
  in an `UPDATE ... WHERE id = ...` that does not repeat the check the handler
  made. Every race described here comes from that.
* `MainManagerService.process_event` commits the session of its caller and
  raises when the agent `tofan-main` is not active; `AgentRuntime.execute_tool`
  adds its run first and commits after the tool, and the manager's own handlers
  commit in the middle.
* Payments open usage rows that the chat opens too; assessments feed the next
  step and the certificate; the administrator reorders the lessons whose
  positions the teaching steps carry; a profile must be verified by a passkey
  before a payment; provisioned teachers are the ones chats address.

### Two databases

`db/session.py` accepts SQLite (the default, and what CI and the smoke tests
use) and requires PostgreSQL in production (15-16). `Payments` and `Mastery` take the
difference as the constant `SingleWriter`:

* `FALSE`, PostgreSQL at READ COMMITTED: an `UPDATE` locks its row, an `INSERT`
  its unique key, until the end of the transaction; a waiter goes on afterwards
  with the values it holds, and the loser of a unique key fails.
* `TRUE`, SQLite: the first write takes the whole database; another request
  that wants to write waits, and fails when the driver's timeout has passed
  (`GiveUp`). Reads see what is committed. Since authentication writes, no
  request starts while another one holds the writer.

`FileTeaching` and `Assessments` hold the writer during calls of a model, so they
are models of SQLite. In `Accounts`, `Passkeys`, `Conversations`, `Workforce` and
`CourseContent` a request reads, and its writes are one step at the commit: the
interleavings of PostgreSQL, of which the single writer of SQLite allows a part.

One caveat: the times of the schema are declared with a time zone, the code
compares them with the zoneless `datetime.utcnow()` (`auth/sessions.py:46`,
`agents/teaching_policy.py:48`, `auth/webauthn.py:148`), and PostgreSQL's driver
returns zoned times, so that the comparison raises; `auth/otp.py` converts
first. At this commit no authenticated request gets through on PostgreSQL. The
models describe the handlers behind that expression.

## 2. Modules

In every module a *slot* is a request in progress and `job[s]` what its session
has loaded and not committed: `pc` is the point it has reached, other fields are
the values it read and will rely on. An action is the code between two points at
which others may be seen: a query, a flush, a commit, an answer of a model. What
fails ends in one action that forgets the job (`Rollback`, `Fail`, `End`, `Crash`).

| module | configurations | proofs |
|---|---|---|
| `Payments`, refining `AccessLedger` | `MCPayments`: `PaymentsSqlite`, `PaymentsLive` | `PaymentsProofs` |
| `Mastery`, refining `LessonLadder` | `MCMastery`: `MasterySqlite`, `MasteryEdited`, `MasteryCertificate` | `MasteryProofs` |
| `FileTeaching` | `MCFileTeaching`: `FileTeaching` | `FileTeachingProofs` |
| `Assessments` | `MCAssessments`: `Assessments` | `AssessmentsProofs` |
| `Accounts` | `MCAccounts`: `Accounts` | `AccountsProofs` |
| `Passkeys` | `MCPasskeys`: `Passkeys` | `PasskeysProofs` |
| `Workforce` | `MCWorkforce`: `Workforce` | `WorkforceProofs` |
| `CourseContent` | `MCCourseContent`: `CourseContent` | `WorkforceProofs`, second part |
| `Conversations` | `MCConversations`: `Conversations` | `ConversationsProofs` |

**Payments.** A confirmation goes

    read --> update --> insert --> commit --> (idle)
      |         |          |
      |         |          +-- duplicate key: rolled back
      |         +-- product refused, waited too long: rolled back
      +-- refused, or already confirmed (--> notify, on the router's path)

`UpdateStatus` is the first query after `transaction.status = CONFIRMED`: the
autoflush takes the row lock, and only then the existing rows are looked up.
That order is why a payment confirmed twice at once grants once. The commit is
the manager's event (`FinishSi`), the runtime (`FinishTool`), or missing
(`FinishMm`). Products are data to the extent the branches tell them apart.
`HasStageAccess` and `HasLectureAccess` are the decisions the access policy
makes from those rows; `ConfirmedIsServed` is stated with them. The environment
(manager and teachers switched on and off, chats opening usage rows, stages
leaving and returning to the sale) moves freely between the steps.
`AccessLedger` says the same to the student in three actions: a payment is
requested, confirmed together with all the access it buys, or rejected.
`KeepsTheLedger` is the refinement, in which a student has access to the items of
which there is a row; the points between `read` and `commit` are stutters.
`FinalSpec` promises besides that a decision stays.

**Mastery.** The same idea for one student and one course. `plan` is the sequence
of lessons; `steps[l][p]` the step whose scope is lesson `l` and whose position
is `p`, which differ once lessons are moved. The order of the lessons is asked for
only by a teacher that has a course (`teacher_teaching.py:481`): `ReadPlan` is its
`begin_step` and its chat, `BeginElsewhere` the `begin_step` of a teacher created
without a course, which opens any lesson at any position (`Elsewhere` holds pairs of
such a teacher and a position). A chat about a file of the academy opens, besides the
current lesson, a step of position 1 for the file (`ReadPlanWithFile`, `CompleteFile`),
which counts as the first lesson from then on (`Done`). The manager an event of an
assessment asks for may be inactive at any time (`AttemptKept`). A confirmation goes
`read --> track --> recalc --> flush --> commit`. `CompleteStep` flushes the
completed step and looks for the progress row; `TrackProgress` writes that row
and reads the weak points; `RecalculateNextStep` reads the next-step row;
`FlushProgress` writes it and decides about the certificate from what is
committed by then and the own step; `CommitStep` commits, or loses everything to
a duplicate certificate. `LessonLadder` says the same to the student: open the next
step of the course's teacher, open a step aside, be excused from the first one,
complete a step (perhaps with the certificate), pass, be certified. `ClimbsTheLadder` is the refinement, through `INSTANCE ... WITH`.

**FileTeaching.** One student and one teacher: the object store, the rows, the
usage row with its window (`now` is a clock of quota windows), the steps of
files, the exam and its results. An upload stores the object, flushes the row,
registers the file and commits; its clean-up deletes the object. The chat and
the endpoints load the step, ask a model, and write. `leaked` and `staleWrite`
are history: the uploads whose clean-up was cut short, and whether a usage row
was written over a newer version of it.

**Assessments.** One student and the assessment of one course: the paper (the
questions, written once by a model), attempts, the student's endpoint with its
two commits, the teacher's with one, and the manager's two tools: `ReceiveResult`
reports a stored result, `DecideEvent` records what the manager's model decides,
of any attempt and unchecked. `twice` are the attempts two submissions loaded in
progress, `cut` those whose request ended between its commits, `decided` those the
model decided an event of.

**Accounts.** Registration, log-in, the look-up with its write, revocation of one
or all sessions, roles and activation. `EnsureOwner` is the commit of its own in
which the configured owner gets the role.

**Passkeys.** Challenges of three kinds, signature counters, attempts of one-time
passwords, and the profile that a verified passkey verifies and an edit resets.
The authenticator is external: it creates keys in answer to a registration
challenge, several of them if asked again, and answers an authentication with a
counter at most one higher than its last. Only the `credential_id` is unique, so two
requests that loaded one registration challenge may store two credentials.

**Workforce.** The owner's chat with the manager, whose tools run inside the
transaction of the chat and commit on the way; a failure rolls back only what
came after. A course of a handler takes `LookUp` (of the slug, or of the teacher),
`FlushCourse` (the row is written and kept, then `get_manager` asks for the active
manager) and `CommitCourse`; between the last two the manager may be deactivated.
`madeBy` and `announced` relate a teacher to its run and event; `overrun` counts the
teachers a slot has created since the deactivation. The manager's endpoints call
the same handlers without a run (`BeginDirect`), and the administration of agents and
teachers interleaves with all of it. A call that sets the status already stored
writes nothing and is no action.

**CourseContent.** Units are rows in the order of their keys, each with a
position. The generator reads the scope of a course, waits for the model, looks
everything up again by position and saves with one commit. A reorder puts the
moved unit to position 0 and then writes the new numbers row by row, each of
which must be free under the unique key (`Accepted`). A start of the application seeds the delivery map and the registry.

**Conversations.** One agent and one user. A chat opens or finds the
conversation, flushes the question, may commit it with a tool, flushes the
answer, extracts memory from all messages and commits. `shared` is history: the
conversations that two chats, or a chat and a deletion, worked on at once.

## 3. Runs

| run | bounds | shows |
|---|---|---|
| `payments_sqlite` | 3 payments of one student (a course with a lecture, one without, global access), 2 requests, one teacher, SQLite | `ConfirmedIsServed`, `RowsAreBought`, `SeatsAreBought`, `AcknowledgedIsServed`, `DecisionIsFinal`, `KeepsTheLedger` |
| `payments_live` | 2 payments of one stage, 2 requests, router and dashboard, PostgreSQL, fairness | `UniqueRows`, `RequestsTerminate` |
| `mastery_sqlite` | 2 lessons, 1 file, 1 teacher without a course with one position, asked for the second lesson only (`Asked`), an assessment, 2 requests, SQLite | `StepsInOrder`, `CertificateNeedsPass`, `NextStepIsCurrent`, `ClimbsTheLadder` |
| `mastery_edited` | 1 lesson, a second one added, both moved, no assessment, 2 requests, PostgreSQL | `CompletionIsCertified`, `CompletionIsFinal` |
| `mastery_certificate` | 2 lessons, 1 request | **violates** `CertificateIsEarned` |
| `files` | 2 files, one of them taught, file limit 1, 2 units of answer, 2 windows, 2 requests | `UploadIsAllOrNothing`, `QuotaIsExact`, `ExamClosesTeaching`, `FileCompletionIsFinal` |
| `assessments` | 2 papers, 3 attempts, 2 requests | `ShownIsGraded`, `CompletionIsPassed`, `VerdictsAreAnnounced`, `GradedOnce` |
| `accounts` | 2 users, one of them the configured owner, 3 sessions, 2 requests | `OwnerIsRecognised`, `OwnerRemains`, `RevocationIsFinal` |
| `passkeys` | 3 challenges, 2 credentials, counters to 3, 2 edits, 2 attempts, 2 requests | `ChallengeIsUsedOnce`, `CounterAdvances`, `EditNeedsVerification` |
| `workforce` | 2 courses, 2 tool runs, 1 chat, 2 requests | `EffectsAreLogged`, `ProvisioningIsComplete`, `UnansweredChatsActed`, `DeactivatedManagerStops` |
| `content` | 3 units in 3 positions, 1 lesson each, 1 request next to the seeds | `IInv`, `ContentIsKept`, `ReorderIsExact` |
| `conversations` | 2 conversations, 2 messages, 1 fact, 2 items, 2 requests | `MessagesAreNumbered`, `DeletedIsForgotten`, `MemoryIsUnique`, `RemovalIsFinal`, `RevocationHolds` |

Type invariants and inductive invariants are theorems and not repeated in the
runs, except in `content`; all of them, the additional ones of section
4 included, were checked by TLC on the runs' instances before they were proved.

Why the bounds are enough: a race needs two requests, and a third one adds a
second waiter for the same row, which changes nothing but the order. In `content`
one request suffices, as edits and the seeds act between its points. Two
payments of one product and one that shares its rows meet on every row and key;
students do not share rows, so one student suffices. Two lessons are the least
that can be in or out of order; two messages are the two of a chat, and when they
are deleted or rolled back there is room for the next; two items can hold one
fact twice; a limit of one file is exceeded by two; three challenges are one of
each kind, or two answers of one credential after its registration; two credentials
can answer one challenge. Where a
theorem exists it does not depend on the bounds. Slots are symmetric in the
safety runs, and no liveness run uses symmetry. `CHECK_DEADLOCK FALSE` is said
only where the bounded sets can be used up: sessions, challenges, and
conversations with their items.

`RequestsTerminate` assumes weak fairness of each request (a thread that has a
statement to run runs it) and strong fairness of the four steps that wait for a
row or a key: PostgreSQL queues the waiters, so that a row released again and
again is had at some time. Nothing is assumed of the students, administrators
or of the manager. Elsewhere nothing has to happen: a request may always fail or
its process stop, which is why no other module states liveness.

### What the violation says

`mastery_certificate`. The certificate asks whether all *stored* steps are
completed; steps are stored when they are opened, so the first completed
lesson (and the assessment, where there is one) earns the certificate
(`certificates/service.py:23`).

### What the properties concede

The exceptions in the properties, and in the bounds of the runs, are what the
code does: without them TLC finds a counterexample, or the run would be of a path
that plainly does not keep the property.

* A payment loaded as pending may be decided twice: a confirmation and a
  rejection that overlap overwrite each other, and the access stays
  (`student_identity.py:621`, `DecisionIsFinal`).
* `confirm_manager_payment` returns the result of the confirmation and never
  commits: the administrator reads "confirmed", the payment stays pending
  (`api/main_manager.py:67`). The run leaves the dashboard out for that reason.
* A confirmation that loaded a verified step completes it though a check
  withdrew the verification since (`teaching_policy.py:127`).
* Completed steps are known by position: after lessons were swapped a student may
  open a lesson while the one now before it was never completed
  (`teacher_teaching.py:486`), so `StepsInOrder` is for a course that is not edited.
* A teacher created without a course asks for no order: a student may begin, and
  complete, any lesson of any course with it, and progress and certificate count the
  step (`teacher_teaching.py:481`). `StepsInOrder` speaks of the course's teacher, and
  `LessonLadder` takes these steps aside. With the course's own teacher a completed
  step of an academy file stands in for the first lesson (`Climbed`, `Excuse`).
* `NextStepIsCurrent` holds on SQLite because the writer is taken before the weak
  points are read; with row locks it does not.
* `CompletionIsCertified` holds although neither of two sessions that complete the
  last two steps sees the other's step: both write the next-step row, so one waits
  for the other and reads afterwards.
* Two submissions of one attempt may grade it twice (`twice`); two removals of
  owners may leave none (`Overtaken`); a challenge loaded by two requests is
  accepted by both (`twice`), a registration too if they bring two credentials;
  two chats of one conversation number and remember twice (`shared`).
* `manager.event_decision` records a completion, or a confirmed payment, for whatever
  its model says (`agents/tools.py:445`); `CompletionIsPassed` leaves these attempts
  out (`decided`), and the events of `Payments` are those its own handlers record.
* A tool that has looked the active manager up creates its teacher although the
  manager is deactivated before the commit (`main_manager.py:591`): one in each
  request, which `DeactivatedManagerStops` counts.
* A chat that ends with an empty text stores its question with neither an answer nor
  a tool run (`agent_chat.py:61`); `UnansweredChatsActed` is about chats that failed.
* A student's verdict is lost to the manager when the request stops between its
  two commits (`cut`).

Facts met while modelling, of use to a maintainer:

* `teacher_chat.py:326` is one comment line with a literal `\n` in it, which
  swallows the `append_message` of the student's question and the branch for
  curriculum steps. Ordinary chats with a teacher store the answers only.
* A memory item that was removed or edited is extracted again by the next chat,
  since every chat reads all messages; permissions of other agents have no
  effect, as an agent reads the items of its own conversations only. On PostgreSQL
  a conversation that ever had an item cannot be deleted (foreign key).
  `can_delete`, `deactivate_memory_item` and `update_memory_item` are used by nothing.
* Specialists cannot be provisioned: `main_manager.py:554` names a function that is
  not imported. `teacher_admin.py:210` reactivates archived teachers, which
  `main_manager.py:623` forbids the manager.
* `init_db` runs at every start (`main.py:45`). `seed_global_curricula` reactivates
  deactivated courses and resets the positions of stages. A save of generated
  content in progress still reaches a course deactivated meanwhile.
* A reordering nobody disturbs may be refused (409), depending on the order of
  the keys, against the comment at `academy_admin.py:835-837`. On SQLite foreign
  keys are not enforced, and deletions leave orphans.
* Nothing resolves a weak point (`progress_service.py:88`): after one failed check
  the next step asks for revision for good. The generator's message "complete"
  (`curriculum_content_generator.py:101`, `390`) may be untrue after deletions. Teachers
  activated after a global payment get no paid seat (`payment_tools.py:142`).

## 4. Proofs

Every theorem holds for all values of the constants that satisfy the module's
assumptions, which TLC evaluates in the runs and which say only that the sets
are finite or disjoint, that "none" values are not members, and that bounds are
numbers: `ProductAssumption`, `DisjointAssumption` (`Payments`), `PlanAssumption`
(`Mastery`), `AbsentAssumption` (`Assessments`), `OwnerAssumption` (`Accounts`),
`BoundAssumption` (`Passkeys`, `Conversations`), `NoneAssumption` (`Workforce`),
`LimitAssumption` (`FileTeaching`), `SizesAssumption` (`CourseContent`).

The argument is the same everywhere. A property about stored rows is not
inductive, since a request that is about to write has checked what it relies on
long ago. `IInv` adds what each request *knows* (`JobOK`, `JobIsSound`): what it
has loaded that can no longer change, or is marked by a history variable if it
did. One lemma says that a step of one slot keeps the knowledge of the others
(`KeptJob`), one lemma for each action that the action keeps `IInv`, and `Next` is
their sum.

* **`PaymentsProofs`**: `Invariance` and from it `ConfirmationIsAtomic`,
  `EventsAreTrue`, `RowsAreUnique`, `RejectionsAreRecorded`, `SeatsBought`,
  `DecisionsStay`, and `AnswersAreTrue` when the dashboard's path is not among the
  requests. Between the look-up of the missing rows and the commit it is the job
  that knows what is there: `Covered`. Rows are never deleted, so `Covered` survives
  the steps of others; `KeysOK` says that two sessions about to commit hold
  different keys. `RowsBought` counts: a student has at most as many rows of a stage,
  a lecture or global access as confirmed payments that bought it. Its invariant
  `RowsInv` adds that one request at a time holds the lock of a status, that what it
  will insert is bought by its transaction (`GrantOK`), and that nothing of it is left
  to insert for a transaction confirmed before; so each row comes with a payment that
  was not counted yet.
  `LedgerKept`: `Spec` implies `KeepsTheLedger`. What a commit inserts is in the offer
  of its payment, and nothing if that was confirmed before (`GrantOK`); that the
  payment is served afterwards is `IInv` of the next state; and a request in progress
  works on a payment that was requested (`Asked`). Of every other action it is
  shown that it leaves the statuses and the rows of content alone.
* **`MasteryProofs`**: `Invariance`, `LessonsInOrder`, `CertificateEarned`,
  `ProgressAgrees`, `CompletionStays`. Every lemma of an action proves
  `IInv' /\ Advance`: what is stored, completed or passed stays so, and the plan
  changes only by edits.
  `NextStepCurrent` assumes `SingleWriter`, and without it is false: with row
  locks a confirmation reads the weak points before it waits for the next-step row,
  and writes what they asked for when it read them. `NextInv` says that one request
  is writing and that what it decided is what the weak points it will commit ask for
  (`Decision`).
  `CompletionCertified` needs no such assumption. `CertificateInv` says what a
  confirmation between flush and commit knows: the certificate exists, or it writes
  one, or some *other* step is unfinished. The last can become untrue only by another
  confirmation's commit, and there is at most one between flush and commit
  (`Committing`), because both write the next-step row.
  `LadderClimbed`: if the course is not edited, `Spec` implies `ClimbsTheLadder`.
  Opening a step is `Open` because of `JobOK`, or `StepAside`; a file is completed at
  position 1 (`FilesFirst`), which is `Excuse`; a commit is `Complete`, `Certify` or, for
  a lost certificate, a stutter.
* **`FileTeachingProofs`**: `Invariance`, `UploadsAreWhole`, `ExamsFollowTeaching`,
  `CompletionStays`, `QuotaExact`. `JobIsSound` says what the writer of the database
  relies on: it is alone, and the step it will insert is missing. For the quota,
  `QuotaInv` relates three copies of one row: the stored one counts its window
  exactly (`RowIsExact`), what a request loaded differs from what it holds only in the
  columns it assigned (`Holds`), and what it holds is what it loaded plus its own
  answer, or a new window (`Since`). The written columns alone reach the table, which
  is why a row written over a newer version (`staleWrite`) ends the guarantee.
* **`AssessmentsProofs`**: `Invariance`, `QuestionsStay`, `CompletionsArePassed`,
  `VerdictsReachTheManager`, `GradesStay`. An attempt two requests hold is in `twice`
  (`SharedAttemptIsMarked`), and a reported one is held by nobody (`ReportsAreAlone`).
* **`AccountsProofs`**: `Invariance`, `OwnerRecognised`, `OwnerStays`,
  `RevocationStays`. A request about to open the owner's session knows that the row
  of the role exists, and role rows are never deleted.
* **`PasskeysProofs`**: `Invariance`, `ChallengeUsedOnce`, `CounterOnlyAdvances`,
  `EditedIsUnverified`. A challenge that one request holds is unused; the counter a
  request has checked is below the one it will write.
* **`WorkforceProofs`**: `Invariance`, `EffectsLogged`, `ProvisioningComplete`,
  `UnansweredActed`, `DeactivationStops`. A run and a chat belong to one request
  (`HeldOnce`), and the courses a provisioning is done with keep their teachers. A
  request that has overrun a deactivation is not about to create another teacher
  (`OverrunIsPast`).
  Its second part is about `CourseContent`, taken as the instance `C`, with
  `C!SizesAssumption` as the hypothesis that stands for the module's assumption:
  `ContentInvariance` (of its `IInv`), `ContentStays` (`ContentIsKept`), `ReorderPlaces`
  (`ReorderIsExact`). The numbers of a reordering are sizes of sets: the siblings
  before a unit are strictly fewer than those before a later one (`BeforeGrows`), so
  the numbers are distinct and at most n, and n distinct numbers of 1 .. n are all
  of them (`NumbersGiven`, `OneToN`). That positions stay unique needs, besides what
  the flush checks (`Accepted`), that no position was loaded twice, a conjunct of
  `JobIsSound` that induction asked for.
* **`ConversationsProofs`**: `Invariance`, `Numbered`, `Forgotten`, `Unique`,
  `RemovalStays`, `RevocationStays`. `StoredAreNumbered` is needed for the rollback:
  the stored messages are 1 .. n on their own, and the pending ones follow. That
  a last message exists at all is proved without induction: `<` is well-founded on
  the naturals (library theorem), so a least counterexample would exist
  (`LeastNumber`, `Greatest`).

* **No two requests on one row.** The properties concede races (section 3). These
  theorems show which overlaps the concessions are for: they hold without them on
  every behaviour in which no two requests work on the same row at once, with the
  same failures, crashes and time-outs and any overlap elsewhere. The hypothesis is a
  condition on the behaviour, `[]Apart`, met for example by every behaviour with one
  request at a time.

  | theorem | what must not overlap | what then holds |
  |---|---|---|
  | `ApartDecisions`, `ApartLedger` | two requests that decide one payment | decisions are final; `AccessLedger` with `FinalSpec` |
  | `ApartGrades` | two submissions of the attempt | its verdict stays, its completion is of a passed attempt or decided by the model |
  | `ApartChallenges` | two requests on the challenge | it is accepted once at most, compared `MaxAttempts` times at most |
  | `ApartCounters` | two assertions of the credential | its counter never falls |
  | `ApartEdits` | an edit and another edit, log-in or verification | an edited profile is pending |
  | `ApartOwner` | a removal and a change of the accounts and roles it has read | an owner remains |
  | `ApartConversations` | two chats in the conversation | messages numbered, facts once, nothing left when deleted |
  | `ApartQuota` | two uploads or chats | `QuotaIsExact` and no stale write |

  Four of them hold for each attempt, challenge, credential or conversation on its
  own (`ApartGrades`, `ApartChallenges`, `ApartCounters`, `ApartConversations`):
  requests on the others may overlap as they like. What no request does can overlap
  one as well: `ApartOwner` also supposes that the bootstrap script does not
  give the role to the target of a removal in progress (`ScriptWaits`),
  `ApartConversations` that the conversation is not deleted during a chat
  (`DeletionWaits`). The argument is either an invariant, what a request has loaded is
  still what is stored (`Fresh`, `CountIsFresh`, `EditIsFresh`), or that the history
  variable of the concession never gets the item (`NotTwice`, `NotShared`). What
  failures cause (`cut`, `leaked`) and what an administrator writes (`edited`) stays
  conceded.

Every safety and action property a passing run checks is stated by one of these
theorems. Only model-checked: the violation, and `RequestsTerminate`, since liveness
under fairness and `ENABLED` are out of the prover's reach.

## 5. Not modelled

* Language models, the object store, authenticators, extraction of text: external
  or pure. Their answers are nondeterministic choices.
* Notifications: rows inserted with the event they tell of, marked as read in one
  commit of one request.
* Views (`manager_dashboard`, `learning_progress`, catalogues), security headers,
  the web client: they change nothing.
* Migrations run alone at the start. Validation of curriculum documents is pure.
* Lessons named otherwise than the client does. The scope of a step is text the
  client sends, and only a teacher with a course compares it with the plan: text
  that names the course without a lesson, or a lesson that does not exist, counts for
  the certificate but not for the progress, and with it `CompletionIsCertified` would
  not hold, since no next-step row is written. A second teacher of one course is a
  case of `Elsewhere`, without its order.
* In `CourseContent` a lesson is named by its position in its unit, and a change of
  that position (`EditLesson`, the reordering of lessons) is left out; `Mastery` moves
  lessons (`MoveLesson`).
* Institutions, programs, stages and academy periods are created and changed by
  the patterns of units and lessons and not repeated. Learning outcomes and the
  batch over many courses repeat the generation of one.
* Roles other than the owner's, passwords, display names, the account the payments
  go to, the stored object of a payment proof: nothing that is modelled depends on
  them.

`PROJECT.json` lists every component with its status, the hazards of the code at
their lines with the properties about them, and the source lines each definition
stands for.

## 6. Plan

What would add most next:

1. Composition of `Passkeys` and `Payments` over the verified profile, and of
   `CourseContent` and `Mastery` over the positions of lessons, with the theorem that
   each component's invariant survives the composition.
2. More refinements beside `LessonLadder` and `AccessLedger`: an abstract quota that
   `FileTeaching` implements while `staleWrite` is false.
