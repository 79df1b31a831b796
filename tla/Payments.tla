------------------------------ MODULE Payments ------------------------------
(***************************************************************************)
(* Payment transactions and the access they buy: the student's payment     *)
(* request, the proof upload, the three ways an administrator confirms a   *)
(* payment, the rejection, and the rows a confirmation creates.            *)
(*                                                                         *)
(* FastAPI runs the (synchronous) endpoints in a thread pool, each with a  *)
(* database session of its own, so requests interleave between their       *)
(* statements.  A SLOT is such a request in progress; its job records what *)
(* the session holds and has not committed.  The database is modelled by   *)
(* what the handlers meet of it: committed rows are what other sessions    *)
(* read, an UPDATE takes a lock kept until the end of the transaction, a   *)
(* duplicate of a unique key fails, and whatever is not committed when the *)
(* session closes is rolled back.  PostgreSQL (READ COMMITTED) locks the   *)
(* row that is written; SQLite locks the whole database, and a session     *)
(* that waits too long for it fails.                                       *)
(***************************************************************************)
EXTENDS Naturals, FiniteSets

CONSTANTS
    Tx,          \* payment transactions that may be requested
    Users,       \* students
    Stages,      \* curriculum stages, sold as "curriculum_stage:<id>"
    Courses,     \* academy courses, sold as "academy_course:<id>"
    Lectures,    \* lectures of the academy courses
    Teachers,    \* teacher agents
    Global,      \* the product "global_curriculum", and the row it creates
    Other,       \* any other product key: request_payment accepts it
    Buyer,       \* user_id and product_key of each transaction: no handler
    Product,     \*   changes them once the request is recorded
    LecturesOf,  \* lectures of a paid course; {} if free, empty or unknown
    SingleWriter,\* the database has one writer at a time (SQLite)
    Slots,       \* requests in progress at once
    Kinds,       \* kinds of requests that arrive
    NoTx         \* target of an idle slot

Products == Stages \cup Courses \cup {Global, Other}

ASSUME ProductAssumption ==
    /\ Buyer \in [Tx -> Users]
    /\ Product \in [Tx -> Products]
    /\ LecturesOf \in [Courses -> SUBSET Lectures]
    /\ SingleWriter \in BOOLEAN
    /\ Kinds \subseteq {"si", "mm", "tool", "reject", "proof"}

ASSUME DisjointAssumption ==
    /\ NoTx \notin Tx
    /\ Stages \cap Courses = {}
    /\ Stages \cap Lectures = {}
    /\ Teachers \cap (Stages \cup Lectures) = {}
    /\ {Global, Other} \cap (Stages \cup Courses \cup Lectures \cup Teachers) = {}

(***************************************************************************)
(* A row of curriculum_entitlements is counted under its stage, a row of   *)
(* entitlements under its lecture, or under Global when it has none, and a *)
(* row of teaching_usage (source global_curriculum) under its teacher.     *)
(* The first and the last table have a unique constraint on the pair.      *)
(***************************************************************************)
NoContent  == Lectures \cup {Global}    \* entitlements, content_file_id NULL
UniqueItem == Stages \cup Teachers
Item       == NoContent \cup UniqueItem

Status == {"absent", "pending", "confirmed", "rejected"}
Pc     == {"idle", "read", "update", "insert", "commit", "notify"}
Op     == {"none", "si", "mm", "tool", "reject", "proof"}
Fact   == {"confirmed", "rejected"} \X Tx

VARIABLES
    \* committed database state
    status,      \* PaymentTransaction.status
    proofs,      \* transactions whose proof_file_id is set
    rows,        \* rows[u][i]: number of rows student u has for item i
    paid,        \* <<u, teacher>> whose usage row has paid_access
    audits,      \* AuditLog rows "payment.confirmed" and "payment.rejected"
    events,      \* runs of the main manager the payment handlers record:
                 \* payments.confirmed, .rejected
    \* the rest of the academy, as far as the handlers read it
    manager,     \* the agent tofan-main is ACTIVE
    teachers,    \* teacher agents whose status is active
    onSale,      \* stages that exist with a position other than 1
    \* requests
    job,         \* what the request in each slot is doing
    acks         \* transactions an endpoint answered "confirmed" for

db   == <<status, proofs, rows, paid, audits, events>>
env  == <<manager, teachers, onSale>>
vars == <<db, env, job, acks>>

NoJob == [pc |-> "idle", op |-> "none", t |-> NoTx, snap |-> "absent",
          ins |-> {}, pay |-> {}]

Job == [pc : Pc, op : Op, t : Tx \cup {NoTx}, snap : Status,
        ins : SUBSET Item, pay : SUBSET Teachers]

TypeOK ==
    /\ status \in [Tx -> Status]
    /\ proofs \subseteq Tx
    /\ rows \in [Users -> [Item -> Nat]]
    /\ paid \subseteq Users \X Teachers
    /\ audits \subseteq Fact
    /\ events \subseteq Fact
    /\ manager \in BOOLEAN
    /\ teachers \subseteq Teachers
    /\ onSale \subseteq Stages
    /\ job \in [Slots -> Job]
    /\ acks \subseteq Tx

Init ==
    /\ status = [t \in Tx |-> "absent"]
    /\ proofs = {}
    /\ rows = [u \in Users |-> [i \in Item |-> 0]]
    /\ paid = {}
    /\ audits = {}
    /\ events = {}
    /\ manager = TRUE
    /\ teachers = Teachers
    /\ onSale = Stages
    /\ job = [s \in Slots |-> NoJob]
    /\ acks = {}

-----------------------------------------------------------------------------
(* What a confirmation looks at and writes.                                *)

\* The session in s has written the status, and has not committed.
Locked(s) == job[s].pc \in {"insert", "commit"}

\* The sessions that have written anything: an agent run is stored before its
\* tool is called.
Writers == {s \in Slots : Locked(s) \/ job[s].op = "tool"}

\* A single writer keeps out every other one; authentication writes too
\* (last_seen_at of the session), so that no request starts meanwhile.
DatabaseFree == SingleWriter => Writers = {}

MayWrite(s) == SingleWriter => Writers \subseteq {s}

\* An UPDATE of a transaction row waits while another session has one that
\* is not committed.
RowFreeNoLock(s) == TRUE  \* variant: the status is not flushed early

RowFree(s) ==
    /\ MayWrite(s)
    /\ \A r \in Slots \ {s} : Locked(r) => job[r].t # job[s].t

\* The checks made after the status was set: a stage on sale, a paid course
\* with lectures.  Every other key takes the branch of global access.
Sellable(p) ==
    /\ p \in Stages  => p \in onSale
    /\ p \in Courses => LecturesOf[p] # {}

\* Global access looks for any paid entitlement without a content file, the
\* ones of lectures included.
HasNoContentRow(u) == \E i \in NoContent : rows[u][i] > 0

\* The lectures of a course are looked up one by one.
MissingLecturesAnyRow(u, p) ==  \* variant: the lookup ignores the lecture
    IF HasNoContentRow(u) THEN {} ELSE LecturesOf[p]

MissingLectures(u, p) == {i \in LecturesOf[p] : rows[u][i] = 0}

MissingGlobal(u) ==
    (IF HasNoContentRow(u) THEN {} ELSE {Global})
        \cup {a \in teachers : rows[u][a] = 0}

Missing(u, p) ==
    IF p \in Stages THEN {i \in {p} : rows[u][i] = 0}
    ELSE IF p \in Courses THEN MissingLectures(u, p)
    ELSE MissingGlobal(u)

SeatsAlways(p) == teachers  \* variant: every product opens the teachers

\* The teachers whose usage row becomes paid.
Seats(p) == IF p \in Stages \cup Courses THEN {} ELSE teachers

\* record_event: the run of the main manager, and the student's notification
EventsWith(what, t) == events \cup {<<what, t>>}

Close(s) == job' = [job EXCEPT ![s] = NoJob]

Goto(s, l) == job' = [job EXCEPT ![s].pc = l]

Receive(s, o, t) ==
    /\ o \in Kinds
    /\ job[s] = NoJob
    /\ DatabaseFree
    /\ job' = [job EXCEPT ![s] =
                  [NoJob EXCEPT !.pc = "read", !.op = o, !.t = t,
                                !.snap = status[t]]]

-----------------------------------------------------------------------------
(* The student: request a payment, upload its proof.                       *)

\* Requires also a verified profile and, for a stage, a configured payment
\* account: nothing else here reads them, so a request may come at any time.
RequestPayment(t) ==
    /\ status[t] = "absent"
    /\ DatabaseFree
    /\ Product[t] \in Stages => Product[t] \in onSale
    /\ status' = [status EXCEPT ![t] = "pending"]
    /\ UNCHANGED <<proofs, rows, paid, audits, events, env, job, acks>>

\* The status is read before the file is awaited and stored ...
ReceiveProof(s, t) ==
    /\ status[t] = "pending"
    /\ Receive(s, "proof", t)
    /\ UNCHANGED <<db, env, acks>>

\* ... and proof_file_id is written after it: the UPDATE waits for the row.
SaveProof(s) ==
    /\ job[s].pc = "read" /\ job[s].op = "proof"
    /\ RowFree(s)
    /\ proofs' = proofs \cup {job[s].t}
    /\ Close(s)
    /\ UNCHANGED <<status, rows, paid, audits, events, env, acks>>

-----------------------------------------------------------------------------
(* Confirmation, by the three paths that call confirm_payment_transaction: *)
(* "si" the student_identity router, "mm" the main_manager router, "tool"  *)
(* the agent tool payments.confirm.                                        *)

ReceiveConfirm(s, o, t) ==
    /\ status[t] # "absent"
    /\ o = "si" => Product[t] # Other
    /\ o = "tool" => manager
    /\ Receive(s, o, t)
    /\ UNCHANGED <<db, env, acks>>

Confirming(s, l) == job[s].pc = l /\ job[s].op \in {"si", "mm", "tool"}

RefuseConfirmWaiting(s) ==  \* variant: an inactive manager is waited for
    /\ Confirming(s, "read")
    /\ manager /\ job[s].snap = "rejected"
    /\ Close(s)
    /\ UNCHANGED <<db, env, acks>>

RefuseConfirm(s) ==
    /\ Confirming(s, "read")
    /\ ~manager \/ job[s].snap = "rejected"
    /\ Close(s)
    /\ UNCHANGED <<db, env, acks>>

\* Already confirmed: nothing is written; only "si" goes on to the manager.
RepeatConfirm(s) ==
    /\ Confirming(s, "read")
    /\ manager
    /\ job[s].snap = "confirmed"
    /\ IF job[s].op = "si"
         THEN Goto(s, "notify") /\ UNCHANGED acks
         ELSE Close(s) /\ acks' = acks \cup {job[s].t}
    /\ UNCHANGED <<db, env>>

AcceptConfirmRejected(s) ==  \* variant: a rejection may be taken back
    /\ Confirming(s, "read")
    /\ manager
    /\ job[s].snap # "confirmed"
    /\ Goto(s, "update")
    /\ UNCHANGED <<db, env, acks>>

AcceptConfirm(s) ==
    /\ Confirming(s, "read")
    /\ manager
    /\ job[s].snap = "pending"
    /\ Goto(s, "update")
    /\ UNCHANGED <<db, env, acks>>

\* The first query after the assignment flushes the new status (row lock);
\* then the product is checked and the rows the student lacks are found.

UpdateStatus(s) ==
    LET t == job[s].t IN
    /\ job[s].pc = "update"
    /\ RowFree(s)
    /\ IF Sellable(Product[t])
         THEN job' = [job EXCEPT ![s].pc = "insert",
                                 ![s].ins = Missing(Buyer[t], Product[t]),
                                 ![s].pay = Seats(Product[t])]
         ELSE Close(s)
    /\ UNCHANGED <<db, env, acks>>

\* Inserting a unique key waits for a session that holds the same key, and
\* fails if the row was committed since the check.
KeysOf(s) == {<<Buyer[job[s].t], i>> : i \in job[s].ins \cap UniqueItem}

KeysFree(s) ==
    \A r \in Slots \ {s} : job[r].pc = "commit" => KeysOf(r) \cap KeysOf(s) = {}

InsertRowsUnchecked(s) ==  \* variant: the tables have no unique constraint
    /\ job[s].pc = "insert"
    /\ Goto(s, "commit")
    /\ UNCHANGED <<db, env, acks>>

InsertRows(s) ==
    /\ job[s].pc = "insert"
    /\ KeysFree(s)
    /\ IF \E k \in KeysOf(s) : rows[k[1]][k[2]] > 0
         THEN Close(s)
         ELSE Goto(s, "commit")
    /\ UNCHANGED <<db, env, acks>>

CommitGrant(s) ==
    LET t == job[s].t
        u == Buyer[t] IN
    /\ status' = [status EXCEPT ![t] = "confirmed"]
    /\ rows' = [rows EXCEPT ![u] = [i \in Item |->
                   IF i \in job[s].ins THEN rows[u][i] + 1 ELSE rows[u][i]]]
    /\ paid' = paid \cup ({u} \X job[s].pay)
    /\ audits' = audits \cup {<<"confirmed", t>>}

\* student_identity: the manager's event commits the whole session.  Without
\* an active manager the event raises and nothing is kept.
FinishSi(s) ==
    /\ job[s].pc = "commit" /\ job[s].op = "si"
    /\ IF manager
         THEN /\ CommitGrant(s)
              /\ events' = EventsWith("confirmed", job[s].t)
              /\ acks' = acks \cup {job[s].t}
         ELSE UNCHANGED <<status, rows, paid, audits, events, acks>>
    /\ Close(s)
    /\ UNCHANGED <<proofs, env>>

\* The agent runtime commits after the tool returned.
FinishToolUncommitted(s) ==  \* variant: the runtime does not commit
    /\ job[s].pc = "commit" /\ job[s].op = "tool"
    /\ acks' = acks \cup {job[s].t}
    /\ Close(s)
    /\ UNCHANGED <<db, env>>

FinishTool(s) ==
    /\ job[s].pc = "commit" /\ job[s].op = "tool"
    /\ CommitGrant(s)
    /\ acks' = acks \cup {job[s].t}
    /\ Close(s)
    /\ UNCHANGED <<proofs, events, env>>

\* main_manager: the result is returned and the session is closed.
FinishMm(s) ==
    /\ job[s].pc = "commit" /\ job[s].op = "mm"
    /\ acks' = acks \cup {job[s].t}
    /\ Close(s)
    /\ UNCHANGED <<db, env>>

\* The event of a repeated confirmation.
FinishRepeat(s) ==
    /\ job[s].pc = "notify"
    /\ MayWrite(s)
    /\ IF manager
         THEN /\ events' = EventsWith("confirmed", job[s].t)
              /\ acks' = acks \cup {job[s].t}
         ELSE UNCHANGED <<events, acks>>
    /\ Close(s)
    /\ UNCHANGED <<status, proofs, rows, paid, audits, env>>

-----------------------------------------------------------------------------
(* Rejection (the same handler in both routers).                           *)

ReceiveReject(s, t) ==
    /\ status[t] = "pending"
    /\ Receive(s, "reject", t)
    /\ UNCHANGED <<db, env, acks>>

UpdateRejected(s) ==
    /\ job[s].pc = "read" /\ job[s].op = "reject"
    /\ RowFree(s)
    /\ Goto(s, "commit")
    /\ UNCHANGED <<db, env, acks>>

FinishReject(s) ==
    LET t == job[s].t IN
    /\ job[s].pc = "commit" /\ job[s].op = "reject"
    /\ IF manager
         THEN /\ status' = [status EXCEPT ![t] = "rejected"]
              /\ audits' = audits \cup {<<"rejected", t>>}
              /\ events' = EventsWith("rejected", t)
         ELSE UNCHANGED <<status, audits, events>>
    /\ Close(s)
    /\ UNCHANGED <<proofs, rows, paid, env, acks>>

-----------------------------------------------------------------------------
(* The database gives up a session that waits for the writer too long; the *)
(* process dies.  Both roll back what was open.                            *)

GiveUp(s) ==
    /\ ~MayWrite(s)
    /\ \/ job[s].pc \in {"update", "notify"}
       \/ job[s].pc = "read" /\ job[s].op \in {"proof", "reject"}
    /\ Close(s)
    /\ UNCHANGED <<db, env, acks>>

Crash ==
    /\ \E s \in Slots : job[s] # NoJob
    /\ job' = [s \in Slots |-> NoJob]
    /\ UNCHANGED <<db, env, acks>>

(* The rest of the academy.                                                *)

SetManagerStatus ==
    /\ DatabaseFree
    /\ manager' = ~manager
    /\ UNCHANGED <<db, teachers, onSale, job, acks>>

SetTeacherStatus(a) ==
    /\ DatabaseFree
    /\ teachers' = IF a \in teachers THEN teachers \ {a} ELSE teachers \cup {a}
    /\ UNCHANGED <<db, manager, onSale, job, acks>>

\* A chat with a teacher opens the usage row, unpaid.
OpenUsage(u, a) ==
    /\ DatabaseFree
    /\ rows[u][a] = 0
    /\ \A s \in Slots : job[s].pc = "commit" => <<u, a>> \notin KeysOf(s)
    /\ rows' = [rows EXCEPT ![u][a] = 1]
    /\ UNCHANGED <<status, proofs, paid, audits, events, env, job, acks>>

\* Stages are reordered, and deleted: position 1 is never on sale.
MoveStage(p) ==
    /\ DatabaseFree
    /\ onSale' = IF p \in onSale THEN onSale \ {p} ELSE onSale \cup {p}
    /\ UNCHANGED <<db, manager, teachers, job, acks>>

-----------------------------------------------------------------------------
Start(s) ==
    \E t \in Tx :
        \/ ReceiveProof(s, t)
        \/ ReceiveReject(s, t)
        \/ \E o \in {"si", "mm", "tool"} : ReceiveConfirm(s, o, t)

Progress(s) ==
    \/ SaveProof(s)
    \/ RefuseConfirm(s)
    \/ RepeatConfirm(s)
    \/ AcceptConfirm(s)
    \/ UpdateStatus(s)
    \/ InsertRows(s)
    \/ FinishSi(s)
    \/ FinishTool(s)
    \/ FinishMm(s)
    \/ FinishRepeat(s)
    \/ UpdateRejected(s)
    \/ FinishReject(s)
    \/ GiveUp(s)

Environment ==
    \/ \E t \in Tx : RequestPayment(t)
    \/ SetManagerStatus
    \/ \E a \in Teachers : SetTeacherStatus(a)
    \/ \E u \in Users, a \in Teachers : OpenUsage(u, a)
    \/ \E p \in Stages : MoveStage(p)

Next ==
    \/ \E s \in Slots : Start(s) \/ Progress(s)
    \/ Environment
    \/ Crash

Spec == Init /\ [][Next]_vars

(***************************************************************************)
(* A thread that has a statement to run runs it; a session waiting for a   *)
(* row or a key that is released again and again gets it, because          *)
(* PostgreSQL queues the waiters.  Nothing is assumed of the environment.  *)
(***************************************************************************)
FairSpec ==
    /\ Spec
    /\ \A s \in Slots : /\ WF_vars(Progress(s))
                        /\ SF_vars(SaveProof(s))
                        /\ SF_vars(UpdateStatus(s))
                        /\ SF_vars(UpdateRejected(s))
                        /\ SF_vars(InsertRows(s))

-----------------------------------------------------------------------------
(* Properties.                                                             *)

\* has_curriculum_stage_access of a stage that is not the first of its curriculum,
\* and has_academy_content_access to the content of a lecture of a paid course.
HasStageAccess(u, p) == rows[u][p] > 0
HasLectureAccess(u, i) == rows[u][i] > 0

\* What the payment of t buys is there: the stage, every lecture of the
\* course, or some paid entitlement without content (what get_student_access
\* asks of a global purchase).
Served(t) ==
    LET u == Buyer[t]
        p == Product[t] IN
    /\ p \in Stages => HasStageAccess(u, p)
    /\ p \in Courses => \A i \in LecturesOf[p] : HasLectureAccess(u, i)
    /\ p \in {Global, Other} => HasNoContentRow(u)

\* The entitlement rows a confirmation of t may create.
Buys(t, i) ==
    \/ Product[t] \in Stages /\ i = Product[t]
    \/ Product[t] \in Courses /\ i \in LecturesOf[Product[t]]
    \/ Product[t] \in {Global, Other} /\ i = Global

\* A transaction is CONFIRMED only together with everything it buys: no
\* handler leaves the status committed and the access missing, whatever
\* fails between the two (payment_tools.confirm_payment_transaction).
ConfirmedIsServed ==
    \A t \in Tx : status[t] = "confirmed" => Served(t)

\* Entitlement rows are bought: a student has at most as many rows for an
\* item as confirmations of different transactions for it.  A transaction
\* confirmed twice at once adds nothing the second time, because the row
\* lock taken by the status update precedes the lookup of existing rows.
RowsAreBought ==
    \A u \in Users, i \in Stages \cup NoContent :
        rows[u][i] <= Cardinality({t \in Tx : /\ Buyer[t] = u
                                             /\ Buys(t, i)
                                             /\ <<"confirmed", t>> \in audits})

\* The lookup followed by an insert never makes a second row of one stage,
\* or of one teacher, for one student, even when two confirmations or a
\* chat run at once.
UniqueRows ==
    \A u \in Users, i \in UniqueItem : rows[u][i] <= 1

\* A paid usage row belongs to a student who bought global access.
SeatsAreBought ==
    \A k \in paid : \E t \in Tx : /\ Buyer[t] = k[1]
                                 /\ Product[t] \notin Stages \cup Courses
                                 /\ <<"confirmed", t>> \in audits

\* A REJECTED transaction is on record with the main manager and in the
\* audit log: reject_payment keeps nothing when its event cannot be
\* processed.
RejectionIsRecorded ==
    \A t \in Tx : status[t] = "rejected" =>
        <<"rejected", t>> \in events /\ <<"rejected", t>> \in audits

\* The manager's event payments.confirmed, which notifies the student, is
\* recorded by the payment handlers only for a payment whose access was granted, though it is also
\* sent for requests that found the payment already confirmed.
EventOnlyForServed ==
    \A t \in Tx : <<"confirmed", t>> \in events =>
        Served(t) /\ <<"confirmed", t>> \in audits

\* When an endpoint answers that a payment is confirmed, the confirmation
\* and the access it gives are in the database.
AcknowledgedIsServed ==
    \A t \in acks : Served(t) /\ <<"confirmed", t>> \in audits

\* "Only pending payment transactions can be rejected" (or confirmed): whether
\* a decision came first is asked of the transaction as it was loaded, so that a
\* decided one is overwritten, but only by a request that had read it while it
\* was pending; no order of requests decides a payment again that was already
\* decided when the request began.
DecisionIsFinal ==
    [][\A t \in Tx :
         status[t] \in {"confirmed", "rejected"} /\ status'[t] # status[t] =>
           \E s \in Slots : job[s].t = t /\ job[s].snap = "pending" /\ Locked(s)]_vars

\* Every request is answered: waiting for rows and keys of other sessions
\* never lasts forever, and no check leaves a request without an answer.
RequestsTerminate ==
    \A s \in Slots : job[s] # NoJob ~> job[s] = NoJob

-----------------------------------------------------------------------------
(* The inductive invariant behind the safety properties.                   *)

Confirmed(t) == <<"confirmed", t>> \in audits

\* Once the missing rows were looked up, what the payment buys is either
\* there or about to be inserted.
Covered(s) ==
    LET u == Buyer[job[s].t]
        p == Product[job[s].t] IN
    /\ p \in Stages => p \in job[s].ins \/ rows[u][p] > 0
    /\ p \in Courses => \A i \in LecturesOf[p] : i \in job[s].ins \/ rows[u][i] > 0
    /\ p \in {Global, Other} => Global \in job[s].ins \/ HasNoContentRow(u)

JobOK(s) ==
    /\ job[s].pc # "idle" => job[s].t \in Tx
    /\ job[s].op \in Kinds \cup {"none"}
    /\ job[s].pc \notin {"insert", "commit"} => job[s].ins = {}
    /\ job[s].op = "reject" => job[s].ins = {}
    /\ job[s].pc \in {"insert", "commit"} /\ job[s].op # "reject" => Covered(s)
    /\ job[s].pc \in {"update", "insert"} => job[s].op \in {"si", "mm", "tool"}
    /\ job[s].pc = "notify" => job[s].snap = "confirmed"
    /\ job[s].snap = "confirmed" => Confirmed(job[s].t)

\* The keys about to be committed are new and belong to one session each.
KeysOK ==
    /\ \A s \in Slots : job[s].pc = "commit" => \A k \in KeysOf(s) : rows[k[1]][k[2]] = 0
    /\ \A r, s \in Slots :
          job[r].pc = "commit" /\ job[s].pc = "commit" /\ r # s =>
              KeysOf(r) \cap KeysOf(s) = {}

\* Whatever says "confirmed" was committed with the access it stands for.
FactsOK ==
    /\ \A t \in Tx : Confirmed(t) => Served(t)
    /\ \A t \in Tx : status[t] = "confirmed" => Confirmed(t)
    /\ \A t \in Tx : <<"confirmed", t>> \in events => Confirmed(t)
    /\ "mm" \notin Kinds => \A t \in acks : Confirmed(t)

\* Inductive invariant: what the jobs in progress know, together with what
\* the committed rows say, of every transaction and every row.
IInv ==
    /\ TypeOK
    /\ \A s \in Slots : JobOK(s)
    /\ KeysOK
    /\ FactsOK
    /\ UniqueRows
    /\ RejectionIsRecorded

\* Rows that only a payment makes: those of a stage, a lecture or global access.
Content == Stages \cup NoContent

Paid(u, i) == {t \in Tx : Buyer[t] = u /\ Buys(t, i) /\ Confirmed(t)}

\* What a request is about to insert is bought by its transaction, and nothing
\* of it is content once that transaction is confirmed.
GrantOK(s) ==
    /\ \A i \in job[s].ins \cap Content : Buys(job[s].t, i)
    /\ Confirmed(job[s].t) => job[s].ins \cap Content = {}

\* Inductive with IInv: the lock of the status is held by one request, which
\* alone confirms the transaction and inserts what it buys.
RowsInv ==
    /\ RowsAreBought
    /\ IsFiniteSet({t \in Tx : Confirmed(t)})
    /\ \A r, s \in Slots : Locked(r) /\ Locked(s) /\ job[r].t = job[s].t => r = s
    /\ \A s \in Slots : GrantOK(s)

-----------------------------------------------------------------------------
(* The promise of AccessLedger, seen through the stored rows.              *)

Offer == [t \in Tx |-> {i \in Content : Buys(t, i)}]

Needs == [t \in Tx |-> IF Product[t] \in Stages THEN {{Product[t]}}
                      ELSE IF Product[t] \in Courses THEN {{i} : i \in LecturesOf[Product[t]]}
                      ELSE {NoContent}]

Access == [u \in Users |-> {i \in Content : rows[u][i] > 0}]

Ledger == INSTANCE AccessLedger WITH access <- Access

\* However requests overlap, fail and crash, what is stored of payments and
\* access is a ledger: access appears only in the step that confirms a payment of
\* it, complete, and no step takes it away (confirm_payment_transaction).
KeepsTheLedger == Ledger!Spec
=============================================================================
