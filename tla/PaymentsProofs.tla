--------------------------- MODULE PaymentsProofs ---------------------------
(***************************************************************************)
(* Proofs about Payments, for every number of students, transactions,      *)
(* concurrent requests and products.                                       *)
(*                                                                         *)
(* What is behind the properties: rows are only ever added, the audit row  *)
(* "payment.confirmed" is committed together with everything the payment   *)
(* buys, and whoever acts on a confirmed status read it after that commit. *)
(***************************************************************************)
EXTENDS Payments, FiniteSetTheorems, TLAPS

(* Types of what the handlers compute.                                     *)

LEMMA JobTypes ==
    /\ NoJob \in Job
    /\ \A j \in Job, l \in Pc : [j EXCEPT !.pc = l] \in Job
    /\ \A j \in Job, i \in SUBSET Item, a \in SUBSET Teachers :
          [j EXCEPT !.pc = "insert", !.ins = i, !.pay = a] \in Job
    /\ \A o \in Op, t \in Tx, x \in Status :
          [NoJob EXCEPT !.pc = "read", !.op = o, !.t = t, !.snap = x] \in Job
BY DEF NoJob, Job, Pc, Op, Status

LEMMA MissingType ==
    ASSUME TypeOK, NEW u \in Users, NEW p \in Products
    PROVE  Missing(u, p) \in SUBSET Item /\ Seats(p) \in SUBSET Teachers
BY ProductAssumption
   DEF TypeOK, Products, Missing, MissingLectures, MissingGlobal, Seats, Item,
       NoContent, UniqueItem

\* Rows may be looked up with the student and item of any transaction.
LEMMA ItemsOfProducts ==
    ASSUME NEW t \in Tx
    PROVE  /\ Buyer[t] \in Users
           /\ Product[t] \in Products
           /\ Product[t] \in Stages => Product[t] \in Item
           /\ Product[t] \in Courses => LecturesOf[Product[t]] \subseteq Item
           /\ NoContent \subseteq Item /\ Global \in NoContent
BY ProductAssumption DEF Products, Item, NoContent, UniqueItem

-----------------------------------------------------------------------------
(* Rows are only added: what was served or covered stays so.               *)

RowsGrow == \A u \in Users, i \in Item :
               rows'[u][i] \in Nat /\ rows[u][i] <= rows'[u][i]

LEMMA ServedStays ==
    ASSUME TypeOK, RowsGrow, NEW t \in Tx, Served(t)
    PROVE  Served(t)'
<1>1. \A u \in Users, i \in Item : rows[u][i] \in Nat
  BY DEF TypeOK
<1>2. \A i \in Item : rows[Buyer[t]][i] > 0 => rows'[Buyer[t]][i] > 0
  BY <1>1, ItemsOfProducts DEF RowsGrow
<1> QED
  BY <1>2, ItemsOfProducts DEF Served, HasStageAccess, HasLectureAccess, HasNoContentRow

LEMMA CoveredStays ==
    ASSUME TypeOK, RowsGrow, NEW s \in Slots, job[s].t \in Tx, Covered(s),
           job'[s] = job[s]
    PROVE  Covered(s)'
<1>1. \A u \in Users, i \in Item : rows[u][i] \in Nat
  BY DEF TypeOK
<1>2. \A i \in Item : rows[Buyer[job[s].t]][i] > 0 =>
                      rows'[Buyer[job[s].t]][i] > 0
  BY <1>1, ItemsOfProducts DEF RowsGrow
<1> QED
  BY <1>2, ItemsOfProducts DEF Covered, HasNoContentRow

\* The other requests notice nothing of a step that adds rows and audits.
LEMMA JobsStay ==
    ASSUME TypeOK, RowsGrow, audits \subseteq audits',
           NEW s \in Slots, \A r \in Slots \ {s} : job'[r] = job[r],
           \A r \in Slots : JobOK(r), JobOK(s)'
    PROVE  \A r \in Slots : JobOK(r)'
<1> SUFFICES ASSUME NEW r \in Slots, r # s PROVE JobOK(r)'
  OBVIOUS
<1>1. job'[r] = job[r] /\ JobOK(r)
  OBVIOUS
<1>2. Covered(r) /\ job[r].t \in Tx => Covered(r)'
  BY <1>1, CoveredStays
<1> QED
  BY <1>1, <1>2 DEF JobOK, Confirmed

\* What the lookup found missing is what has to be inserted.
LEMMA LookupCovers ==
    ASSUME TypeOK, NEW s \in Slots, job[s].t \in Tx, job'[s].t = job[s].t,
           job'[s].ins = Missing(Buyer[job[s].t], Product[job[s].t]),
           rows' = rows
    PROVE  Covered(s)'
<1>1. \A u \in Users, i \in Item : rows[u][i] \in Nat
  BY DEF TypeOK
<1>2. \A i \in Item : rows[Buyer[job[s].t]][i] = 0 \/ rows[Buyer[job[s].t]][i] > 0
  BY <1>1, ItemsOfProducts
<1> QED
  BY <1>2, ItemsOfProducts, DisjointAssumption
     DEF Covered, Missing, MissingLectures, MissingGlobal, HasNoContentRow, Products

\* Committing what was covered serves the transaction.
LEMMA GrantServes ==
    ASSUME TypeOK, NEW s \in Slots, NEW t \in Tx, t = job[s].t, Covered(s),
           CommitGrant(s)
    PROVE  Served(t)' /\ RowsGrow
<1> DEFINE u == Buyer[t]
<1>1. \A v \in Users, i \in Item : rows[v][i] \in Nat
  BY DEF TypeOK
<1>2. \A v \in Users, i \in Item :
          rows'[v][i] = IF v = u /\ i \in job[s].ins THEN rows[v][i] + 1 ELSE rows[v][i]
  BY DEF CommitGrant, TypeOK
<1>3. RowsGrow
  BY <1>1, <1>2 DEF RowsGrow
<1>4. \A i \in Item : i \in job[s].ins \/ rows[u][i] > 0 => rows'[u][i] > 0
  BY <1>1, <1>2, ItemsOfProducts
<1>5. Served(t)'
  BY <1>4, ItemsOfProducts DEF Served, HasStageAccess, HasLectureAccess, Covered, HasNoContentRow
<1> QED
  BY <1>3, <1>5

-----------------------------------------------------------------------------
(* Steps that commit nothing: one request moves, the database stays.       *)

LEMMA QuietStep ==
    ASSUME IInv, NEW s \in Slots, NEW j \in Job, job' = [job EXCEPT ![s] = j],
           UNCHANGED <<db, env, acks>>, JobOK(s)',
           j.pc = "commit" =>
              /\ \A k \in KeysOf(s)' : rows[k[1]][k[2]] = 0
              /\ \A r \in Slots \ {s} : job[r].pc = "commit" =>
                                          KeysOf(r) \cap KeysOf(s)' = {}
    PROVE  IInv'
<1> USE DEF IInv
<1>1. TypeOK'
  BY DEF TypeOK, db, env
<1>2. \A r \in Slots \ {s} : job'[r] = job[r]
  BY DEF TypeOK
<1>3. job'[s] = j
  BY DEF TypeOK
<1>4. RowsGrow
  BY DEF RowsGrow, TypeOK, db
<1>5. \A r \in Slots : JobOK(r)'
  BY <1>2, <1>4, JobsStay DEF db
<1>6. KeysOK'
  <2>1. \A r \in Slots \ {s} : KeysOf(r)' = KeysOf(r) /\ job'[r].pc = job[r].pc
    BY <1>2 DEF KeysOf
  <2> QED
    BY <2>1, <1>3 DEF KeysOK, db
<1>7. FactsOK' /\ UniqueRows' /\ RejectionIsRecorded'
  BY DEF FactsOK, UniqueRows, RejectionIsRecorded, Confirmed, Served, HasStageAccess, HasLectureAccess,
         HasNoContentRow, db
<1> QED
  BY <1>1, <1>5, <1>6, <1>7

\* A request that ends without a commit, or crashes.
LEMMA ClosedJob ==
    ASSUME NEW s \in Slots, job'[s] = NoJob
    PROVE  JobOK(s)' /\ job'[s].pc # "commit" /\ KeysOf(s)' = {}
BY DEF JobOK, NoJob, KeysOf

LEMMA CloseStep ==
    ASSUME IInv, NEW s \in Slots, Close(s), UNCHANGED <<db, env, acks>>
    PROVE  IInv'
<1>1. job'[s] = NoJob
  BY DEF IInv, TypeOK, Close
<1>2. NoJob \in Job /\ NoJob.pc # "commit"
  BY JobTypes DEF NoJob
<1> QED
  BY <1>1, <1>2, ClosedJob, QuietStep DEF Close

LEMMA ReceiveStep ==
    ASSUME IInv, NEW s \in Slots, NEW o \in Op, NEW t \in Tx, Receive(s, o, t),
           UNCHANGED <<db, env, acks>>
    PROVE  IInv'
<1> DEFINE j == [NoJob EXCEPT !.pc = "read", !.op = o, !.t = t, !.snap = status[t]]
<1>1. j \in Job /\ job' = [job EXCEPT ![s] = j] /\ o \in Kinds
  BY JobTypes DEF IInv, TypeOK, Receive
<1>2. /\ j.pc = "read" /\ j.op = o /\ j.t = t /\ j.snap = status[t] /\ j.ins = {}
      /\ job'[s] = j
  BY <1>1 DEF NoJob, IInv, TypeOK
<1>3. j.snap = "confirmed" => Confirmed(t)
  BY <1>2 DEF IInv, FactsOK
<1> HIDE DEF j
<1>4. JobOK(s)'
  BY <1>1, <1>2, <1>3 DEF JobOK, Confirmed, db
<1> QED
  BY <1>1, <1>2, <1>4, QuietStep

\* A step to a place where nothing was looked up yet.
LEMMA GotoStep ==
    ASSUME IInv, NEW s \in Slots, NEW l \in {"update", "notify"}, Goto(s, l),
           UNCHANGED <<db, env, acks>>,
           job[s].pc = "read", job[s].op \in {"si", "mm", "tool"},
           l = "notify" => job[s].snap = "confirmed"
    PROVE  IInv'
<1> DEFINE j == [job[s] EXCEPT !.pc = l]
<1>1. j \in Job /\ job' = [job EXCEPT ![s] = j]
  BY JobTypes DEF IInv, TypeOK, Goto, Pc
<1>2. /\ j.pc = l /\ j.op = job[s].op /\ j.t = job[s].t /\ j.snap = job[s].snap
      /\ j.ins = job[s].ins /\ job'[s] = j
  BY <1>1 DEF IInv, TypeOK, Job
<1>3. JobOK(s)'
  BY <1>1, <1>2 DEF JobOK, IInv, Confirmed, db
<1> QED
  BY <1>1, <1>2, <1>3, QuietStep

LEMMA UpdateStep ==
    ASSUME IInv, NEW s \in Slots, UpdateStatus(s)
    PROVE  IInv'
<1> DEFINE u == Buyer[job[s].t]
           p == Product[job[s].t]
           j == [job[s] EXCEPT !.pc = "insert", !.ins = Missing(u, p),
                               !.pay = Seats(p)]
<1>1. JobOK(s) /\ job[s] \in Job /\ job[s].pc = "update" /\ job[s].t \in Tx
  BY DEF IInv, TypeOK, UpdateStatus, JobOK
<1>2. CASE Close(s)
  BY <1>2, CloseStep DEF UpdateStatus
<1>3. CASE ~Close(s)
  <2>1. job' = [job EXCEPT ![s] = j] /\ UNCHANGED <<db, env, acks>>
    BY <1>3 DEF UpdateStatus
  <2>2. j \in Job
    BY <1>1, JobTypes, MissingType, ItemsOfProducts DEF IInv
  <2>3. /\ j.pc = "insert" /\ j.op = job[s].op /\ j.t = job[s].t
        /\ j.snap = job[s].snap /\ j.ins = Missing(u, p) /\ job'[s] = j
    BY <1>1, <2>1 DEF Job, IInv, TypeOK
  <2> HIDE DEF j
  <2>4. Covered(s)'
    BY <1>1, <2>1, <2>3, LookupCovers DEF IInv, db
  <2>5. JobOK(s)'
    BY <1>1, <2>1, <2>3, <2>4 DEF JobOK, Confirmed, db
  <2> QED
    BY <2>1, <2>2, <2>3, <2>5, QuietStep
<1> QED
  BY <1>2, <1>3

LEMMA InsertStep ==
    ASSUME IInv, NEW s \in Slots, InsertRows(s)
    PROVE  IInv'
<1> DEFINE j == [job[s] EXCEPT !.pc = "commit"]
<1>1. JobOK(s) /\ job[s] \in Job /\ job[s].pc = "insert" /\ job[s].t \in Tx
  BY DEF IInv, TypeOK, InsertRows, JobOK
<1>2. CASE \E k \in KeysOf(s) : rows[k[1]][k[2]] > 0
  BY <1>2, CloseStep DEF InsertRows
<1>3. CASE ~ \E k \in KeysOf(s) : rows[k[1]][k[2]] > 0
  <2>1. job' = [job EXCEPT ![s] = j] /\ UNCHANGED <<db, env, acks>> /\ KeysFree(s)
    BY <1>3 DEF InsertRows, Goto
  <2>2. j \in Job
    BY <1>1, JobTypes DEF Pc
  <2>3. /\ j.pc = "commit" /\ j.op = job[s].op /\ j.t = job[s].t
        /\ j.snap = job[s].snap /\ j.ins = job[s].ins /\ job'[s] = j
    BY <1>1, <2>1 DEF Job, IInv, TypeOK
  <2> HIDE DEF j
  <2>4. KeysOf(s)' = KeysOf(s)
    BY <2>3 DEF KeysOf
  <2>5. \A k \in KeysOf(s) : rows[k[1]][k[2]] = 0
    <3>1. \A k \in KeysOf(s) : rows[k[1]][k[2]] \in Nat
      BY <1>1, ItemsOfProducts DEF KeysOf, IInv, TypeOK, Item
    <3> QED
      BY <3>1, <1>3
  <2>6. Covered(s) => Covered(s)'
    BY <2>1, <2>3 DEF Covered, HasNoContentRow, db
  <2>7. JobOK(s)'
    BY <1>1, <2>1, <2>3, <2>6 DEF JobOK, Confirmed, db
  <2> QED
    BY <2>1, <2>2, <2>3, <2>4, <2>5, <2>7, QuietStep DEF KeysFree
<1> QED
  BY <1>2, <1>3

LEMMA UpdateRejectedStep ==
    ASSUME IInv, NEW s \in Slots, UpdateRejected(s)
    PROVE  IInv'
<1> DEFINE j == [job[s] EXCEPT !.pc = "commit"]
<1>1. /\ JobOK(s) /\ job[s] \in Job /\ job[s].t \in Tx /\ job[s].op = "reject"
      /\ job[s].ins = {}
  BY DEF IInv, TypeOK, UpdateRejected, JobOK
<1>2. job' = [job EXCEPT ![s] = j] /\ UNCHANGED <<db, env, acks>>
  BY DEF UpdateRejected, Goto
<1>3. j \in Job
  BY <1>1, JobTypes DEF Pc
<1>4. /\ j.pc = "commit" /\ j.op = job[s].op /\ j.t = job[s].t
      /\ j.snap = job[s].snap /\ j.ins = job[s].ins /\ job'[s] = j
  BY <1>1, <1>2 DEF Job, IInv, TypeOK
<1> HIDE DEF j
<1>5. KeysOf(s)' = {}
  BY <1>1, <1>4 DEF KeysOf
<1>6. JobOK(s)'
  BY <1>1, <1>2, <1>4 DEF JobOK, Confirmed, db
<1> QED
  BY <1>2, <1>3, <1>4, <1>5, <1>6, QuietStep

-----------------------------------------------------------------------------
(* Steps that commit.                                                      *)

\* A request ends and rows, facts or the usage table change: what the other
\* requests rely on stays true.
LEMMA CommitStep ==
    ASSUME IInv, TypeOK', RowsGrow, audits \subseteq audits',
           NEW s \in Slots, Close(s), FactsOK', UniqueRows', RejectionIsRecorded',
           \A r \in Slots \ {s} : job[r].pc = "commit" =>
               \A k \in KeysOf(r) : rows'[k[1]][k[2]] = 0
    PROVE  IInv'
<1>1. \A r \in Slots \ {s} : job'[r] = job[r]
  BY DEF IInv, TypeOK, Close
<1>2. job'[s] = NoJob
  BY DEF IInv, TypeOK, Close
<1>3. \A r \in Slots : JobOK(r)'
  BY <1>1, <1>2, ClosedJob, JobsStay DEF IInv
<1>4. KeysOK'
  <2>1. \A r \in Slots \ {s} : KeysOf(r)' = KeysOf(r)
    BY <1>1 DEF KeysOf
  <2>2. job'[s].pc # "commit"
    BY <1>2, ClosedJob
  <2> QED
    BY <1>1, <2>1, <2>2 DEF IInv, KeysOK
<1> QED
  BY <1>3, <1>4 DEF IInv

\* Adding the missing rows keeps unique keys unique.
LEMMA GrantKeepsKeys ==
    ASSUME IInv, NEW s \in Slots, job[s].pc = "commit", CommitGrant(s)
    PROVE  /\ UniqueRows'
           /\ \A r \in Slots \ {s} : job[r].pc = "commit" =>
                 \A k \in KeysOf(r) : rows'[k[1]][k[2]] = 0
<1> DEFINE u == Buyer[job[s].t]
<1>1. job[s].t \in Tx /\ u \in Users
  BY ItemsOfProducts DEF IInv, JobOK
<1>2. \A v \in Users, i \in Item :
          /\ rows[v][i] \in Nat
          /\ rows'[v][i] = IF v = u /\ i \in job[s].ins THEN rows[v][i] + 1 ELSE rows[v][i]
  BY <1>1 DEF CommitGrant, IInv, TypeOK
<1>3. ASSUME NEW i \in job[s].ins \cap UniqueItem PROVE rows[u][i] = 0
  <2>1. <<u, i>> \in KeysOf(s)
    BY DEF KeysOf
  <2> QED
    BY <2>1 DEF IInv, KeysOK
<1>4. UniqueRows'
  BY <1>2, <1>3 DEF IInv, UniqueRows, Item
<1>5. ASSUME NEW r \in Slots \ {s}, job[r].pc = "commit", NEW k \in KeysOf(r)
      PROVE  rows'[k[1]][k[2]] = 0
  <2>1. PICK i \in job[r].ins \cap UniqueItem : k = <<Buyer[job[r].t], i>>
    BY <1>5 DEF KeysOf
  <2>2. job[r].t \in Tx /\ Buyer[job[r].t] \in Users /\ i \in Item
    BY <1>5, ItemsOfProducts DEF IInv, JobOK, Item
  <2>3. rows[Buyer[job[r].t]][i] = 0
    BY <1>5, <2>1 DEF IInv, KeysOK
  <2>4. ~(Buyer[job[r].t] = u /\ i \in job[s].ins)
    BY <1>5, <2>1 DEF IInv, KeysOK, KeysOf
  <2> QED
    BY <1>2, <2>1, <2>2, <2>3, <2>4
<1> QED
  BY <1>4, <1>5

\* What a commit of a confirmation leaves behind.
LEMMA GrantFacts ==
    ASSUME IInv, NEW s \in Slots, job[s].pc = "commit",
           job[s].op \in {"si", "tool"}, CommitGrant(s),
           events' \in {events, events \cup {<<"confirmed", job[s].t>>}},
           acks' = acks \cup {job[s].t}
    PROVE  /\ RowsGrow /\ audits \subseteq audits'
           /\ FactsOK' /\ RejectionIsRecorded'
<1>1. PICK t \in Tx : t = job[s].t
  BY DEF IInv, JobOK
<1>2. Covered(s)
  BY DEF IInv, JobOK
<1>3. Served(t)' /\ RowsGrow
  BY <1>1, <1>2, GrantServes DEF IInv
<1>4. /\ status' = [status EXCEPT ![t] = "confirmed"]
      /\ audits' = audits \cup {<<"confirmed", t>>}
  BY <1>1 DEF CommitGrant
<1>5. ASSUME NEW x \in Tx, Confirmed(x)' PROVE Served(x)'
  <2>1. CASE x = t
    BY <2>1, <1>3
  <2>2. CASE x # t
    <3>1. Served(x)
      BY <2>2, <1>4, <1>5 DEF IInv, FactsOK, Confirmed
    <3> QED
      BY <3>1, <1>3, ServedStays DEF IInv
  <2> QED
    BY <2>1, <2>2
<1>6. FactsOK'
  <2>1. \A x \in Tx : status'[x] = "confirmed" => Confirmed(x)'
    BY <1>4 DEF IInv, FactsOK, TypeOK, Confirmed
  <2>2. \A x \in Tx : <<"confirmed", x>> \in events' => Confirmed(x)'
    BY <1>1, <1>4 DEF IInv, FactsOK, Confirmed
  <2>3. "mm" \notin Kinds => \A x \in acks' : Confirmed(x)'
    BY <1>1, <1>4 DEF IInv, FactsOK, Confirmed
  <2> QED
    BY <1>5, <2>1, <2>2, <2>3 DEF FactsOK
<1>7. RejectionIsRecorded'
  BY <1>4 DEF IInv, RejectionIsRecorded, TypeOK
<1> QED
  BY <1>3, <1>4, <1>6, <1>7

LEMMA GrantType ==
    ASSUME IInv, NEW s \in Slots, job[s].pc = "commit", CommitGrant(s), Close(s),
           events' \in {events, events \cup {<<"confirmed", job[s].t>>}},
           acks' = acks \cup {job[s].t}, UNCHANGED <<proofs, env>>
    PROVE  TypeOK'
<1>1. job[s].t \in Tx /\ Buyer[job[s].t] \in Users /\ job[s] \in Job
  BY ItemsOfProducts DEF IInv, JobOK, TypeOK
<1>2. job' \in [Slots -> Job]
  BY JobTypes DEF IInv, TypeOK, Close
<1>3. status' \in [Tx -> Status]
  BY <1>1 DEF CommitGrant, IInv, TypeOK, Status
<1>4. rows' \in [Users -> [Item -> Nat]]
  BY <1>1 DEF CommitGrant, IInv, TypeOK
<1>5. paid' \subseteq Users \X Teachers
  BY <1>1 DEF CommitGrant, IInv, TypeOK, Job
<1>6. audits' \subseteq Fact /\ events' \subseteq Fact /\ acks' \subseteq Tx
  BY <1>1 DEF CommitGrant, IInv, TypeOK, Fact
<1> QED
  BY <1>2, <1>3, <1>4, <1>5, <1>6 DEF IInv, TypeOK, env

LEMMA GrantStep ==
    ASSUME IInv, NEW s \in Slots, job[s].pc = "commit",
           job[s].op \in {"si", "tool"}, CommitGrant(s), Close(s),
           events' \in {events, events \cup {<<"confirmed", job[s].t>>}},
           acks' = acks \cup {job[s].t}, UNCHANGED <<proofs, env>>
    PROVE  IInv'
BY GrantFacts, GrantType, GrantKeepsKeys, CommitStep

\* Steps that leave the rows and the audit log of confirmations alone.
LEMMA RecordStep ==
    ASSUME IInv, TypeOK', NEW s \in Slots, Close(s), rows' = rows,
           audits \subseteq audits',
           \A t \in Tx : Confirmed(t)' => Confirmed(t),
           \A t \in Tx : status'[t] = "confirmed" => Confirmed(t),
           \A t \in Tx : <<"confirmed", t>> \in events' => Confirmed(t),
           "mm" \notin Kinds => \A t \in acks' : Confirmed(t),
           RejectionIsRecorded'
    PROVE  IInv'
<1>1. RowsGrow
  BY DEF RowsGrow, IInv, TypeOK
<1>2. FactsOK'
  BY DEF IInv, FactsOK, Served, HasStageAccess, HasLectureAccess, HasNoContentRow, Confirmed, TypeOK
<1>3. UniqueRows'
  BY DEF IInv, UniqueRows
<1>4. \A r \in Slots \ {s} : job[r].pc = "commit" =>
          \A k \in KeysOf(r) : rows'[k[1]][k[2]] = 0
  BY DEF IInv, KeysOK
<1> QED
  BY <1>1, <1>2, <1>3, <1>4, CommitStep

\* The steps that only add proofs, answers and the event of a repetition.
LEMMA AnswerStep ==
    ASSUME IInv, NEW s \in Slots, Close(s), job[s].pc # "idle",
           "mm" \notin Kinds => Confirmed(job[s].t) \/ acks' = acks,
           UNCHANGED <<status, rows, paid, audits, env>>,
           proofs' \in {proofs, proofs \cup {job[s].t}},
           acks' \in {acks, acks \cup {job[s].t}},
           \/ events' = events
           \/ Confirmed(job[s].t) /\ events' = events \cup {<<"confirmed", job[s].t>>}
    PROVE  IInv'
<1>1. job[s].t \in Tx
  BY DEF IInv, JobOK
<1>2. TypeOK'
  <2>1. proofs' \subseteq Tx /\ acks' \subseteq Tx /\ events' \subseteq Fact
    BY <1>1 DEF IInv, TypeOK, Fact
  <2>2. job' \in [Slots -> Job]
    BY JobTypes DEF IInv, TypeOK, Close
  <2> QED
    BY <2>1, <2>2 DEF IInv, TypeOK, env
<1>3. RejectionIsRecorded'
  BY DEF IInv, RejectionIsRecorded
<1>4. \A t \in Tx : Confirmed(t)' => Confirmed(t)
  BY DEF Confirmed
<1>5. /\ \A t \in Tx : status'[t] = "confirmed" => Confirmed(t)
      /\ \A t \in Tx : <<"confirmed", t>> \in events' => Confirmed(t)
      /\ "mm" \notin Kinds => \A t \in acks' : Confirmed(t)
  BY <1>1 DEF IInv, FactsOK
<1> QED
  BY <1>2, <1>3, <1>4, <1>5, RecordStep

LEMMA FinishRejectStep ==
    ASSUME IInv, NEW s \in Slots, FinishReject(s)
    PROVE  IInv'
<1>1. Close(s) /\ job[s].pc = "commit" /\ UNCHANGED <<proofs, rows, paid, env, acks>>
  BY DEF FinishReject, EventsWith
<1>2. PICK t \in Tx : t = job[s].t
  BY <1>1 DEF IInv, JobOK
<1>3. CASE manager
  <2>1. /\ status' = [status EXCEPT ![t] = "rejected"]
        /\ audits' = audits \cup {<<"rejected", t>>}
        /\ events' = events \cup {<<"rejected", t>>}
    BY <1>2, <1>3 DEF FinishReject, EventsWith
  <2>2. TypeOK'
    <3>1. job' \in [Slots -> Job]
      BY <1>1, JobTypes DEF IInv, TypeOK, Close
    <3>2. status' \in [Tx -> Status] /\ audits' \subseteq Fact /\ events' \subseteq Fact
      BY <2>1 DEF IInv, TypeOK, Fact, Status
    <3> QED
      BY <1>1, <3>1, <3>2 DEF IInv, TypeOK, env
  <2>3. RejectionIsRecorded'
    BY <2>1 DEF IInv, RejectionIsRecorded, TypeOK
  <2>4. \A x \in Tx : Confirmed(x)' => Confirmed(x)
    BY <2>1 DEF Confirmed
  <2>5. /\ \A x \in Tx : status'[x] = "confirmed" => Confirmed(x)
        /\ \A x \in Tx : <<"confirmed", x>> \in events' => Confirmed(x)
        /\ "mm" \notin Kinds => \A x \in acks' : Confirmed(x)
    BY <1>1, <2>1 DEF IInv, FactsOK, TypeOK
  <2> QED
    BY <1>1, <2>1, <2>2, <2>3, <2>4, <2>5, RecordStep
<1>4. CASE ~manager
  BY <1>1, <1>4, CloseStep DEF FinishReject, EventsWith, db
<1> QED
  BY <1>3, <1>4

-----------------------------------------------------------------------------
(* Steps of the environment, and the crash.                                *)

LEMMA CrashStep ==
    ASSUME IInv, Crash
    PROVE  IInv'
<1>1. \A s \in Slots : job'[s] = NoJob
  BY DEF Crash
<1>2. TypeOK'
  BY JobTypes DEF Crash, IInv, TypeOK, db, env
<1>3. \A s \in Slots : JobOK(s)' /\ job'[s].pc # "commit"
  BY <1>1, ClosedJob
<1>4. KeysOK'
  BY <1>3 DEF KeysOK
<1>5. FactsOK' /\ UniqueRows' /\ RejectionIsRecorded'
  BY DEF Crash, IInv, FactsOK, UniqueRows, RejectionIsRecorded, Confirmed,
         Served, HasStageAccess, HasLectureAccess, HasNoContentRow, db
<1> QED
  BY <1>2, <1>3, <1>4, <1>5 DEF IInv

\* Nothing a request relies on is read from the agents, the stages on sale
\* or the transactions that are still absent.
LEMMA EnvironmentStep ==
    ASSUME IInv, UNCHANGED <<rows, audits, events, job, acks>>, TypeOK',
           \A t \in Tx : status'[t] \in {"confirmed", "rejected"} => status'[t] = status[t]
    PROVE  IInv'
<1>1. \A s \in Slots : JobOK(s)'
  BY DEF IInv, JobOK, Covered, HasNoContentRow, Confirmed
<1>2. KeysOK'
  BY DEF IInv, KeysOK, KeysOf
<1>3. FactsOK' /\ UniqueRows' /\ RejectionIsRecorded'
  BY DEF IInv, FactsOK, UniqueRows, RejectionIsRecorded, Confirmed, Served, HasStageAccess, HasLectureAccess,
         HasNoContentRow
<1> QED
  BY <1>1, <1>2, <1>3 DEF IInv

LEMMA OpenUsageStep ==
    ASSUME IInv, NEW u \in Users, NEW a \in Teachers, OpenUsage(u, a)
    PROVE  IInv'
<1>1. a \in Item /\ a \in UniqueItem
  BY DEF Item, UniqueItem
<1>2. \A v \in Users, i \in Item :
          /\ rows[v][i] \in Nat
          /\ rows'[v][i] = IF v = u /\ i = a THEN 1 ELSE rows[v][i]
  BY <1>1 DEF OpenUsage, IInv, TypeOK
<1>3. TypeOK' /\ RowsGrow
  <2>1. rows' \in [Users -> [Item -> Nat]]
    BY <1>1 DEF OpenUsage, IInv, TypeOK
  <2>2. rows[u][a] = 0
    BY DEF OpenUsage
  <2> QED
    BY <1>2, <2>1, <2>2 DEF OpenUsage, IInv, TypeOK, RowsGrow, env
<1>4. \A t \in Tx : Served(t) => Served(t)'
  BY <1>3, ServedStays DEF IInv
<1>5. FactsOK' /\ RejectionIsRecorded'
  BY <1>4 DEF OpenUsage, IInv, FactsOK, RejectionIsRecorded, Confirmed
<1>6. UniqueRows'
  BY <1>2 DEF IInv, UniqueRows, Item
<1>7. \A s \in Slots : JobOK(s)'
  <2> SUFFICES ASSUME NEW s \in Slots PROVE JobOK(s)'
    OBVIOUS
  <2>1. job' = job /\ audits' = audits
    BY DEF OpenUsage
  <2>2. Covered(s) /\ job[s].t \in Tx => Covered(s)'
    BY <1>3, <2>1, CoveredStays DEF IInv
  <2> QED
    BY <2>1, <2>2 DEF IInv, JobOK, Confirmed
<1>8. KeysOK'
  <2>1. \A s \in Slots : KeysOf(s)' = KeysOf(s)
    BY DEF OpenUsage, KeysOf
  <2>2. ASSUME NEW s \in Slots, job[s].pc = "commit", NEW k \in KeysOf(s)
        PROVE  rows'[k[1]][k[2]] = 0
    <3>1. PICK i \in job[s].ins \cap UniqueItem : k = <<Buyer[job[s].t], i>>
      BY DEF KeysOf
    <3>2. Buyer[job[s].t] \in Users /\ i \in Item
      BY <2>2, ItemsOfProducts DEF IInv, JobOK, Item
    <3>3. k # <<u, a>>
      BY <2>2 DEF OpenUsage
    <3>4. rows[Buyer[job[s].t]][i] = 0
      BY <2>2, <3>1 DEF IInv, KeysOK
    <3> QED
      BY <1>2, <3>1, <3>2, <3>3, <3>4
  <2> QED
    BY <2>1, <2>2 DEF OpenUsage, IInv, KeysOK
<1> QED
  BY <1>3, <1>5, <1>6, <1>7, <1>8 DEF IInv

-----------------------------------------------------------------------------
(* The invariant.                                                          *)

LEMMA IInvInit == Init => IInv
<1> SUFFICES ASSUME Init PROVE IInv
  OBVIOUS
<1>1. TypeOK
  BY JobTypes DEF Init, TypeOK, Status
<1>2. \A s \in Slots : JobOK(s) /\ job[s].pc # "commit"
  BY DEF Init, JobOK, NoJob
<1>3. KeysOK
  BY <1>2 DEF KeysOK
<1>4. FactsOK /\ RejectionIsRecorded
  BY DEF Init, FactsOK, RejectionIsRecorded, Confirmed
<1>5. UniqueRows
  BY DEF Init, UniqueRows, Item
<1> QED
  BY <1>1, <1>2, <1>3, <1>4, <1>5 DEF IInv

LEMMA StartStep ==
    ASSUME IInv, NEW s \in Slots, Start(s)
    PROVE  IInv'
<1>1. PICK t \in Tx, o \in Op : Receive(s, o, t) /\ UNCHANGED <<db, env, acks>>
  BY DEF Start, ReceiveProof, ReceiveReject, ReceiveConfirm, Op
<1> QED
  BY <1>1, ReceiveStep

LEMMA ProgressStep ==
    ASSUME IInv, NEW s \in Slots, Progress(s)
    PROVE  IInv'
<1>1. CASE SaveProof(s)
  BY <1>1, AnswerStep DEF SaveProof
<1>2. CASE RefuseConfirm(s)
  BY <1>2, CloseStep DEF RefuseConfirm
<1>3. CASE RepeatConfirm(s)
  <2>1. job[s].pc = "read" /\ job[s].snap = "confirmed" /\ Confirmed(job[s].t)
    BY <1>3 DEF RepeatConfirm, Confirming, IInv, JobOK
  <2>2. CASE job[s].op = "si"
    BY <1>3, <2>1, <2>2, GotoStep DEF RepeatConfirm
  <2>3. CASE job[s].op # "si"
    BY <1>3, <2>1, <2>3, AnswerStep DEF RepeatConfirm, db
  <2> QED
    BY <2>2, <2>3
<1>4. CASE AcceptConfirm(s)
  BY <1>4, GotoStep DEF AcceptConfirm, Confirming
<1>5. CASE UpdateStatus(s)
  BY <1>5, UpdateStep
<1>6. CASE InsertRows(s)
  BY <1>6, InsertStep
<1>7. CASE FinishSi(s)
  <2>1. CASE manager
    BY <1>7, <2>1, GrantStep DEF FinishSi, EventsWith
  <2>2. CASE ~manager
    BY <1>7, <2>2, CloseStep DEF FinishSi, EventsWith, db
  <2> QED
    BY <2>1, <2>2
<1>8. CASE FinishTool(s)
  BY <1>8, GrantStep DEF FinishTool
<1>9. CASE FinishMm(s)
  <2>1. "mm" \in Kinds
    BY <1>9 DEF FinishMm, IInv, JobOK
  <2> QED
    BY <1>9, <2>1, AnswerStep DEF FinishMm, db
<1>10. CASE FinishRepeat(s)
  <2>1. job[s].pc = "notify" /\ Confirmed(job[s].t)
    BY <1>10 DEF FinishRepeat, IInv, JobOK
  <2> QED
    BY <1>10, <2>1, AnswerStep DEF FinishRepeat, EventsWith
<1>11. CASE UpdateRejected(s)
  BY <1>11, UpdateRejectedStep
<1>12. CASE FinishReject(s)
  BY <1>12, FinishRejectStep
<1>13. CASE GiveUp(s)
  BY <1>13, CloseStep DEF GiveUp
<1> QED
  BY <1>1, <1>2, <1>3, <1>4, <1>5, <1>6, <1>7, <1>8, <1>9, <1>10, <1>11, <1>12,
     <1>13
     DEF Progress

LEMMA IInvNext == IInv /\ [Next]_vars => IInv'
<1> SUFFICES ASSUME IInv, [Next]_vars PROVE IInv'
  OBVIOUS
<1>1. ASSUME NEW s \in Slots, Start(s) PROVE IInv'
  BY <1>1, StartStep
<1>2. ASSUME NEW s \in Slots, Progress(s) PROVE IInv'
  BY <1>2, ProgressStep
<1>3. CASE Environment
  <2>1. ASSUME NEW t \in Tx, RequestPayment(t) PROVE IInv'
    <3>1. TypeOK'
      BY <2>1 DEF RequestPayment, IInv, TypeOK, Status, env
    <3> QED
      BY <2>1, <3>1, EnvironmentStep DEF RequestPayment, IInv, TypeOK
  <2>2. CASE \/ SetManagerStatus
             \/ \E a \in Teachers : SetTeacherStatus(a)
             \/ \E p \in Stages : MoveStage(p)
    <3>1. UNCHANGED <<db, job, acks>>
      BY <2>2 DEF SetManagerStatus, SetTeacherStatus, MoveStage
    <3>2. TypeOK'
      BY <2>2, <3>1
         DEF SetManagerStatus, SetTeacherStatus, MoveStage, IInv, TypeOK, db
    <3> QED
      BY <3>1, <3>2, EnvironmentStep DEF db
  <2>3. ASSUME NEW u \in Users, NEW a \in Teachers, OpenUsage(u, a) PROVE IInv'
    BY <2>3, OpenUsageStep
  <2> QED
    BY <1>3, <2>1, <2>2, <2>3 DEF Environment
<1>4. CASE Crash
  BY <1>4, CrashStep
<1>5. CASE UNCHANGED vars
  <2>1. TypeOK'
    BY <1>5 DEF vars, db, env, IInv, TypeOK
  <2> QED
    BY <1>5, <2>1, EnvironmentStep DEF vars, db
<1> QED
  BY <1>1, <1>2, <1>3, <1>4, <1>5 DEF Next

\* In every reachable state the inductive invariant holds: what a request in
\* progress knows agrees with what is committed.
THEOREM Invariance == Spec => []IInv
BY IInvInit, IInvNext, PTL DEF Spec

\* Every handler stores values the columns can hold.
THEOREM Typing == Spec => []TypeOK
<1>1. IInv => TypeOK
  BY DEF IInv
<1> QED
  BY <1>1, Invariance, PTL

\* A transaction is CONFIRMED only together with everything it buys.
THEOREM ConfirmationIsAtomic == Spec => []ConfirmedIsServed
<1>1. IInv => ConfirmedIsServed
  BY DEF IInv, FactsOK, ConfirmedIsServed
<1> QED
  BY <1>1, Invariance, PTL

\* The manager's event is recorded only for a payment that was granted.
THEOREM EventsAreTrue == Spec => []EventOnlyForServed
<1>1. IInv => EventOnlyForServed
  BY DEF IInv, FactsOK, EventOnlyForServed, Confirmed
<1> QED
  BY <1>1, Invariance, PTL

\* No row of a stage or of a teacher's usage is ever doubled.
THEOREM RowsAreUnique == Spec => []UniqueRows
<1>1. IInv => UniqueRows
  BY DEF IInv
<1> QED
  BY <1>1, Invariance, PTL

\* A rejection is never kept without its event and its audit row.
THEOREM RejectionsAreRecorded == Spec => []RejectionIsRecorded
<1>1. IInv => RejectionIsRecorded
  BY DEF IInv
<1> QED
  BY <1>1, Invariance, PTL

\* Where the dashboard's endpoint is not used, an answer "confirmed" is
\* backed by the database.
THEOREM AnswersAreTrue ==
    ASSUME "mm" \notin Kinds
    PROVE  Spec => []AcknowledgedIsServed
<1>1. IInv => AcknowledgedIsServed
  BY DEF IInv, FactsOK, AcknowledgedIsServed, Confirmed, TypeOK
<1> QED
  BY <1>1, Invariance, PTL

-----------------------------------------------------------------------------
(* Decisions and seats: what a request has loaded is what it may decide.    *)

\* A request that is about to decide read its transaction while it was pending,
\* and one that opens seats confirms a payment of global access.
RequestOK(s) ==
    /\ job[s].pc \in {"update", "insert", "commit"} \/ job[s].op = "reject"
          => job[s].snap = "pending"
    /\ job[s].pay # {} => Product[job[s].t] \notin Stages \cup Courses

Requests == (\A s \in Slots : RequestOK(s)) /\ SeatsAreBought

LEMMA RequestsInit == Init => Requests
BY DEF Init, Requests, RequestOK, NoJob, SeatsAreBought

\* The steps that change one job, and neither seats nor audits.
LEMMA RequestStep ==
    ASSUME IInv, Requests, NEW s \in Slots, NEW j,
           job' = [job EXCEPT ![s] = j], paid' = paid, audits \subseteq audits',
           j.pc \in {"update", "insert", "commit"} \/ j.op = "reject" => j.snap = "pending",
           j.pay # {} => Product[j.t] \notin Stages \cup Courses
    PROVE  Requests'
<1>1. \A r \in Slots : job'[r] = IF r = s THEN j ELSE job[r]
  BY DEF IInv, TypeOK
<1>2. \A r \in Slots : RequestOK(r)'
  BY <1>1 DEF Requests, RequestOK
<1>3. SeatsAreBought'
  BY DEF Requests, SeatsAreBought
<1> QED
  BY <1>2, <1>3 DEF Requests

\* A grant opens seats for the buyer of a payment of global access only.
LEMMA GrantSeats ==
    ASSUME IInv, Requests, NEW s \in Slots, job[s].pc = "commit", CommitGrant(s), Close(s)
    PROVE  Requests'
<1>1. \A r \in Slots : job'[r] = IF r = s THEN NoJob ELSE job[r]
  BY DEF IInv, TypeOK, Close
<1>2. \A r \in Slots : RequestOK(r)'
  BY <1>1 DEF Requests, RequestOK, NoJob
<1>3. job[s].t \in Tx
  BY DEF IInv, JobOK
<1>4. SeatsAreBought'
  <2> SUFFICES ASSUME NEW k \in paid'
               PROVE  \E t \in Tx : /\ Buyer[t] = k[1]
                                    /\ Product[t] \notin Stages \cup Courses
                                    /\ <<"confirmed", t>> \in audits'
    BY DEF SeatsAreBought
  <2>1. CASE k \in paid
    BY <2>1 DEF Requests, SeatsAreBought, CommitGrant
  <2>2. CASE k \in {Buyer[job[s].t]} \X job[s].pay
    BY <1>3, <2>2 DEF Requests, RequestOK, CommitGrant
  <2> QED
    BY <2>1, <2>2 DEF CommitGrant
<1> QED
  BY <1>2, <1>4 DEF Requests

LEMMA RequestsNext == IInv /\ Requests /\ [Next]_vars => Requests'
<1> SUFFICES ASSUME IInv, Requests, [Next]_vars PROVE Requests'
  OBVIOUS
<1> USE DEF db, env
<1>0. \A s \in Slots : NoJob.pay = {} /\ NoJob.pc = "idle" /\ NoJob.op = "none"
  BY DEF NoJob
<1>1. ASSUME NEW s \in Slots, Start(s) PROVE Requests'
  <2>1. PICK t \in Tx, o \in Op : /\ Receive(s, o, t) /\ UNCHANGED <<db, env, acks>>
                                  /\ o = "reject" => status[t] = "pending"
    BY <1>1 DEF Start, ReceiveProof, ReceiveReject, ReceiveConfirm, Op
  <2> QED
    BY <2>1, RequestStep DEF Receive, NoJob
<1>2. ASSUME NEW s \in Slots, Close(s), paid' = paid, audits \subseteq audits'
      PROVE  Requests'
  BY <1>0, <1>2, RequestStep DEF Close
<1>3. ASSUME NEW s \in Slots, NEW l \in Pc, Goto(s, l), paid' = paid, audits' = audits,
             l \in {"update", "insert", "commit"} => job[s].snap = "pending"
      PROVE  Requests'
  <2> DEFINE j == [job[s] EXCEPT !.pc = l]
  <2>1. job[s] \in Job /\ job' = [job EXCEPT ![s] = j]
    BY <1>3 DEF Goto, IInv, TypeOK
  <2>2. j.pc = l /\ j.op = job[s].op /\ j.snap = job[s].snap /\ j.pay = job[s].pay /\ j.t = job[s].t
    BY <2>1 DEF Job
  <2>3. RequestOK(s)
    BY DEF Requests
  <2> HIDE DEF j
  <2> QED
    BY <1>3, <2>1, <2>2, <2>3, RequestStep DEF RequestOK
<1>4. ASSUME NEW s \in Slots, Progress(s) PROVE Requests'
  <2>1. RequestOK(s) /\ Pc = {"idle", "read", "update", "insert", "commit", "notify"}
    BY DEF Requests, Pc
  <2>2. CASE SaveProof(s) \/ RefuseConfirm(s) \/ FinishMm(s) \/ FinishRepeat(s) \/ GiveUp(s)
             \/ FinishReject(s) \/ (FinishSi(s) /\ ~manager)
    BY <2>2, <1>2 DEF SaveProof, RefuseConfirm, FinishMm, FinishRepeat, GiveUp, FinishReject, FinishSi
  <2>3. CASE (FinishSi(s) /\ manager) \/ FinishTool(s)
    BY <2>3, GrantSeats DEF FinishSi, FinishTool
  <2>4. CASE RepeatConfirm(s)
    BY <2>1, <2>4, <1>2, <1>3 DEF RepeatConfirm
  <2>5. CASE AcceptConfirm(s) \/ InsertRows(s) \/ UpdateRejected(s)
    BY <2>1, <2>5, <1>2, <1>3 DEF AcceptConfirm, InsertRows, UpdateRejected, RequestOK
  <2>6. CASE UpdateStatus(s)
    <3>1. CASE ~Sellable(Product[job[s].t])
      BY <2>6, <3>1, <1>2 DEF UpdateStatus
    <3>2. CASE Sellable(Product[job[s].t])
      <4> DEFINE j == [job[s] EXCEPT !.pc = "insert",
                                     !.ins = Missing(Buyer[job[s].t], Product[job[s].t]),
                                     !.pay = Seats(Product[job[s].t])]
      <4>1. job[s] \in Job /\ job' = [job EXCEPT ![s] = j]
        BY <2>6, <3>2 DEF UpdateStatus, IInv, TypeOK
      <4>2. j.pc = "insert" /\ j.snap = job[s].snap /\ j.pay = Seats(Product[job[s].t])
            /\ j.t = job[s].t
        BY <4>1 DEF Job
      <4>3. job[s].pc = "update" /\ paid' = paid /\ audits' = audits
        BY <2>6, <3>2 DEF UpdateStatus
      <4> HIDE DEF j
      <4> QED
        BY <2>1, <4>1, <4>2, <4>3, RequestStep DEF RequestOK, Seats
    <3> QED
      BY <3>1, <3>2
  <2> QED
    BY <1>4, <2>2, <2>3, <2>4, <2>5, <2>6 DEF Progress
<1>5. CASE Environment \/ UNCHANGED vars
  BY <1>5 DEF Environment, RequestPayment, SetManagerStatus, SetTeacherStatus, OpenUsage,
     MoveStage, vars, Requests, RequestOK, SeatsAreBought
<1>6. CASE Crash
  <2>1. \A s \in Slots : job'[s] = NoJob
    BY <1>6 DEF Crash
  <2> QED
    BY <1>0, <1>6, <2>1 DEF Crash, Requests, RequestOK, SeatsAreBought
<1> QED
  BY <1>1, <1>4, <1>5, <1>6 DEF Next

\* Paid seats with the teachers come from a payment of global access only.
THEOREM SeatsBought == Spec => []SeatsAreBought
<1>1. Init => IInv /\ Requests
  BY IInvInit, RequestsInit
<1>2. (IInv /\ Requests) /\ [Next]_vars => (IInv /\ Requests)'
  BY IInvNext, RequestsNext
<1>3. IInv /\ Requests => SeatsAreBought
  BY DEF Requests
<1> QED
  BY <1>1, <1>2, <1>3, PTL DEF Spec

\* A decided payment is decided again only by a request that had read it while it
\* was pending.
THEOREM DecisionsStay == Spec => DecisionIsFinal
<1> DEFINE Stays == \A t \in Tx :
                      status[t] \in {"confirmed", "rejected"} /\ status'[t] # status[t] =>
                        \E s \in Slots : job[s].t = t /\ job[s].snap = "pending" /\ Locked(s)
<1>1. Init => IInv /\ Requests
  BY IInvInit, RequestsInit
<1>2. (IInv /\ Requests) /\ [Next]_vars => (IInv /\ Requests)'
  BY IInvNext, RequestsNext
<1>3. ASSUME IInv, Requests, Next PROVE Stays
  <2> USE DEF db, env
  <2>1. ASSUME NEW s \in Slots, job[s].pc = "commit", NEW x,
               status' = [status EXCEPT ![job[s].t] = x]
        PROVE  Stays
    <3>1. job[s].snap = "pending" /\ Locked(s)
      BY <1>3, <2>1 DEF Requests, RequestOK, Locked
    <3>2. \A t \in Tx : t # job[s].t => status'[t] = status[t]
      BY <1>3, <2>1 DEF IInv, TypeOK
    <3> QED
      BY <3>1, <3>2
  <2>2. CASE status' = status
    BY <2>2
  <2>3. ASSUME NEW t \in Tx, RequestPayment(t) PROVE Stays
    <3>1. \A x \in Tx : x # t => status'[x] = status[x]
      BY <1>3, <2>3 DEF RequestPayment, IInv, TypeOK
    <3> QED
      BY <2>3, <3>1 DEF RequestPayment
  <2>4. ASSUME NEW s \in Slots, Start(s) PROVE Stays
    BY <2>2, <2>4 DEF Start, ReceiveProof, ReceiveReject, ReceiveConfirm
  <2>5. ASSUME NEW s \in Slots, Progress(s) PROVE Stays
    <3>1. CASE FinishSi(s) \/ FinishTool(s) \/ FinishReject(s)
      BY <2>1, <2>2, <3>1 DEF FinishSi, FinishTool, FinishReject, CommitGrant
    <3> QED
      BY <2>2, <2>5, <3>1
      DEF Progress, SaveProof, RefuseConfirm, RepeatConfirm, AcceptConfirm, UpdateStatus,
          InsertRows, FinishMm, FinishRepeat, UpdateRejected, GiveUp
  <2>6. CASE Environment
    BY <2>2, <2>3, <2>6
    DEF Environment, SetManagerStatus, SetTeacherStatus, OpenUsage, MoveStage
  <2>7. CASE Crash
    BY <2>2, <2>7 DEF Crash
  <2> QED
    BY <1>3, <2>4, <2>5, <2>6, <2>7 DEF Next
<1>4. (IInv /\ Requests) /\ [Next]_vars => [Stays]_vars
  BY <1>3
<1> QED
  BY <1>1, <1>2, <1>4, PTL DEF Spec, DecisionIsFinal
-----------------------------------------------------------------------------
(* Rows are bought: each confirmed transaction adds a row at most once.     *)

LEMMA PaidIsFinite ==
    ASSUME RowsInv, NEW u, NEW i
    PROVE  IsFiniteSet(Paid(u, i))
BY FS_Subset DEF RowsInv, Paid

LEMMA BoughtMeans ==
    RowsAreBought <=>
        \A u \in Users, i \in Content : rows[u][i] <= Cardinality(Paid(u, i))
BY DEF RowsAreBought, Content, Paid, Confirmed

LEMMA BoughtMeansThen ==
    (RowsAreBought <=>
        \A u \in Users, i \in Content : rows[u][i] <= Cardinality(Paid(u, i)))'
BY BoughtMeans, PTL

\* Rows of content and confirmations stay, and no request takes a lock.
LEMMA SameContent ==
    ASSUME IInv, RowsInv,
           \A t \in Tx : Confirmed(t)' <=> Confirmed(t),
           \A u \in Users, i \in Content : rows'[u][i] = rows[u][i],
           \A s \in Slots :
             \/ ~Locked(s)' /\ job'[s].ins = {}
             \/ job'[s].t = job[s].t /\ job'[s].ins = job[s].ins /\ (Locked(s)' <=> Locked(s))
    PROVE  RowsInv'
<1>1. {t \in Tx : Confirmed(t)'} = {t \in Tx : Confirmed(t)}
  OBVIOUS
<1>2. RowsAreBought'
  <2>1. \A u \in Users, i \in Content : Paid(u, i)' = Paid(u, i)
    BY DEF Paid, Buys
  <2> QED
    BY <2>1, BoughtMeans, BoughtMeansThen DEF RowsInv, Content
<1>3. ASSUME NEW s \in Slots PROVE GrantOK(s)'
  <2>1. GrantOK(s) /\ (job[s].ins = {} \/ job[s].t \in Tx)
    BY DEF RowsInv, IInv, JobOK
  <2>2. CASE job'[s].ins = {}
    BY <2>2 DEF GrantOK
  <2>3. CASE job[s].t \in Tx /\ job'[s].t = job[s].t /\ job'[s].ins = job[s].ins
    BY <2>1, <2>3 DEF GrantOK, Buys, Content
  <2> QED
    BY <2>1, <2>2, <2>3
<1> QED
  BY <1>1, <1>2, <1>3 DEF RowsInv

\* A request moves without a commit, and takes a lock only when the row is free.
LEMMA MoveContent ==
    ASSUME IInv, RowsInv, NEW s \in Slots, NEW j, job' = [job EXCEPT ![s] = j],
           rows' = rows, \A t \in Tx : Confirmed(t)' <=> Confirmed(t),
           j.pc \in {"insert", "commit"} => j.t = job[s].t /\ (Locked(s) \/ RowFree(s)),
           GrantOK(s)'
    PROVE  RowsInv'
<1>1. \A r \in Slots : job'[r] = IF r = s THEN j ELSE job[r]
  BY DEF IInv, TypeOK
<1>2. ASSUME NEW r \in Slots \ {s}
      PROVE  /\ GrantOK(r)' /\ (Locked(r)' <=> Locked(r)) /\ job'[r].t = job[r].t
             /\ Locked(s)' /\ Locked(r) => job[r].t # job[s].t
  <2>1. job'[r] = job[r] /\ (job[r].ins = {} \/ job[r].t \in Tx) /\ GrantOK(r)
    BY <1>1 DEF RowsInv, IInv, JobOK
  <2>2. GrantOK(r)'
    BY <2>1 DEF GrantOK, Buys, Content
  <2>3. Locked(s)' /\ Locked(r) => job[r].t # job[s].t
    BY <1>1 DEF RowsInv, Locked, RowFree
  <2> QED
    BY <2>1, <2>2, <2>3 DEF Locked
<1>3. Locked(s)' => job'[s].t = job[s].t
  BY <1>1 DEF Locked
<1>4. \A q, r \in Slots : Locked(q)' /\ Locked(r)' /\ job'[q].t = job'[r].t => q = r
  BY <1>2, <1>3 DEF RowsInv
<1>5. RowsAreBought'
  <2>1. \A u \in Users, i \in Content : Paid(u, i)' = Paid(u, i)
    BY DEF Paid, Buys
  <2> QED
    BY <2>1, BoughtMeans, BoughtMeansThen DEF RowsInv, Content
<1>6. {t \in Tx : Confirmed(t)'} = {t \in Tx : Confirmed(t)}
  OBVIOUS
<1> QED
  BY <1>2, <1>4, <1>5, <1>6 DEF RowsInv

\* A request moves and is about to insert nothing, or what it was about to.
LEMMA MoveSameRows ==
    ASSUME IInv, RowsInv, NEW s \in Slots, NEW j, job' = [job EXCEPT ![s] = j],
           rows' = rows, \A t \in Tx : Confirmed(t)' <=> Confirmed(t),
           j.pc \in {"insert", "commit"} => j.t = job[s].t /\ (Locked(s) \/ RowFree(s)),
           j.ins = {} \/ (j.ins = job[s].ins /\ j.t = job[s].t)
    PROVE  RowsInv'
<1>1. job'[s] = j
  BY DEF IInv, TypeOK
<1>2. GrantOK(s) /\ (job[s].ins = {} \/ job[s].t \in Tx)
  BY DEF RowsInv, IInv, JobOK
<1>3. GrantOK(s)'
  BY <1>1, <1>2 DEF GrantOK, Buys, Content
<1> QED
  BY <1>3, MoveContent

LEMMA SameContentClose ==
    ASSUME IInv, RowsInv, NEW s \in Slots, Close(s),
           rows' = rows, \A t \in Tx : Confirmed(t)' <=> Confirmed(t)
    PROVE  RowsInv'
<1>1. NoJob.pc = "idle" /\ NoJob.ins = {}
  BY DEF NoJob
<1> QED
  BY <1>1, MoveSameRows DEF Close

\* What a request that found the row free is about to insert: what its
\* transaction buys, and nothing of it if the transaction is confirmed.
LEMMA MissingIsBought ==
    ASSUME IInv, NEW t \in Tx
    PROVE  /\ \A i \in Missing(Buyer[t], Product[t]) \cap Content : Buys(t, i)
           /\ Confirmed(t) => Missing(Buyer[t], Product[t]) \cap Content = {}
<1> DEFINE u == Buyer[t]
           p == Product[t]
<1>1. teachers \cap Content = {} /\ Global \notin Stages
  BY DisjointAssumption DEF IInv, TypeOK, Content, NoContent
<1>2. \A i \in Item : rows[u][i] > 0 => rows[u][i] # 0
  BY ItemsOfProducts DEF IInv, TypeOK
<1>3. CASE p \in Stages
  BY <1>2, <1>3, ItemsOfProducts
  DEF IInv, FactsOK, Served, HasStageAccess, Missing, Buys
<1>4. CASE p \notin Stages /\ p \in Courses
  BY <1>2, <1>4, ItemsOfProducts
  DEF IInv, FactsOK, Served, HasLectureAccess, Missing, MissingLectures, Buys
<1>5. CASE p \notin Stages /\ p \notin Courses
  <2>1. p \in {Global, Other}
    BY <1>5, ItemsOfProducts DEF Products
  <2>2. Missing(u, p) \cap Content \subseteq IF HasNoContentRow(u) THEN {} ELSE {Global}
    BY <1>1, <1>5 DEF Missing, MissingGlobal
  <2> QED
    BY <2>1, <2>2 DEF IInv, FactsOK, Served, Buys
<1> QED
  BY <1>3, <1>4, <1>5

LEMMA LookupContent ==
    ASSUME IInv, RowsInv, NEW s \in Slots, UpdateStatus(s)
    PROVE  RowsInv'
<1> DEFINE ins == Missing(Buyer[job[s].t], Product[job[s].t])
           j == [job[s] EXCEPT !.pc = "insert", !.ins = ins,
                               !.pay = Seats(Product[job[s].t])]
<1>1. /\ job[s] \in Job /\ job[s].pc = "update" /\ job[s].t \in Tx
      /\ rows' = rows /\ audits' = audits /\ RowFree(s)
  BY DEF UpdateStatus, IInv, TypeOK, JobOK, db
<1>2. \A t \in Tx : Confirmed(t)' <=> Confirmed(t)
  BY <1>1 DEF Confirmed
<1>3. CASE Close(s)
  BY <1>1, <1>2, <1>3, SameContentClose
<1>4. CASE ~Close(s)
  <2>1. job' = [job EXCEPT ![s] = j]
    BY <1>4 DEF UpdateStatus
  <2>2. j.pc = "insert" /\ j.t = job[s].t /\ j.ins = ins
    BY <1>1 DEF Job
  <2> HIDE DEF j
  <2>3. job'[s] = j
    BY <2>1 DEF IInv, TypeOK
  <2>4. GrantOK(s)'
    BY <1>1, <1>2, <2>2, <2>3, MissingIsBought DEF GrantOK, Buys, Content
  <2> QED
    BY <1>1, <1>2, <2>1, <2>2, <2>4, MoveContent
<1> QED
  BY <1>3, <1>4

\* The commit of a confirmation: one more transaction is confirmed, or no
\* content is inserted.
LEMMA GrantContent ==
    ASSUME IInv, RowsInv, NEW s \in Slots, job[s].pc = "commit", CommitGrant(s), Close(s)
    PROVE  RowsInv'
<1>1. PICK t \in Tx : t = job[s].t
  BY DEF IInv, JobOK
<1>2. /\ job'[s] = NoJob /\ \A r \in Slots \ {s} : job'[r] = job[r]
      /\ Locked(s) /\ GrantOK(s)
  BY DEF Close, IInv, TypeOK, Locked, RowsInv
<1>3. \A x \in Tx : Confirmed(x)' <=> Confirmed(x) \/ x = t
  BY <1>1 DEF CommitGrant, Confirmed
<1>4. \A u \in Users, i \in Item :
          /\ rows[u][i] \in Nat
          /\ rows'[u][i] = IF u = Buyer[t] /\ i \in job[s].ins THEN rows[u][i] + 1 ELSE rows[u][i]
  BY <1>1, ItemsOfProducts DEF CommitGrant, IInv, TypeOK
<1>5. ASSUME NEW u \in Users, NEW i \in Content
      PROVE  rows'[u][i] <= Cardinality(Paid(u, i)')
  <2>1. /\ IsFiniteSet(Paid(u, i)) /\ rows[u][i] <= Cardinality(Paid(u, i))
        /\ rows[u][i] \in Nat /\ i \in Item
    BY <1>4, PaidIsFinite, BoughtMeans DEF RowsInv, Content, Item, UniqueItem
  <2>2. Paid(u, i) \subseteq Paid(u, i)'
    BY <1>3 DEF Paid, Buys
  <2>3. Paid(u, i)' \subseteq Paid(u, i) \cup {t}
    BY <1>3 DEF Paid, Buys
  <2>4. /\ IsFiniteSet(Paid(u, i)') /\ Cardinality(Paid(u, i)) <= Cardinality(Paid(u, i)')
        /\ Cardinality(Paid(u, i)) \in Nat /\ Cardinality(Paid(u, i)') \in Nat
    <3>1. IsFiniteSet(Paid(u, i) \cup {t})
      BY <2>1, FS_AddElement
    <3>2. IsFiniteSet(Paid(u, i)')
      BY <2>3, <3>1, FS_Subset
    <3> QED
      BY <2>1, <2>2, <3>2, FS_Subset, FS_CardinalityType
  <2>5. CASE u = Buyer[t] /\ i \in job[s].ins
    <3>1. Buys(t, i) /\ ~Confirmed(t)
      BY <1>1, <1>2, <2>5 DEF GrantOK
    <3>2. t \notin Paid(u, i)
      BY <3>1 DEF Paid
    <3>3. t \in Paid(u, i)'
      BY <1>3, <2>5, <3>1 DEF Paid, Buys
    <3>4. Paid(u, i)' = Paid(u, i) \cup {t}
      BY <2>2, <2>3, <3>3
    <3>5. Cardinality(Paid(u, i)') = Cardinality(Paid(u, i)) + 1
      BY <2>1, <3>2, <3>4, FS_AddElement
    <3> QED
      BY <1>4, <2>1, <2>4, <2>5, <3>5
  <2>6. CASE ~(u = Buyer[t] /\ i \in job[s].ins)
    BY <1>4, <2>1, <2>4, <2>6
  <2> QED
    BY <2>5, <2>6
<1>6. RowsAreBought'
  BY <1>5, BoughtMeansThen DEF Content
<1>7. IsFiniteSet({x \in Tx : Confirmed(x)'})
  <2>1. {x \in Tx : Confirmed(x)'} = {x \in Tx : Confirmed(x)} \cup {t}
    BY <1>3
  <2> QED
    BY <2>1, FS_AddElement DEF RowsInv
<1>8. ~Locked(s)' /\ \A r \in Slots \ {s} : Locked(r)' <=> Locked(r)
  BY <1>2 DEF Locked, NoJob
<1>9. \A q, r \in Slots : Locked(q)' /\ Locked(r)' /\ job'[q].t = job'[r].t => q = r
  BY <1>2, <1>8 DEF RowsInv
<1>10. ASSUME NEW r \in Slots PROVE GrantOK(r)'
  <2>1. CASE r = s
    BY <1>2, <2>1 DEF GrantOK, NoJob
  <2>2. CASE r # s /\ Locked(r)
    <3>1. GrantOK(r) /\ job[r].t # t /\ job[r].t \in Tx /\ job'[r] = job[r]
      BY <1>1, <1>2, <2>2 DEF RowsInv, Locked, IInv, JobOK
    <3>2. Confirmed(job[r].t)' <=> Confirmed(job[r].t)
      BY <1>3, <3>1 DEF Confirmed
    <3> QED
      BY <3>1, <3>2 DEF GrantOK, Buys, Content, Confirmed
  <2>3. CASE r # s /\ ~Locked(r)
    <3>1. job'[r].ins = {}
      BY <1>2, <2>3 DEF Locked, IInv, JobOK
    <3> QED
      BY <3>1 DEF GrantOK
  <2> QED
    BY <2>1, <2>2, <2>3
<1> QED
  BY <1>6, <1>7, <1>9, <1>10 DEF RowsInv

LEMMA RowsInvInit == Init => RowsInv
<1> SUFFICES ASSUME Init PROVE RowsInv
  OBVIOUS
<1>1. \A s \in Slots : ~Locked(s) /\ job[s].ins = {}
  BY DEF Init, Locked, NoJob
<1>2. {t \in Tx : Confirmed(t)} = {}
  BY DEF Init, Confirmed
<1>3. \A u \in Users, i \in Content : Paid(u, i) = {} /\ rows[u][i] = 0
  BY <1>2 DEF Init, Paid, Content, Item, UniqueItem
<1>4. RowsAreBought
  BY <1>3, BoughtMeans, FS_EmptySet
<1> QED
  BY <1>1, <1>2, <1>4, FS_EmptySet DEF RowsInv, GrantOK

LEMMA RowsInvProgress ==
    ASSUME IInv, RowsInv, NEW s \in Slots, Progress(s)
    PROVE  RowsInv'
<1> USE DEF db, env
<1>1. JobOK(s) /\ job[s] \in Job
  BY DEF IInv, TypeOK
<1>2. ASSUME rows' = rows, \A t \in Tx : Confirmed(t)' <=> Confirmed(t), NEW l \in Pc, Goto(s, l),
             l \in {"insert", "commit"} => Locked(s) \/ RowFree(s)
      PROVE  RowsInv'
  <2> DEFINE j == [job[s] EXCEPT !.pc = l]
  <2>1. /\ job' = [job EXCEPT ![s] = j] /\ j.pc = l /\ j.t = job[s].t
        /\ j.ins = job[s].ins
    BY <1>1, <1>2 DEF Goto, Job, IInv, TypeOK
  <2> HIDE DEF j
  <2> QED
    BY <1>2, <2>1, MoveSameRows
<1>3. CASE SaveProof(s) \/ RefuseConfirm(s) \/ FinishMm(s) \/ FinishRepeat(s) \/ GiveUp(s)
           \/ (FinishSi(s) /\ ~manager)
  <2>1. Close(s) /\ rows' = rows /\ audits' = audits
    BY <1>3 DEF SaveProof, RefuseConfirm, FinishMm, FinishRepeat, GiveUp, FinishSi
  <2> QED
    BY <2>1, SameContentClose DEF Confirmed
<1>4. CASE FinishReject(s)
  <2>1. Close(s) /\ rows' = rows /\ audits' \in {audits, audits \cup {<<"rejected", job[s].t>>}}
    BY <1>4 DEF FinishReject
  <2>2. \A t \in Tx : Confirmed(t)' <=> Confirmed(t)
    BY <2>1 DEF Confirmed
  <2> QED
    BY <2>1, <2>2, SameContentClose
<1>5. CASE (FinishSi(s) /\ manager) \/ FinishTool(s)
  BY <1>5, GrantContent DEF FinishSi, FinishTool
<1>6. CASE RepeatConfirm(s) \/ AcceptConfirm(s) \/ InsertRows(s) \/ UpdateRejected(s)
  <2>1. rows' = rows /\ audits' = audits
    BY <1>6 DEF RepeatConfirm, AcceptConfirm, InsertRows, UpdateRejected
  <2>2. \A t \in Tx : Confirmed(t)' <=> Confirmed(t)
    BY <2>1 DEF Confirmed
  <2>3. CASE Close(s)
    BY <2>1, <2>2, <2>3, SameContentClose
  <2>4. CASE Goto(s, "notify") \/ Goto(s, "update")
    BY <1>2, <2>1, <2>2, <2>4 DEF Pc
  <2>5. CASE Goto(s, "commit") /\ (InsertRows(s) \/ UpdateRejected(s))
    <3>1. Locked(s) \/ RowFree(s)
      BY <2>5 DEF InsertRows, UpdateRejected, Locked
    <3> QED
      BY <1>2, <2>1, <2>2, <2>5, <3>1 DEF Pc
  <2> QED
    BY <1>6, <2>3, <2>4, <2>5 DEF RepeatConfirm, AcceptConfirm, InsertRows, UpdateRejected
<1>7. CASE UpdateStatus(s)
  BY <1>7, LookupContent
<1> QED
  BY <1>3, <1>4, <1>5, <1>6, <1>7 DEF Progress

LEMMA RowsInvNext == IInv /\ RowsInv /\ [Next]_vars => RowsInv'
<1> SUFFICES ASSUME IInv, RowsInv, [Next]_vars PROVE RowsInv'
  OBVIOUS
<1> USE DEF db, env
<1>1. ASSUME NEW s \in Slots, Start(s) PROVE RowsInv'
  <2>1. PICK t \in Tx, o \in Op : Receive(s, o, t) /\ UNCHANGED <<db, env, acks>>
    BY <1>1 DEF Start, ReceiveProof, ReceiveReject, ReceiveConfirm, Op
  <2> DEFINE j == [NoJob EXCEPT !.pc = "read", !.op = o, !.t = t, !.snap = status[t]]
  <2>2. j.pc = "read" /\ j.ins = {} /\ job' = [job EXCEPT ![s] = j]
    BY <2>1 DEF Receive, NoJob
  <2>3. rows' = rows /\ \A x \in Tx : Confirmed(x)' <=> Confirmed(x)
    BY <2>1 DEF Confirmed
  <2> HIDE DEF j
  <2> QED
    BY <2>2, <2>3, MoveSameRows
<1>2. CASE Environment \/ UNCHANGED vars
  <2>1. job' = job /\ audits' = audits
    BY <1>2 DEF Environment, RequestPayment, SetManagerStatus, SetTeacherStatus, OpenUsage,
       MoveStage, vars
  <2>2. \A u \in Users, i \in Content : rows'[u][i] = rows[u][i]
    <3>1. ASSUME NEW v \in Users, NEW a \in Teachers, OpenUsage(v, a)
          PROVE  \A u \in Users, i \in Content : rows'[u][i] = rows[u][i]
      <4>1. a \notin Content
        BY DisjointAssumption DEF Content, NoContent
      <4> QED
        BY <3>1, <4>1 DEF OpenUsage, IInv, TypeOK
    <3> QED
      BY <1>2, <3>1 DEF Environment, RequestPayment, SetManagerStatus, SetTeacherStatus, MoveStage, vars
  <2> QED
    BY <2>1, <2>2, SameContent DEF Confirmed, Locked
<1>3. CASE Crash
  <2>1. \A s \in Slots : job'[s] = NoJob /\ NoJob.pc = "idle" /\ NoJob.ins = {}
    BY <1>3 DEF Crash, NoJob
  <2>2. \A s \in Slots : ~Locked(s)' /\ job'[s].ins = {}
    BY <2>1 DEF Locked
  <2> QED
    BY <1>3, <2>2, SameContent DEF Crash, Confirmed
<1> QED
  BY <1>1, <1>2, <1>3, RowsInvProgress DEF Next

\* A student never has more rows of what a payment buys than payments of it that
\* were confirmed: concurrent and repeated confirmations of one transaction add
\* its rows once.
THEOREM RowsBought == Spec => []RowsAreBought
<1>1. Init => IInv /\ RowsInv
  BY IInvInit, RowsInvInit
<1>2. (IInv /\ RowsInv) /\ [Next]_vars => (IInv /\ RowsInv)'
  BY IInvNext, RowsInvNext
<1>3. IInv /\ RowsInv => RowsAreBought
  BY DEF RowsInv
<1> QED
  BY <1>1, <1>2, <1>3, PTL DEF Spec

-----------------------------------------------------------------------------
(* Payments implements AccessLedger: every step is an entry or a stutter.   *)

\* A request in progress works on a payment that was requested.
Asked == \A s \in Slots : job[s].pc # "idle" => status[job[s].t] # "absent"

\* the payments whose status a step changes, at most
LEMMA StatusSteps ==
    ASSUME IInv, [Next]_vars
    PROVE  \/ status' = status
           \/ \E t \in Tx : RequestPayment(t)
           \/ \E s \in Slots : manager /\ FinishSi(s)
           \/ \E s \in Slots : FinishTool(s)
           \/ \E s \in Slots : manager /\ FinishReject(s)
<1> USE DEF db, env
<1>1. ASSUME NEW s \in Slots, Start(s) PROVE status' = status
  BY <1>1 DEF Start, ReceiveProof, ReceiveReject, ReceiveConfirm
<1>2. ASSUME NEW s \in Slots, Progress(s)
      PROVE  \/ status' = status
             \/ manager /\ FinishSi(s)
             \/ FinishTool(s)
             \/ manager /\ FinishReject(s)
  BY <1>2 DEF Progress, SaveProof, RefuseConfirm, RepeatConfirm, AcceptConfirm, UpdateStatus,
     InsertRows, FinishSi, FinishMm, FinishRepeat, UpdateRejected, FinishReject, GiveUp
<1>3. CASE Environment
  BY <1>3 DEF Environment, SetManagerStatus, SetTeacherStatus, OpenUsage, MoveStage
<1>4. CASE Crash \/ UNCHANGED vars
  BY <1>4 DEF Crash, vars
<1> QED
  BY <1>1, <1>2, <1>3, <1>4 DEF Next

LEMMA AskedStays ==
    ASSUME IInv, [Next]_vars, NEW t \in Tx, status[t] # "absent"
    PROVE  status'[t] # "absent"
<1>1. \A x \in Tx : RequestPayment(x) => status'[t] # "absent"
  BY DEF RequestPayment, IInv, TypeOK
<1>2. \A s \in Slots : FinishSi(s) \/ FinishTool(s) \/ FinishReject(s) => status'[t] # "absent"
  BY DEF FinishSi, FinishTool, FinishReject, CommitGrant, IInv, TypeOK
<1> QED
  BY <1>1, <1>2, StatusSteps

\* A slot is free, or goes on with its request, or begins one with the status it reads.
LEMMA SameRequest ==
    ASSUME IInv, [Next]_vars, NEW s \in Slots
    PROVE  \/ job'[s].pc = "idle"
           \/ /\ job[s].pc # "idle"
              /\ job'[s].t = job[s].t /\ job'[s].op = job[s].op /\ job'[s].snap = job[s].snap
           \/ /\ status' = status /\ job'[s].t \in Tx
              /\ job'[s].snap = status[job'[s].t] /\ job'[s].snap # "absent"
<1> DEFINE Goes == \/ job'[s].pc = "idle"
                   \/ /\ job[s].pc # "idle"
                      /\ job'[s].t = job[s].t /\ job'[s].op = job[s].op
                      /\ job'[s].snap = job[s].snap
<1> USE DEF db, env
<1>0. TypeOK
  BY DEF IInv
<1>1. CASE job'[s] = job[s]
  BY <1>1
<1>2. CASE job'[s] = NoJob
  BY <1>2 DEF NoJob
<1>3. ASSUME NEW l, Goto(s, l), job[s].pc # "idle"
      PROVE  Goes
  BY <1>0, <1>3 DEF Goto, TypeOK, Job
<1>4. CASE Start(s)
  <2>1. PICK t \in Tx, o \in Op : Receive(s, o, t) /\ status[t] # "absent" /\ status' = status
    BY <1>4 DEF Start, ReceiveProof, ReceiveReject, ReceiveConfirm, Op
  <2>2. job'[s].t = t /\ job'[s].snap = status[t]
    BY <1>0, <2>1 DEF Receive, TypeOK, NoJob
  <2> QED
    BY <2>1, <2>2
<1>5. CASE UpdateStatus(s)
  <2>1. CASE Close(s)
    BY <1>0, <1>2, <2>1 DEF Close, TypeOK
  <2>2. CASE ~Close(s)
    BY <1>0, <1>5, <2>2 DEF UpdateStatus, TypeOK, Job
  <2> QED
    BY <2>1, <2>2
<1>6. CASE Progress(s)
  <2>1. CASE RepeatConfirm(s) \/ AcceptConfirm(s) \/ InsertRows(s) \/ UpdateRejected(s)
    <3>1. (Close(s) \/ \E l : Goto(s, l)) /\ job[s].pc # "idle"
      BY <2>1 DEF RepeatConfirm, AcceptConfirm, InsertRows, UpdateRejected, Confirming
    <3> QED
      BY <1>0, <1>2, <1>3, <3>1 DEF Close, TypeOK
  <2>2. CASE Close(s)
    BY <1>0, <1>2, <2>2 DEF Close, TypeOK
  <2> QED
    BY <1>5, <1>6, <2>1, <2>2
    DEF Progress, SaveProof, RefuseConfirm, FinishSi, FinishTool, FinishMm, FinishRepeat,
        FinishReject, GiveUp
<1>7. ASSUME NEW r \in Slots, r # s, Start(r) \/ Progress(r)
      PROVE  job'[s] = job[s]
  BY <1>0, <1>7
  DEF Start, ReceiveProof, ReceiveReject, ReceiveConfirm, Receive, Progress, SaveProof,
      RefuseConfirm, RepeatConfirm, AcceptConfirm, UpdateStatus, InsertRows, FinishSi,
      FinishTool, FinishMm, FinishRepeat, UpdateRejected, FinishReject, GiveUp, Close, Goto, TypeOK
<1>8. CASE Environment \/ UNCHANGED vars
  BY <1>1, <1>8 DEF Environment, RequestPayment, SetManagerStatus, SetTeacherStatus, OpenUsage,
     MoveStage, vars
<1>9. CASE Crash
  BY <1>2, <1>9 DEF Crash
<1> QED
  BY <1>1, <1>4, <1>6, <1>7, <1>8, <1>9 DEF Next

LEMMA AskedNext == IInv /\ Asked /\ [Next]_vars => Asked'
<1> SUFFICES ASSUME IInv, Asked, [Next]_vars, NEW s \in Slots, job'[s].pc # "idle"
             PROVE  status'[job'[s].t] # "absent"
  BY DEF Asked
<1>1. CASE job[s].pc # "idle" /\ job'[s].t = job[s].t
  BY <1>1, AskedStays DEF Asked, IInv, JobOK
<1> QED
  BY <1>1, SameRequest

\* What is served by the rows is served on the ledger, before and after a step.
LEMMA ServedOnLedger ==
    ASSUME NEW t \in Tx, TypeOK, Served(t)
    PROVE  Ledger!Served(t)
<1>1. /\ Buyer[t] \in Users /\ Product[t] \in Products
      /\ \A c \in Courses : LecturesOf[c] \subseteq Lectures
  BY ProductAssumption
<1>2. \A i \in Content : i \in Access[Buyer[t]] <=> rows[Buyer[t]][i] > 0
  BY <1>1 DEF Access
<1>3. \A N \in Needs[t] : \E i \in N \cap Content : rows[Buyer[t]][i] > 0
  BY <1>1 DEF Needs, Served, HasStageAccess, HasLectureAccess, HasNoContentRow, Content,
     NoContent, Products
<1> QED
  BY <1>2, <1>3 DEF Ledger!Served

LEMMA ServedOnLedgerThen ==
    ASSUME NEW t \in Tx, TypeOK', Served(t)'
    PROVE  Ledger!Served(t)'
<1>1. /\ Buyer[t] \in Users /\ Product[t] \in Products
      /\ \A c \in Courses : LecturesOf[c] \subseteq Lectures
  BY ProductAssumption
<1>2. \A i \in Content : i \in Access'[Buyer[t]] <=> rows'[Buyer[t]][i] > 0
  BY <1>1 DEF Access
<1>3. \A N \in Needs[t] : \E i \in N \cap Content : rows'[Buyer[t]][i] > 0
  BY <1>1 DEF Needs, Served, HasStageAccess, HasLectureAccess, HasNoContentRow, Content,
     NoContent, Products
<1> QED
  BY <1>2, <1>3 DEF Ledger!Served

\* The commit of a confirmation is an entry of the ledger; if the payment was
\* confirmed already, nothing is inserted that the student has not.
LEMMA GrantIsEntered ==
    ASSUME IInv, IInv', RowsInv, Asked, NEW s \in Slots, job[s].pc = "commit", CommitGrant(s)
    PROVE  Ledger!Entry \/ UNCHANGED Ledger!ledger
<1>1. PICK t \in Tx, u \in Users : t = job[s].t /\ u = Buyer[t]
  BY ProductAssumption DEF IInv, JobOK
<1> DEFINE G == job[s].ins \cap Content
<1>2. /\ G \subseteq Offer[t]
      /\ status[t] = "confirmed" => G = {}
  BY <1>1 DEF RowsInv, GrantOK, Offer, IInv, FactsOK
<1>3. status' = [status EXCEPT ![t] = "confirmed"] /\ status \in [Tx -> Status]
  BY <1>1 DEF CommitGrant, IInv, TypeOK
<1>4. Access' = [Access EXCEPT ![u] = @ \cup G]
  <2>1. ASSUME NEW v \in Users, NEW i \in Content
        PROVE  rows'[v][i] > 0 <=> rows[v][i] > 0 \/ (v = u /\ i \in G)
    <3>1. i \in Item /\ rows[v][i] \in Nat
      BY DEF IInv, TypeOK, Content, Item, UniqueItem
    <3>2. rows'[v][i] = IF v = u /\ i \in job[s].ins THEN rows[v][i] + 1 ELSE rows[v][i]
      BY <1>1, <3>1 DEF CommitGrant, IInv, TypeOK
    <3> QED
      BY <3>1, <3>2
  <2>2. \A v \in Users : Access'[v] = IF v = u THEN Access[v] \cup G ELSE Access[v]
    BY <2>1 DEF Access
  <2> HIDE DEF G
  <2> QED
    BY <1>1, <2>2 DEF Access
<1>5. CASE status[t] = "confirmed"
  <2>1. status' = status
    BY <1>3, <1>5
  <2>2. Access' = Access
    BY <1>2, <1>4, <1>5 DEF Access
  <2> QED
    BY <2>1, <2>2 DEF Ledger!ledger
<1>6. CASE status[t] # "confirmed"
  <2>1. status[t] \in {"pending", "rejected"}
    BY <1>1, <1>3, <1>6 DEF Asked, Status
  <2>2. Served(t)'
    BY <1>1 DEF CommitGrant, IInv, FactsOK, Confirmed
  <2>3. Ledger!Served(t)'
    BY <2>2, ServedOnLedgerThen DEF IInv
  <2>4. Ledger!Confirm(t)
    BY <1>1, <1>2, <1>3, <1>4, <2>1, <2>3 DEF Ledger!Confirm
  <2> QED
    BY <2>4 DEF Ledger!Entry
<1> QED
  BY <1>5, <1>6

LEMMA EveryStepIsEntered ==
    ASSUME IInv, IInv', RowsInv, Asked, [Next]_vars
    PROVE  [Ledger!Entry]_(Ledger!ledger)
<1> USE DEF db, env
<1>1. ASSUME \A u \in Users, i \in Content : rows'[u][i] = rows[u][i]
      PROVE  Access' = Access
  BY <1>1 DEF Access
<1>2. ASSUME NEW t \in Tx, RequestPayment(t) PROVE Ledger!Entry
  BY <1>1, <1>2 DEF RequestPayment, Ledger!Entry, Ledger!Request
<1>3. ASSUME NEW s \in Slots, (FinishSi(s) /\ manager) \/ FinishTool(s)
      PROVE  Ledger!Entry \/ UNCHANGED Ledger!ledger
  BY <1>3, GrantIsEntered DEF FinishSi, FinishTool
<1>4. ASSUME NEW s \in Slots, FinishReject(s), manager
      PROVE  Ledger!Entry \/ UNCHANGED Ledger!ledger
  <2>1. PICK t \in Tx : t = job[s].t
    BY <1>4 DEF FinishReject, IInv, JobOK
  <2>2. /\ status' = [status EXCEPT ![t] = "rejected"] /\ Access' = Access
        /\ status[t] # "absent" /\ status \in [Tx -> Status]
    BY <1>1, <1>4, <2>1 DEF FinishReject, IInv, TypeOK, Asked
  <2>3. CASE status[t] = "rejected"
    BY <2>2, <2>3 DEF Ledger!ledger
  <2>4. CASE status[t] # "rejected"
    BY <2>2, <2>4 DEF Ledger!Entry, Ledger!Reject, Status
  <2> QED
    BY <2>3, <2>4
<1>5. \/ \A u \in Users, i \in Content : rows'[u][i] = rows[u][i]
      \/ \E s \in Slots : (FinishSi(s) /\ manager) \/ FinishTool(s)
  <2>1. ASSUME NEW v \in Users, NEW a \in Teachers, OpenUsage(v, a)
        PROVE  \A u \in Users, i \in Content : rows'[u][i] = rows[u][i]
    <3>1. a \notin Content
      BY DisjointAssumption DEF Content, NoContent
    <3> QED
      BY <2>1, <3>1 DEF OpenUsage, IInv, TypeOK
  <2>2. ASSUME NEW s \in Slots, Start(s) PROVE rows' = rows
    BY <2>2 DEF Start, ReceiveProof, ReceiveReject, ReceiveConfirm
  <2>3. ASSUME NEW s \in Slots, Progress(s)
        PROVE  rows' = rows \/ (FinishSi(s) /\ manager) \/ FinishTool(s)
    BY <2>3 DEF Progress, SaveProof, RefuseConfirm, RepeatConfirm, AcceptConfirm, UpdateStatus,
       InsertRows, FinishSi, FinishMm, FinishRepeat, UpdateRejected, FinishReject, GiveUp
  <2>4. CASE Environment
    BY <2>1, <2>4 DEF Environment, RequestPayment, SetManagerStatus, SetTeacherStatus, MoveStage
  <2>5. CASE Crash \/ UNCHANGED vars
    BY <2>5 DEF Crash, vars
  <2> QED
    BY <2>2, <2>3, <2>4, <2>5 DEF Next
<1>6. CASE status' = status /\ Access' = Access
  BY <1>6 DEF Ledger!ledger
<1> QED
  BY <1>1, <1>2, <1>3, <1>4, <1>5, <1>6, StatusSteps

\* What the endpoints, the tool and crashes do to payments and access is a ledger:
\* access appears complete in the step that confirms its payment, and stays, for any
\* products, number of requests and both kinds of database.
THEOREM LedgerKept == Spec => KeepsTheLedger
<1>1. Init => IInv /\ RowsInv /\ Asked /\ Ledger!Begin
  <2>1. ASSUME Init PROVE Asked /\ Ledger!Begin
    <3>1. \A u \in Users, i \in Content : rows[u][i] = 0
      BY <2>1 DEF Init, Content, Item, UniqueItem
    <3> QED
      BY <2>1, <3>1 DEF Init, Asked, NoJob, Ledger!Begin, Access
  <2> QED
    BY <2>1, IInvInit, RowsInvInit
<1>2. (IInv /\ RowsInv /\ Asked) /\ [Next]_vars => (IInv /\ RowsInv /\ Asked)'
  BY IInvNext, RowsInvNext, AskedNext
<1>3. (IInv /\ RowsInv /\ Asked) /\ [Next]_vars => [Ledger!Entry]_(Ledger!ledger)
  BY IInvNext, EveryStepIsEntered
<1> QED
  BY <1>1, <1>2, <1>3, PTL DEF Spec, KeepsTheLedger, Ledger!Spec

-----------------------------------------------------------------------------
(* No two requests decide one payment at a time.                            *)

\* A request has read a payment while it was pending, and may decide it.
Deciding(s) == job[s].pc # "idle" /\ job[s].op # "proof" /\ job[s].snap = "pending"

Apart == \A r, s \in Slots : Deciding(r) /\ Deciding(s) /\ job[r].t = job[s].t => r = s

\* What a request relies on is so until it commits.
Fresh == \A s \in Slots : Deciding(s) => status[job[s].t] = "pending"

LEMMA FreshNext == IInv /\ Requests /\ Apart /\ Fresh /\ [Next]_vars => Fresh'
<1> SUFFICES ASSUME IInv, Requests, Apart, Fresh, [Next]_vars, NEW s \in Slots, Deciding(s)'
             PROVE  status'[job'[s].t] = "pending"
  BY DEF Fresh
<1>0. TypeOK
  BY DEF IInv
<1>1. CASE /\ job[s].pc # "idle"
           /\ job'[s].t = job[s].t /\ job'[s].op = job[s].op /\ job'[s].snap = job[s].snap
  <2>1. Deciding(s) /\ status[job[s].t] = "pending" /\ job[s].t \in Tx
    BY <1>1 DEF Deciding, Fresh, IInv, JobOK
  <2>2. ASSUME NEW t \in Tx, RequestPayment(t)
        PROVE  status'[job[s].t] = status[job[s].t]
    BY <1>0, <2>1, <2>2 DEF RequestPayment, TypeOK
  <2>3. ASSUME NEW r \in Slots, FinishSi(r) \/ FinishTool(r) \/ FinishReject(r)
        PROVE  status'[job[s].t] = status[job[s].t]
    <3>1. Deciding(r)
      BY <2>3 DEF Deciding, FinishSi, FinishTool, FinishReject, Requests, RequestOK
    <3>2. r # s
      BY <1>0, <2>3 DEF Deciding, FinishSi, FinishTool, FinishReject, Close, TypeOK, NoJob
    <3>3. job[r].t # job[s].t
      BY <2>1, <3>1, <3>2 DEF Apart
    <3> QED
      BY <1>0, <2>1, <2>3, <3>3 DEF FinishSi, FinishTool, FinishReject, CommitGrant, TypeOK
  <2> QED
    BY <1>1, <2>1, <2>2, <2>3, StatusSteps
<1> QED
  BY <1>1, SameRequest DEF Deciding

\* Unless two requests at once have read a payment while it was pending, its decision
\* is final: none that was confirmed is rejected and none that was rejected is
\* confirmed, by any of the paths, however many requests of other payments overlap,
\* and whatever fails or crashes (confirm_payment_transaction, reject_payment).
THEOREM ApartDecisions ==
    Spec /\ []Apart => [][\A t \in Tx : status[t] \in {"confirmed", "rejected"}
                                          => status'[t] = status[t]]_vars
<1>1. Init => IInv /\ Requests /\ Fresh
  BY IInvInit, RequestsInit DEF Init, Fresh, Deciding, NoJob
<1>2. (IInv /\ Requests /\ Fresh) /\ Apart /\ [Next]_vars => (IInv /\ Requests /\ Fresh)'
  BY IInvNext, RequestsNext, FreshNext
<1>3. ASSUME IInv, Requests, Fresh, [Next]_vars, NEW t \in Tx, status[t] \in {"confirmed", "rejected"}
      PROVE  status'[t] = status[t]
  <2>1. ASSUME NEW x \in Tx, RequestPayment(x)
        PROVE  status'[t] = status[t]
    BY <1>3, <2>1 DEF RequestPayment, IInv, TypeOK
  <2>2. ASSUME NEW s \in Slots, FinishSi(s) \/ FinishTool(s) \/ FinishReject(s)
        PROVE  status'[t] = status[t]
    <3>1. status[job[s].t] = "pending"
      BY <1>3, <2>2 DEF Deciding, FinishSi, FinishTool, FinishReject, Requests, RequestOK, Fresh
    <3> QED
      BY <1>3, <2>2, <3>1 DEF FinishSi, FinishTool, FinishReject, CommitGrant, IInv, TypeOK
  <2> QED
    BY <1>3, <2>1, <2>2, StatusSteps
<1>4. (IInv /\ Requests /\ Fresh) /\ [Next]_vars
        => [\A t \in Tx : status[t] \in {"confirmed", "rejected"} => status'[t] = status[t]]_vars
  BY <1>3
<1> QED
  BY <1>1, <1>2, <1>4, PTL DEF Spec

\* Under the same condition the ledger is final too: every entry decides a payment
\* that was pending, and the decision stays.
THEOREM ApartLedger == Spec /\ []Apart => Ledger!FinalSpec
<1>1. [Ledger!Entry]_(Ledger!ledger)
      /\ [\A t \in Tx : status[t] \in {"confirmed", "rejected"} => status'[t] = status[t]]_vars
        => [Ledger!FinalEntry]_(Ledger!ledger)
  <2>1. vars' = vars => Ledger!ledger' = Ledger!ledger
    BY DEF vars, db, Ledger!ledger, Access
  <2> QED
    BY <2>1 DEF Ledger!FinalEntry, Ledger!Decided
<1> QED
  BY <1>1, LedgerKept, ApartDecisions, PTL DEF KeepsTheLedger, Ledger!Spec, Ledger!FinalSpec

=============================================================================
