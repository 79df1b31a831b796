------------------------- MODULE FileTeachingProofs -------------------------
(***************************************************************************)
(* Proofs about FileTeaching, for every set of files, every number of      *)
(* concurrent requests, and every value of the two limits.                 *)
(*                                                                         *)
(* First what the sessions rely on of each other (one writes, one uploads, *)
(* a step that a session inserts is still missing), then the quota: what a *)
(* session is about to write was counted from the row it loaded, which is  *)
(* the row it overwrites, unless staleWrite says it is not.                *)
(***************************************************************************)
EXTENDS FileTeaching, FiniteSetTheorems, TLAPS

-----------------------------------------------------------------------------
(* Types of what the sessions compute.                                      *)

LEMMA CurrentType ==
    ASSUME now \in Hours, NEW u \in Usage
    PROVE  /\ Current(u) \in Usage
           /\ Current(u).there
           /\ \/ u.there /\ Current(u) = u /\ now < u.start + 1
              \/ /\ Current(u).start = now /\ Current(u).files = 0 /\ Current(u).chars = 0
                 /\ u.there => u.start < now
<1>1. now \in Nat /\ u.start \in Nat /\ u.there \in BOOLEAN
  BY LimitAssumption DEF Usage, Hours
<1>2. CASE u.there /\ ~Expired(u)
  BY <1>1, <1>2 DEF Current, Expired
<1>3. CASE ~(u.there /\ ~Expired(u))
  BY <1>1, <1>3 DEF Current, Expired, Usage
<1> QED
  BY <1>2, <1>3

LEMMA FlushedType ==
    ASSUME usage \in Usage, NEW j \in Job
    PROVE  /\ Flushed(j) \in Usage
           /\ \A c \in Columns : Flushed(j)[c] = IF c \in j.touched THEN j.use[c] ELSE usage[c]
<1> DEFINE v == Flushed(j)
<1>1. j.use \in Usage
  BY DEF Job
<1>2. \A c \in Columns : v[c] = IF c \in j.touched THEN j.use[c] ELSE usage[c]
  BY DEF Flushed
<1>3. v = [there |-> v["there"], start |-> v["start"], files |-> v["files"], chars |-> v["chars"]]
  BY DEF Flushed, Columns
<1>4. v["there"] \in BOOLEAN /\ v["start"] \in Hours /\ v["files"] \in Nat /\ v["chars"] \in Nat
  BY <1>1, <1>2 DEF Usage, Columns
<1> QED
  BY <1>2, <1>3, <1>4 DEF Usage

LEMMA NoJobType == NoJob \in Job
BY LimitAssumption DEF NoJob, NoUsage, NoStep, Job, Pc, Usage, StepRow, Hours

LEMMA UsageParts ==
    ASSUME NEW u \in Usage, NEW v \in Usage, u.there = v.there, u.start = v.start,
           u.files = v.files, u.chars = v.chars
    PROVE  u = v
BY DEF Usage

\* A session that counts an answer: the row it holds afterwards.
LEMMA ConsumeType ==
    ASSUME now \in Hours, NEW j \in Job, NEW n \in Nat
    PROVE  LET k == Consume(j, n) IN
           /\ k \in Job /\ k.pc = j.pc /\ k.file = j.file /\ k.base = j.base
           /\ k.loaded = j.loaded /\ k.opens = j.opens /\ k.chars = n /\ k.writing = TRUE
           /\ k.use = [Current(j.use) EXCEPT !.chars = @ + n]
           /\ k.touched = j.touched \cup Changed(j.use, Current(j.use))
                            \cup Changed(Current(j.use), k.use)
<1> DEFINE u == Current(j.use)
           v == [u EXCEPT !.chars = @ + n]
           x == j.touched \cup Changed(j.use, u) \cup Changed(u, v)
<1>1. j.use \in Usage /\ u \in Usage /\ v \in Usage
  BY CurrentType DEF Job, Usage
<1>2. x \in SUBSET Columns
  BY DEF Changed, Job
<1>3. Consume(j, n) = [j EXCEPT !.use = v, !.chars = n, !.writing = TRUE, !.touched = x]
  BY DEF Consume
<1> HIDE DEF u, v, x
<1>4. LET k == Consume(j, n) IN
           /\ k \in Job /\ k.pc = j.pc /\ k.file = j.file /\ k.base = j.base
           /\ k.loaded = j.loaded /\ k.opens = j.opens /\ k.chars = n /\ k.writing = TRUE
           /\ k.use = v /\ k.touched = x
  BY <1>1, <1>2, <1>3 DEF Job
<1> QED
  BY <1>4 DEF u, v, x

LEMMA RegisteredType ==
    ASSUME now \in Hours, NEW j \in Job
    PROVE  LET k == Registered(j) IN
           /\ k \in Job /\ k.pc = j.pc /\ k.file = j.file /\ k.base = j.base /\ k.chars = j.chars
           /\ k.use = [Current(j.use) EXCEPT !.files = @ + 1]
           /\ k.touched = j.touched \cup Changed(j.use, Current(j.use))
                            \cup Changed(Current(j.use), k.use)
<1> DEFINE u == Current(j.use)
           v == [u EXCEPT !.files = @ + 1]
           x == j.touched \cup Changed(j.use, u) \cup Changed(u, v)
<1>1. j.use \in Usage /\ u \in Usage /\ v \in Usage
  BY CurrentType DEF Job, Usage
<1>2. x \in SUBSET Columns
  BY DEF Changed, Job
<1>3. Registered(j) = [j EXCEPT !.use = v, !.touched = x]
  BY DEF Registered
<1> HIDE DEF u, v, x
<1>4. LET k == Registered(j) IN
           /\ k \in Job /\ k.pc = j.pc /\ k.file = j.file /\ k.base = j.base /\ k.chars = j.chars
           /\ k.use = v /\ k.touched = x
  BY <1>1, <1>2, <1>3 DEF Job
<1> QED
  BY <1>4 DEF u, v, x
-----------------------------------------------------------------------------
(* What the other requests rely on, kept by a step of one of them.          *)

UploadPc == {"quota", "stored", "row"}

\* No step takes a completion back.
Final == \A f \in Taught : step[f].status = "completed" => step'[f].status = "completed"

LEMMA JobStep ==
    ASSUME IInv, NEW s \in Slots, NEW j \in Job, job' = [job EXCEPT ![s] = j], TypeOK',
           Rows \subseteq Rows',
           UNCHANGED <<objects, uploads, leaked>> \/ job[s].pc \in UploadPc,
           step' = step \/ (DatabaseFree(s) /\ Final),
           j.writing => job[s].writing \/ DatabaseFree(s),
           j.pc \in UploadPc => \/ job[s].pc \in UploadPc
                                \/ \A r \in Slots : job[r].pc \notin UploadPc,
           job'[s] = j => JobIsSound(s)',
           UploadIsAllOrNothing', ExamClosesTeaching'
    PROVE  IInv'
<1>1. \A r \in Slots : job'[r] = IF r = s THEN j ELSE job[r]
  BY DEF IInv, TypeOK
<1>2. OneWriter'
  BY <1>1 DEF IInv, OneWriter, DatabaseFree
<1>3. OneUpload'
  BY <1>1 DEF IInv, OneUpload, UploadPc
<1>4. ASSUME NEW r \in Slots, r # s PROVE JobIsSound(r)'
  <2>1. job'[r] = job[r] /\ JobIsSound(r)
    BY <1>1, <1>4 DEF IInv, JobsAreSound
  <2>2. CASE job[r].pc \in UploadPc
    <3>1. UNCHANGED <<objects, uploads, leaked>> /\ Rows' = Rows
      BY <1>4, <2>2 DEF IInv, OneUpload, UploadPc, Rows
    <3> QED
      BY <2>1, <2>2, <3>1 DEF JobIsSound, UploadPc
  <2>3. CASE job[r].pc \notin UploadPc
    <3>1. job[r].opens => step' = step
      BY <1>4, <2>1 DEF JobIsSound, DatabaseFree
    <3>2. job[r].pc = "exam" => step'[job[r].file].status = "completed"
      BY <2>1 DEF JobIsSound, Final
    <3> QED
      BY <2>1, <2>3, <3>1, <3>2 DEF JobIsSound, UploadPc
  <2> QED
    BY <2>2, <2>3
<1>5. JobsAreSound'
  BY <1>1, <1>4 DEF JobsAreSound
<1> QED
  BY <1>2, <1>3, <1>5 DEF IInv

\* Rows, objects and the uploads in progress stay.
LEMMA UploadStays ==
    ASSUME IInv, NEW s \in Slots, NEW j \in Job, job' = [job EXCEPT ![s] = j],
           UNCHANGED <<objects, uploads, leaked>>,
           job[s].pc \notin {"stored", "row"}
               \/ (j.pc \in {"stored", "row"} /\ j.file = job[s].file)
    PROVE  UploadIsAllOrNothing'
<1>1. \A r \in Slots : job'[r] = IF r = s THEN j ELSE job[r]
  BY DEF IInv, TypeOK
<1>2. Uploading \subseteq Uploading'
  BY <1>1 DEF Uploading
<1> QED
  BY <1>2 DEF IInv, UploadIsAllOrNothing, Rows

LEMMA ExamStays ==
    ASSUME IInv, exam' = exam, results' = results, Rows \subseteq Rows', Final
    PROVE  ExamClosesTeaching'
BY DEF IInv, TypeOK, ExamClosesTeaching, Final

\* A request ends and leaves rows, objects and exams alone.
LEMMA CloseStep ==
    ASSUME IInv, NEW s \in Slots, Close(s), TypeOK',
           UNCHANGED <<objects, uploads, leaked, exam, results>>,
           job[s].pc \notin {"stored", "row"},
           step' = step \/ (DatabaseFree(s) /\ Final)
    PROVE  IInv'
<1>1. /\ NoJob \in Job /\ job' = [job EXCEPT ![s] = NoJob] /\ NoJob.pc = "idle" /\ ~NoJob.writing
      /\ ~NoJob.opens
  BY NoJobType DEF Close, NoJob
<1>2. UploadIsAllOrNothing'
  BY <1>1, UploadStays
<1>3. ExamClosesTeaching'
  BY ExamStays DEF Rows, Final
<1>4. job'[s] = NoJob => JobIsSound(s)'
  BY <1>1 DEF JobIsSound
<1> QED
  BY <1>1, <1>2, <1>3, <1>4, JobStep DEF Rows, UploadPc

\* A request moves and leaves everything that is stored alone.
LEMMA MoveStep ==
    ASSUME IInv, NEW s \in Slots, NEW j \in Job, job' = [job EXCEPT ![s] = j],
           UNCHANGED <<now, quota, store, uploads, work>>,
           job[s].pc \notin {"stored", "row"}
               \/ (j.pc \in {"stored", "row"} /\ j.file = job[s].file),
           j.writing => job[s].writing \/ DatabaseFree(s),
           j.pc \in UploadPc => \/ job[s].pc \in UploadPc
                                \/ \A r \in Slots : job[r].pc \notin UploadPc,
           job'[s] = j => JobIsSound(s)'
    PROVE  IInv'
<1> USE DEF quota, store, work
<1>1. TypeOK'
  BY DEF IInv, TypeOK
<1>2. ExamClosesTeaching'
  BY ExamStays DEF Rows, Final
<1>3. UploadIsAllOrNothing'
  BY UploadStays
<1> QED
  BY <1>1, <1>2, <1>3, JobStep DEF Rows

\* The endpoints without a session in progress, and time.
LEMMA NoJobStep ==
    ASSUME IInv, TypeOK', job' = job, UNCHANGED <<objects, uploads, leaked>>, Final,
           step' = step \/ (\A s \in Slots : ~job[s].writing),
           ExamClosesTeaching'
    PROVE  IInv'
<1>1. OneWriter' /\ OneUpload'
  BY DEF IInv, OneWriter, OneUpload
<1>2. UploadIsAllOrNothing'
  BY DEF IInv, UploadIsAllOrNothing, Uploading, Rows
<1>3. ASSUME NEW s \in Slots PROVE JobIsSound(s)'
  <2>1. JobIsSound(s) /\ Rows' = Rows
    BY DEF IInv, JobsAreSound, Rows
  <2>2. job[s].pc = "exam" => step'[job[s].file].status = "completed"
    BY <2>1 DEF JobIsSound, Final
  <2>3. job[s].opens => step' = step
    BY <2>1 DEF JobIsSound
  <2> QED
    BY <2>1, <2>2, <2>3 DEF JobIsSound
<1> QED
  BY <1>1, <1>2, <1>3 DEF IInv, JobsAreSound

-----------------------------------------------------------------------------
(* What the sessions write of a step.                                       *)

LEMMA OpenedStepKeeps ==
    ASSUME IInv, NEW s \in Slots
    PROVE  LET v == OpenedStep(job[s]) IN
           /\ v \in [Taught -> StepRow]
           /\ \A f \in Taught : step[f].status = "completed" => v[f].status = "completed"
<1>1. JobIsSound(s) /\ step \in [Taught -> StepRow]
  BY DEF IInv, JobsAreSound, TypeOK
<1>2. CASE job[s].opens
  <2> DEFINE f == job[s].file
             v == [step EXCEPT ![f].status = "active"]
  <2>1. f \in Taught /\ step[f].status = "none"
    BY <1>1, <1>2 DEF JobIsSound
  <2>2. [step[f] EXCEPT !.status = "active"] \in StepRow
    BY <1>1, <2>1 DEF StepRow
  <2>3. v \in [Taught -> StepRow] /\ \A g \in Taught : g # f => v[g] = step[g]
    BY <1>1, <2>1, <2>2
  <2>4. OpenedStep(job[s]) = v
    BY <1>2 DEF OpenedStep
  <2> QED
    BY <2>1, <2>3, <2>4
<1>3. CASE ~job[s].opens
  BY <1>1, <1>3 DEF OpenedStep
<1> QED
  BY <1>2, <1>3

LEMMA VerifiedStepKeeps ==
    ASSUME IInv, NEW s \in Slots, NEW c \in BOOLEAN, job[s].file \in Taught
    PROVE  LET v == VerifiedStep(job[s], c) IN
           /\ v \in [Taught -> StepRow]
           /\ \A f \in Taught : step[f].status = "completed" => v[f].status = "completed"
<1> DEFINE o == OpenedStep(job[s])
           f == job[s].file
           v == [o EXCEPT ![f].verified = c]
<1>1. o \in [Taught -> StepRow]
      /\ \A g \in Taught : step[g].status = "completed" => o[g].status = "completed"
  BY OpenedStepKeeps
<1>2. VerifiedStep(job[s], c) \in {o, v}
  BY DEF VerifiedStep
<1> HIDE DEF o
<1>3. [o[f] EXCEPT !.verified = c] \in StepRow /\ [o[f] EXCEPT !.verified = c].status = o[f].status
  BY <1>1 DEF StepRow
<1>4. /\ v \in [Taught -> StepRow]
      /\ \A g \in Taught : v[g].status = o[g].status
  BY <1>1, <1>3
<1> QED
  BY <1>1, <1>2, <1>4

LEMMA CommitUsageType ==
    ASSUME IInv, NEW j \in Job, CommitUsage(j)
    PROVE  usage' \in Usage /\ staleWrite' \in BOOLEAN
<1>1. usage' \in Usage
  BY FlushedType DEF IInv, TypeOK, CommitUsage
<1>2. staleWrite' \in BOOLEAN
  BY DEF IInv, TypeOK, CommitUsage
<1> QED
  BY <1>1, <1>2
-----------------------------------------------------------------------------
(* The upload.                                                              *)

LEMMA UploadStep ==
    ASSUME IInv, NEW s \in Slots, Upload(s)
    PROVE  IInv'
<1> USE DEF quota, store, work, UploadPc
<1>0. JobIsSound(s) /\ job[s] \in Job /\ TypeOK
  BY DEF IInv, JobsAreSound, TypeOK
<1>1. ASSUME NEW f \in Files, CheckQuota(s, f) PROVE IInv'
  <2> DEFINE u == Current(usage)
             w == ~usage.there
             j == [NoJob EXCEPT !.pc = "quota", !.file = f, !.base = usage, !.use = u,
                                !.touched = Changed(usage, u), !.writing = w]
  <2>1. usage \in Usage /\ u \in Usage /\ Changed(usage, u) \in SUBSET Columns
    BY <1>0, CurrentType DEF TypeOK, Changed
  <2>2. /\ job' = [job EXCEPT ![s] = j] /\ DatabaseFree(s)
        /\ f \notin Rows \cup objects \cup leaked
    BY <1>1 DEF CheckQuota
  <2> HIDE DEF u
  <2>3. w \in BOOLEAN
    OBVIOUS
  <2> HIDE DEF w
  <2>3b. j \in Job /\ j.pc = "quota" /\ j.file = f /\ ~j.opens
    BY <2>1, <2>3, NoJobType DEF NoJob, Job, Pc
  <2> HIDE DEF j
  <2>4. job'[s] = j => JobIsSound(s)'
    BY <1>1, <2>2, <2>3b DEF CheckQuota, JobIsSound, Rows
  <2> QED
    BY <1>1, <2>2, <2>3b, <2>4, MoveStep DEF CheckQuota
<1>2. CASE PutObject(s)
  <2>1. job[s].pc = "quota"
    BY <1>2 DEF PutObject
  <2>2. CASE Close(s) /\ UNCHANGED objects
    <3>1. TypeOK'
      BY <1>0, <1>2, <2>2, NoJobType DEF PutObject, TypeOK, Close
    <3> QED
      BY <1>2, <2>1, <2>2, <3>1, CloseStep DEF PutObject
  <2>3. CASE /\ objects' = objects \cup {job[s].file}
             /\ job' = [job EXCEPT ![s].pc = "stored"]
    <3> DEFINE j == [job[s] EXCEPT !.pc = "stored"]
    <3>1. /\ j \in Job /\ job' = [job EXCEPT ![s] = j] /\ j.pc = "stored" /\ j.file = job[s].file
          /\ j.writing = job[s].writing /\ j.opens = job[s].opens
      BY <1>0, <2>3 DEF Job, Pc, TypeOK
    <3> HIDE DEF j
    <3>2. job[s].file \in Files /\ ~job[s].opens /\ job[s].file \notin Rows \cup leaked
      BY <1>0, <2>1 DEF JobIsSound
    <3>3. TypeOK'
      BY <1>0, <1>2, <2>3, <3>1, <3>2 DEF TypeOK, PutObject
    <3>4. job'[s] = j
      BY <1>0, <3>1 DEF TypeOK
    <3>5. JobIsSound(s)'
      BY <1>2, <2>3, <3>1, <3>2, <3>4 DEF JobIsSound, PutObject, Rows
    <3>6. UploadIsAllOrNothing'
      <4>1. Uploading \cup {job[s].file} \subseteq Uploading'
        BY <1>0, <2>1, <3>1 DEF Uploading, TypeOK
      <4> QED
        BY <1>2, <2>3, <4>1 DEF IInv, UploadIsAllOrNothing, PutObject, Rows
    <3>7. ExamClosesTeaching'
      BY <1>2, ExamStays DEF PutObject, Rows, Final
    <3> QED
      BY <1>2, <2>1, <3>1, <3>3, <3>5, <3>6, <3>7, JobStep DEF PutObject, Rows
  <2> QED
    BY <1>2, <2>2, <2>3 DEF PutObject
<1>3. CASE FlushRow(s)
  <2> DEFINE j == [job[s] EXCEPT !.pc = "row", !.writing = TRUE]
  <2>1. /\ j \in Job /\ job' = [job EXCEPT ![s] = j] /\ j.pc = "row" /\ j.file = job[s].file
        /\ j.writing /\ j.opens = job[s].opens /\ job[s].pc = "stored" /\ DatabaseFree(s)
    BY <1>0, <1>3 DEF Job, Pc, TypeOK, FlushRow
  <2> HIDE DEF j
  <2>2. job'[s] = j => JobIsSound(s)'
    BY <1>0, <1>3, <2>1 DEF FlushRow, JobIsSound, Rows
  <2> QED
    BY <1>3, <2>1, <2>2, MoveStep DEF FlushRow
<1>4. CASE CommitUpload(s) \/ FailUpload(s)
  <2> DEFINE f == job[s].file
  <2>1. /\ job[s].pc = "row" /\ f \in Files /\ f \notin Rows \cup leaked /\ f \in objects
        /\ Close(s) /\ step' = step /\ exam' = exam /\ results' = results /\ now' = now
    BY <1>0, <1>4 DEF CommitUpload, FailUpload, JobIsSound
  <2>2. /\ NoJob \in Job /\ job' = [job EXCEPT ![s] = NoJob] /\ NoJob.pc = "idle" /\ ~NoJob.writing
        /\ ~NoJob.opens
    BY <2>1, NoJobType DEF Close, NoJob
  <2>3. /\ usage' \in Usage /\ staleWrite' \in BOOLEAN /\ said' = said /\ isCheck' = isCheck
        /\ uploads' \in SUBSET (Files \X Hours)
    <3>1. CASE CommitUpload(s)
      <4> DEFINE j == Registered(job[s])
      <4>1. j \in Job /\ CommitUsage(j) /\ uploads' = uploads \cup {<<f, j.use.start>>}
            /\ said' = said /\ isCheck' = isCheck
        BY <1>0, <3>1, RegisteredType DEF CommitUpload, TypeOK
      <4>2. j.use.start \in Hours
        BY <4>1 DEF Job, Usage
      <4> HIDE DEF j
      <4> QED
        BY <1>0, <2>1, <4>1, <4>2, CommitUsageType DEF TypeOK
    <3>2. CASE FailUpload(s)
      BY <1>0, <3>2 DEF FailUpload, TypeOK
    <3> QED
      BY <1>4, <3>1, <3>2
  <2>4. \/ f \in Rows' /\ UNCHANGED <<objects, leaked>>
        \/ objects' = objects \ {f} /\ leaked' = leaked \cup {f}
        \/ objects' = objects \ {f} /\ f \notin Rows' /\ UNCHANGED leaked
        \/ leaked' = leaked \cup {f} /\ UNCHANGED objects
    BY <1>4, <2>1 DEF CommitUpload, FailUpload, Delete, Rows
  <2>5. TypeOK'
    BY <1>0, <2>1, <2>2, <2>3, <2>4 DEF TypeOK
  <2>6. Rows \subseteq Rows' /\ Rows' \subseteq Rows \cup {f}
    BY <1>4 DEF CommitUpload, FailUpload, Rows
  <2>7. Uploading \subseteq Uploading' \cup {f}
    BY <1>0, <2>2 DEF Uploading, TypeOK
  <2>8. UploadIsAllOrNothing'
    BY <2>1, <2>4, <2>6, <2>7 DEF IInv, UploadIsAllOrNothing
  <2>9. ExamClosesTeaching'
    BY <2>1, <2>6, ExamStays DEF Final
  <2>10. job'[s] = NoJob => JobIsSound(s)'
    BY <2>2 DEF JobIsSound
  <2> QED
    BY <2>1, <2>2, <2>5, <2>6, <2>8, <2>9, <2>10, JobStep
<1> QED
  BY <1>1, <1>2, <1>3, <1>4 DEF Upload

-----------------------------------------------------------------------------
(* The chat.                                                                *)

\* A chat ends with a commit of the usage row, the answer and a step.
LEMMA SayStep ==
    ASSUME IInv, NEW s \in Slots, NEW k \in Job, SayAndCommit(s, k), DatabaseFree(s),
           job[s].pc \notin {"stored", "row"},
           step' \in [Taught -> StepRow], Final, isCheck' \in BOOLEAN,
           UNCHANGED <<now, store, uploads, exam, results>>
    PROVE  IInv'
<1>1. usage' \in Usage /\ staleWrite' \in BOOLEAN
  BY CommitUsageType DEF SayAndCommit
<1>2. said' \in [Hours -> Nat]
  <2>1. k.use.start \in Hours /\ k.chars \in Nat
    BY DEF Job, Usage
  <2> QED
    BY <2>1 DEF SayAndCommit, IInv, TypeOK
<1>3. TypeOK'
  BY <1>1, <1>2, NoJobType DEF SayAndCommit, Close, IInv, TypeOK, store
<1> QED
  BY <1>3, CloseStep DEF SayAndCommit, store

LEMMA AnswerLength ==
    ASSUME NEW j \in Job, NEW n \in Answers(j)
    PROVE  n \in Nat \ {0} /\ j.use.chars + n <= CharLimit
<1>1. j.use.chars \in Nat
  BY DEF Job, Usage
<1> QED
  BY <1>1, LimitAssumption DEF Answers

LEMMA ChatStep ==
    ASSUME IInv, NEW s \in Slots, Chat(s)
    PROVE  IInv'
<1> USE DEF quota, store, work, UploadPc
<1>0. JobIsSound(s) /\ job[s] \in Job /\ TypeOK
  BY DEF IInv, JobsAreSound, TypeOK
<1>1. ASSUME NEW f \in Taught, OpenChat(s, f) PROVE IInv'
  <2> DEFINE u == Current(usage)
             new == step[f].status = "none"
             read == IF new THEN [NoStep EXCEPT !.status = "active"] ELSE step[f]
  <2>1. usage \in Usage /\ u \in Usage /\ Changed(usage, u) \in SUBSET Columns
    BY <1>0, CurrentType DEF TypeOK, Changed
  <2>2. read \in StepRow /\ new \in BOOLEAN /\ f \in Files /\ f \in Rows
    BY <1>0, <1>1, LimitAssumption DEF TypeOK, StepRow, NoStep, OpenChat
  <2>3. PICK pc \in {"confirm", "evaluate", "model"} :
               job' = [job EXCEPT ![s] =
                  [NoJob EXCEPT !.pc = pc, !.file = f, !.base = usage, !.use = u,
                     !.touched = Changed(usage, u), !.loaded = read, !.opens = new,
                     !.writing = (new \/ ~usage.there) \/ (pc = "model" /\ u # usage)]]
    BY <1>1 DEF OpenChat
  <2> DEFINE w == (new \/ ~usage.there) \/ (pc = "model" /\ u # usage)
             j == [NoJob EXCEPT !.pc = pc, !.file = f, !.base = usage, !.use = u,
                     !.touched = Changed(usage, u), !.loaded = read, !.opens = new,
                     !.writing = w]
  <2> HIDE DEF u, read
  <2>4. w \in BOOLEAN
    OBVIOUS
  <2>5. job' = [job EXCEPT ![s] = j]
    BY <2>3
  <2>6. j \in Job /\ j.pc = pc /\ j.file = f /\ j.opens = new /\ j.writing = w
    BY <2>1, <2>2, <2>4, NoJobType DEF NoJob, Job, Pc
  <2>7. new => w
    OBVIOUS
  <2> HIDE DEF j, w
  <2>8. job'[s] = j => JobIsSound(s)'
    BY <1>1, <2>2, <2>6, <2>7 DEF OpenChat, JobIsSound, Rows
  <2>9. DatabaseFree(s) /\ job[s].pc = "idle" /\ UNCHANGED <<now, quota, store, uploads, work>>
    BY <1>1 DEF OpenChat
  <2> QED
    BY <2>5, <2>6, <2>8, <2>9, MoveStep
<1>2. CASE ConfirmInChat(s)
  <2>1. PICK n \in Answers(job[s]) : SayAndCommit(s, Consume(job[s], n))
    BY <1>2 DEF ConfirmInChat
  <2>2. Consume(job[s], n) \in Job
    BY <1>0, AnswerLength, ConsumeType DEF TypeOK
  <2>3. job[s].pc = "confirm" /\ job[s].file \in Taught
        /\ step' = [step EXCEPT ![job[s].file].status = "completed"]
    BY <1>0, <1>2 DEF ConfirmInChat, JobIsSound
  <2>4. step' \in [Taught -> StepRow] /\ Final
    <3>1. [step[job[s].file] EXCEPT !.status = "completed"] \in StepRow
          /\ [step[job[s].file] EXCEPT !.status = "completed"].status = "completed"
      BY <1>0, <2>3 DEF TypeOK, StepRow
    <3> QED
      BY <1>0, <2>3, <3>1 DEF TypeOK, Final
  <2> QED
    BY <1>2, <2>1, <2>2, <2>3, <2>4, SayStep DEF ConfirmInChat
<1>3. CASE EvaluateAnswer(s)
  <2>1. PICK n \in Answers(job[s]) : SayAndCommit(s, Consume(job[s], n))
    BY <1>3 DEF EvaluateAnswer
  <2>2. Consume(job[s], n) \in Job
    BY <1>0, AnswerLength, ConsumeType DEF TypeOK
  <2>3. PICK c \in BOOLEAN : step' = VerifiedStep(job[s], c)
    BY <1>3 DEF EvaluateAnswer
  <2>4. job[s].pc = "evaluate" /\ job[s].file \in Taught
    BY <1>0, <1>3 DEF EvaluateAnswer, JobIsSound
  <2>5. step' \in [Taught -> StepRow] /\ Final
    BY <2>3, <2>4, VerifiedStepKeeps DEF Final
  <2> QED
    BY <1>3, <2>1, <2>2, <2>4, <2>5, SayStep DEF EvaluateAnswer
<1>4. CASE CallTool(s)
  <2> DEFINE b == IF job[s].touched = {} THEN job[s].base ELSE Flushed(job[s])
             j == [job[s] EXCEPT !.base = b, !.touched = {}, !.opens = FALSE, !.writing = FALSE]
  <2>1. b \in Usage
    BY <1>0, FlushedType DEF Job, TypeOK
  <2>2. job' = [job EXCEPT ![s] = j] /\ job[s].pc = "model" /\ DatabaseFree(s)
    BY <1>0, <1>4 DEF CallTool, TypeOK
  <2> HIDE DEF b
  <2>3. j \in Job /\ j.pc = "model" /\ j.file = job[s].file /\ ~j.opens /\ ~j.writing
    BY <1>0, <2>1, <2>2 DEF Job
  <2> HIDE DEF j
  <2>4. step' \in [Taught -> StepRow] /\ Final
    BY <1>4, OpenedStepKeeps DEF CallTool, Final
  <2>5. TypeOK'
    <3>1. usage' \in Usage /\ staleWrite' \in BOOLEAN
      BY <1>0, <1>4, CommitUsageType DEF CallTool
    <3>2. job' \in [Slots -> Job]
      BY <1>0, <2>2, <2>3 DEF TypeOK
    <3>3. UNCHANGED <<now, objects, leaked, uploads, exam, results, said, isCheck>>
      BY <1>4 DEF CallTool
    <3> QED
      BY <1>0, <2>4, <3>1, <3>2, <3>3 DEF TypeOK
  <2>6. job'[s] = j => JobIsSound(s)'
    BY <1>0, <1>4, <2>2, <2>3 DEF CallTool, JobIsSound, Rows
  <2>7. UploadIsAllOrNothing' /\ ExamClosesTeaching'
    BY <1>4, <2>2, <2>3, <2>4, UploadStays, ExamStays DEF CallTool, Rows
  <2> QED
    BY <1>4, <2>2, <2>3, <2>4, <2>5, <2>6, <2>7, JobStep DEF CallTool, Rows
<1>5. CASE Answer(s)
  <2>1. PICK n \in Answers(job[s]) : job' = [job EXCEPT ![s] = [Consume(job[s], n) EXCEPT !.pc = "answered"]]
    BY <1>5 DEF Answer
  <2> DEFINE k == Consume(job[s], n)
             j == [k EXCEPT !.pc = "answered"]
  <2>2. k \in Job /\ k.file = job[s].file /\ k.opens = job[s].opens /\ k.writing = TRUE
    BY <1>0, AnswerLength, ConsumeType DEF TypeOK
  <2>3. job' = [job EXCEPT ![s] = j]
    BY <2>1
  <2> HIDE DEF k
  <2>4. j \in Job /\ j.pc = "answered" /\ j.file = job[s].file /\ j.opens = job[s].opens /\ j.writing
    BY <2>2 DEF Job, Pc
  <2>5. job[s].pc = "model" /\ DatabaseFree(s)
    BY <1>5 DEF Answer
  <2> HIDE DEF j
  <2>6. job'[s] = j => JobIsSound(s)'
    BY <1>0, <1>5, <2>4, <2>5 DEF Answer, JobIsSound, Rows
  <2> QED
    BY <1>5, <2>3, <2>4, <2>5, <2>6, MoveStep DEF Answer
<1>6. CASE CommitAnswer(s)
  <2>1. job[s].pc = "answered" /\ DatabaseFree(s)
    BY <1>0, <1>6 DEF CommitAnswer, JobIsSound, IInv, OneWriter, DatabaseFree
  <2>2. step' \in [Taught -> StepRow] /\ Final
    BY <1>6, OpenedStepKeeps DEF CommitAnswer, Final
  <2> QED
    BY <1>0, <1>6, <2>1, <2>2, SayStep DEF CommitAnswer
<1>7. CASE FailChat(s)
  <2>1. TypeOK'
    BY <1>0, <1>7, NoJobType DEF FailChat, TypeOK, Close
  <2> QED
    BY <1>7, <2>1, CloseStep DEF FailChat
<1> QED
  BY <1>1, <1>2, <1>3, <1>4, <1>5, <1>6, <1>7 DEF Chat
-----------------------------------------------------------------------------
(* The exam, the endpoints of a step, time-outs, crashes and time.          *)

LEMMA ExamStep ==
    ASSUME IInv, NEW s \in Slots, Exam(s)
    PROVE  IInv'
<1> USE DEF quota, store, work, UploadPc
<1>0. JobIsSound(s) /\ job[s] \in Job /\ TypeOK
  BY DEF IInv, JobsAreSound, TypeOK
<1>1. ASSUME NEW f \in Taught, OpenExam(s, f) PROVE IInv'
  <2> DEFINE j == [NoJob EXCEPT !.pc = "exam", !.file = f]
  <2>1. /\ job' = [job EXCEPT ![s] = j] /\ DatabaseFree(s) /\ f \in Rows /\ f \in Files
        /\ step[f].status = "completed" /\ job[s].pc = "idle"
        /\ UNCHANGED <<now, quota, store, uploads, work>>
    BY <1>1, LimitAssumption DEF OpenExam, TaughtThrough
  <2>2. j \in Job /\ j.pc = "exam" /\ j.file = f /\ ~j.opens /\ ~j.writing
    BY <2>1, NoJobType DEF NoJob, Job, Pc
  <2> HIDE DEF j
  <2>3. job'[s] = j => JobIsSound(s)'
    BY <2>1, <2>2 DEF JobIsSound, Rows
  <2> QED
    BY <2>1, <2>2, <2>3, MoveStep
<1>2. CASE StoreExam(s)
  <2>1. /\ job[s].pc = "exam" /\ job[s].file \in Taught \cap Rows
        /\ step[job[s].file].status = "completed"
        /\ exam \subseteq exam' /\ exam' \subseteq exam \cup {job[s].file}
    BY <1>0, <1>2 DEF StoreExam, JobIsSound
  <2>2. TypeOK'
    BY <1>0, <1>2, <2>1, NoJobType DEF StoreExam, TypeOK, Close
  <2>3. /\ NoJob \in Job /\ job' = [job EXCEPT ![s] = NoJob] /\ NoJob.pc = "idle" /\ ~NoJob.writing
        /\ ~NoJob.opens
    BY <1>2, NoJobType DEF StoreExam, Close, NoJob
  <2>4. UploadIsAllOrNothing'
    BY <1>2, <2>1, <2>3, UploadStays DEF StoreExam
  <2>5. ExamClosesTeaching'
    BY <1>2, <2>1 DEF StoreExam, IInv, ExamClosesTeaching, Rows
  <2>6. job'[s] = NoJob => JobIsSound(s)'
    BY <2>3 DEF JobIsSound
  <2> QED
    BY <1>2, <2>2, <2>3, <2>4, <2>5, <2>6, JobStep DEF StoreExam, Rows
<1> QED
  BY <1>1, <1>2 DEF Exam

\* Both end without a commit: an object that nobody will delete is leaked.
LEMMA GiveUpStep ==
    ASSUME IInv, NEW s \in Slots, GiveUp(s)
    PROVE  IInv'
<1> USE DEF quota, store, work, UploadPc
<1>0. JobIsSound(s) /\ job[s] \in Job /\ TypeOK
  BY DEF IInv, JobsAreSound, TypeOK
<1>1. /\ NoJob \in Job /\ job' = [job EXCEPT ![s] = NoJob] /\ NoJob.pc = "idle" /\ ~NoJob.writing
      /\ ~NoJob.opens /\ job[s].pc # "row" /\ (job[s].pc = "stored" => job[s].file \in Files)
  BY <1>0, NoJobType DEF GiveUp, Close, NoJob, JobIsSound
<1>2. TypeOK'
  BY <1>0, <1>1 DEF GiveUp, TypeOK
<1>3. UploadIsAllOrNothing'
  <2>1. Uploading \subseteq Uploading' \cup leaked' /\ leaked \subseteq leaked'
    BY <1>0, <1>1 DEF GiveUp, Uploading, TypeOK
  <2> QED
    BY <2>1 DEF GiveUp, IInv, UploadIsAllOrNothing, Rows
<1>4. ExamClosesTeaching'
  BY ExamStays DEF GiveUp, Rows, Final
<1>5. UNCHANGED <<objects, uploads, leaked>> \/ job[s].pc \in UploadPc
  BY DEF GiveUp
<1>6. job'[s] = NoJob => JobIsSound(s)'
  BY <1>1 DEF JobIsSound
<1> QED
  BY <1>1, <1>2, <1>3, <1>4, <1>5, <1>6, JobStep DEF GiveUp, Rows

LEMMA CrashStep ==
    ASSUME IInv, Crash
    PROVE  IInv'
<1> USE DEF quota, store, work
<1>1. \A s \in Slots : job'[s] = NoJob /\ NoJob.pc = "idle" /\ ~NoJob.writing /\ ~NoJob.opens
  BY DEF Crash, NoJob
<1>2. TypeOK'
  <2>1. {job[s].file : s \in {r \in Slots : job[r].pc \in {"stored", "row"}}} \subseteq Files
    BY DEF IInv, JobsAreSound, JobIsSound
  <2>2. job' \in [Slots -> Job]
    BY NoJobType DEF Crash
  <2> QED
    BY <2>1, <2>2 DEF Crash, IInv, TypeOK
<1>3. OneWriter' /\ OneUpload' /\ JobsAreSound'
  BY <1>1 DEF OneWriter, OneUpload, JobsAreSound, JobIsSound
<1>4. UploadIsAllOrNothing'
  <2>1. leaked' = leaked \cup Uploading
    BY DEF Crash, Uploading
  <2> QED
    BY <2>1 DEF Crash, IInv, UploadIsAllOrNothing, Rows
<1>5. ExamClosesTeaching'
  BY ExamStays DEF Crash, Rows, Final
<1> QED
  BY <1>2, <1>3, <1>4, <1>5 DEF IInv

LEMMA EndpointStep ==
    ASSUME IInv, NEW f \in Taught,
           \/ BeginStep(f) \/ CheckStep(f) \/ ConfirmStep(f) \/ SubmitExam(f) \/ PostResult(f)
    PROVE  IInv' /\ Final
<1> USE DEF quota, store, work
<1>0. TypeOK /\ step[f] \in StepRow
  BY DEF IInv, TypeOK
<1>1. CASE BeginStep(f) \/ CheckStep(f) \/ ConfirmStep(f)
  <2>1. PICK r \in StepRow : /\ step' = [step EXCEPT ![f] = r]
                             /\ step[f].status = "completed" => r.status = "completed"
    <3>1. CASE BeginStep(f)
      <4>1. [step[f] EXCEPT !.status = "active"] \in StepRow
        BY <1>0 DEF StepRow
      <4> QED
        BY <3>1, <4>1 DEF BeginStep
    <3>2. CASE ConfirmStep(f)
      <4>1. [step[f] EXCEPT !.status = "completed"] \in StepRow
        BY <1>0 DEF StepRow
      <4> QED
        BY <3>2, <4>1 DEF ConfirmStep
    <3>3. ASSUME CheckStep(f), NEW v \in BOOLEAN, step' = [step EXCEPT ![f].verified = v]
          PROVE  \E r \in StepRow : /\ step' = [step EXCEPT ![f] = r]
                                    /\ step[f].status = "completed" => r.status = "completed"
      <4>1. /\ [step[f] EXCEPT !.verified = v] \in StepRow
            /\ [step[f] EXCEPT !.verified = v].status = step[f].status
        BY <1>0 DEF StepRow
      <4> QED
        BY <3>3, <4>1
    <3> QED
      BY <1>1, <3>1, <3>2, <3>3 DEF CheckStep
  <2>2. step' \in [Taught -> StepRow] /\ Final
    BY <1>0, <2>1 DEF TypeOK, Final
  <2>3. /\ UNCHANGED <<now, quota, store, uploads, exam, results, isCheck, job>>
        /\ \A s \in Slots : ~job[s].writing
    BY <1>1 DEF BeginStep, CheckStep, ConfirmStep
  <2>4. TypeOK'
    BY <1>0, <2>2, <2>3 DEF TypeOK
  <2>5. ExamClosesTeaching'
    BY <2>2, <2>3, ExamStays DEF Rows
  <2> QED
    BY <2>2, <2>3, <2>4, <2>5, NoJobStep
<1>2. CASE SubmitExam(f) \/ PostResult(f)
  <2>1. /\ UNCHANGED <<now, quota, store, uploads, step, exam, isCheck, job>>
        /\ \/ results' = results \cup {<<f, "posted">>}
           \/ results' = results \cup {<<f, "graded">>} /\ f \in exam
    BY <1>2 DEF SubmitExam, PostResult, RecordResult
  <2>2. TypeOK' /\ Final
    BY <1>0, <2>1 DEF TypeOK, Final
  <2>3. ExamClosesTeaching'
    BY <2>1 DEF IInv, ExamClosesTeaching, Rows
  <2> QED
    BY <2>1, <2>2, <2>3, NoJobStep
<1> QED
  BY <1>1, <1>2

-----------------------------------------------------------------------------
(* The invariant.                                                           *)

LEMMA IInvInit == Init => IInv
<1> SUFFICES ASSUME Init PROVE IInv
  OBVIOUS
<1>1. TypeOK
  <2>1. 0 \in Hours /\ NoStep \in StepRow /\ NoUsage \in Usage
    BY LimitAssumption DEF NoUsage, NoStep, Usage, StepRow, Hours
  <2>2. step \in [Taught -> StepRow] /\ said \in [Hours -> Nat] /\ job \in [Slots -> Job]
    BY <2>1, NoJobType DEF Init
  <2> QED
    BY <2>1, <2>2 DEF Init, TypeOK
<1>2. \A s \in Slots : job[s].pc = "idle" /\ ~job[s].writing /\ ~job[s].opens
  BY DEF Init, NoJob
<1>3. OneWriter /\ OneUpload /\ JobsAreSound
  BY <1>2 DEF OneWriter, OneUpload, JobsAreSound, JobIsSound
<1>4. UploadIsAllOrNothing /\ ExamClosesTeaching
  BY DEF Init, UploadIsAllOrNothing, ExamClosesTeaching, Rows
<1> QED
  BY <1>1, <1>3, <1>4 DEF IInv

LEMMA IInvNext == IInv /\ [Next]_vars => IInv'
<1> SUFFICES ASSUME IInv, [Next]_vars PROVE IInv'
  OBVIOUS
<1>1. ASSUME NEW s \in Slots, Upload(s) \/ Chat(s) \/ Exam(s) \/ GiveUp(s) PROVE IInv'
  BY <1>1, UploadStep, ChatStep, ExamStep, GiveUpStep
<1>2. CASE Tick
  <2>1. TypeOK' /\ ExamClosesTeaching' /\ Final
    BY <1>2, LimitAssumption DEF Tick, IInv, TypeOK, ExamClosesTeaching, Rows, Final, Hours, quota, store, work
  <2> QED
    BY <1>2, <2>1, NoJobStep DEF Tick, store, work
<1>3. CASE UNCHANGED vars
  <2>1. TypeOK' /\ ExamClosesTeaching' /\ Final
    BY <1>3 DEF IInv, TypeOK, ExamClosesTeaching, Rows, Final, vars, quota, store, work
  <2> QED
    BY <1>3, <2>1, NoJobStep DEF vars, store, work
<1> QED
  BY <1>1, <1>2, <1>3, EndpointStep, CrashStep DEF Next

\* The sessions agree with the rows, the objects and the steps they rely on.
THEOREM Invariance == Spec => []IInv
BY IInvInit, IInvNext, PTL DEF Spec

\* An upload that was not cut short leaves its row and its object or neither.
THEOREM UploadsAreWhole == Spec => []UploadIsAllOrNothing
<1>1. IInv => UploadIsAllOrNothing
  BY DEF IInv
<1> QED
  BY <1>1, Invariance, PTL

\* Exams are stored and graded only for files that were taught through.
THEOREM ExamsFollowTeaching == Spec => []ExamClosesTeaching
<1>1. IInv => ExamClosesTeaching
  BY DEF IInv
<1> QED
  BY <1>1, Invariance, PTL

\* A completed step of a file stays completed: only ConfirmInChat and ConfirmStep
\* write the status of a step that exists.
LEMMA StepsStay == IInv /\ [Next]_vars => Final
<1> SUFFICES ASSUME IInv, [Next]_vars PROVE Final
  OBVIOUS
<1> USE DEF work
<1>1. CASE step' = step
  BY <1>1 DEF Final
<1>2. ASSUME NEW s \in Slots, Chat(s) PROVE Final
  <2>0. JobIsSound(s) /\ step \in [Taught -> StepRow]
    BY DEF IInv, JobsAreSound, TypeOK
  <2>1. CASE ConfirmInChat(s)
    BY <2>0, <2>1 DEF ConfirmInChat, JobIsSound, Final, StepRow
  <2>2. CASE EvaluateAnswer(s)
    BY <2>0, <2>2, VerifiedStepKeeps DEF EvaluateAnswer, JobIsSound, Final
  <2>3. CASE CallTool(s) \/ CommitAnswer(s)
    BY <2>3, OpenedStepKeeps DEF CallTool, CommitAnswer, Final
  <2> QED
    BY <1>1, <1>2, <2>1, <2>2, <2>3 DEF Chat, OpenChat, Answer, FailChat
<1>3. ASSUME NEW s \in Slots, Upload(s) \/ Exam(s) \/ GiveUp(s) PROVE step' = step
  BY <1>3 DEF Upload, CheckQuota, PutObject, FlushRow, CommitUpload, FailUpload,
     Exam, OpenExam, StoreExam, GiveUp
<1>4. CASE Crash \/ Tick \/ UNCHANGED vars
  BY <1>1, <1>4 DEF Crash, Tick, vars
<1> QED
  BY <1>1, <1>2, <1>3, <1>4, EndpointStep DEF Next

\* No request takes the completion of a file's step back.
THEOREM CompletionStays == Spec => FileCompletionIsFinal
<1>1. IInv /\ [Next]_vars => [Final]_vars
  BY StepsStay
<1> QED
  BY <1>1, Invariance, PTL DEF Spec, FileCompletionIsFinal, Final
-----------------------------------------------------------------------------
(* The quota: what a session writes was counted from the row it loaded.     *)

LEMMA UsageValues ==
    ASSUME NEW u \in Usage
    PROVE  /\ u.there \in BOOLEAN /\ u.start \in Hours /\ u.start \in Nat
           /\ u.files \in Nat /\ u.chars \in Nat
BY LimitAssumption DEF Usage, Hours

LEMMA UntouchedIsZero ==
    ASSUME NEW h \in Hours, Untouched(h)
    PROVE  UploadsIn(h) = 0 /\ said[h] = 0 /\ UploadedIn(h) = {}
BY FS_EmptySet DEF Untouched, UploadsIn

\* A row that was loaded as it is now, and counted on, tells what happened.
LEMMA SinceIsExact ==
    ASSUME TypeOK, RowIsExact, NEW u \in Usage, NEW n \in Nat, u.start <= now,
           Since(usage, u, n)
    PROVE  IsExact(u, n)
<1>1. usage \in Usage
  BY DEF TypeOK
<1>2. CASE usage.there /\ u.start = usage.start /\ u.files = usage.files /\ u.chars = usage.chars + n
  <2>1. said[u.start] \in Nat
    BY UsageValues DEF TypeOK
  <2> QED
    BY <1>1, <1>2, <2>1, UsageValues DEF RowIsExact, IsExact
<1>3. CASE (usage.there => u.start > usage.start) /\ u.files = 0 /\ u.chars = n
  <2>1. \A h \in Hours : h >= u.start => Untouched(h)
    BY <1>1, <1>3, UsageValues, LimitAssumption DEF RowIsExact, IsExact, Hours
  <2>2. UploadsIn(u.start) = 0 /\ said[u.start] = 0
    BY <2>1, UsageValues, UntouchedIsZero
  <2> QED
    BY <1>3, <2>1, <2>2, UsageValues, LimitAssumption DEF IsExact, Hours
<1> QED
  BY <1>2, <1>3 DEF Since

\* Expiry starts a window in which nothing happened.
LEMMA CurrentSince ==
    ASSUME now \in Hours, NEW b \in Usage, NEW u \in Usage, Since(b, u, 0),
           u.there, u.start <= now
    PROVE  Since(b, Current(u), 0) /\ Current(u).start <= now
<1>1. now \in Nat
  BY LimitAssumption DEF Hours
<1>2. CASE Current(u) = u
  BY <1>2
<1>3. CASE Current(u) # u
  <2>1. /\ Current(u).start = now /\ Current(u).files = 0 /\ Current(u).chars = 0
        /\ u.there => u.start < now
    BY <1>3, CurrentType
  <2> QED
    BY <1>1, <2>1, UsageValues DEF Since
<1> QED
  BY <1>2, <1>3

\* A request opens with the row it loaded, or with an empty new window.
LEMMA OpenHolds ==
    ASSUME TypeOK, RowIsExact, NEW j \in Job, j.base = usage, j.use = Current(usage),
           j.touched = Changed(usage, Current(usage)), j.chars = 0
    PROVE  Holds(j)
<1>1. now \in Nat /\ usage \in Usage /\ Current(usage) \in Usage
  BY CurrentType, LimitAssumption DEF TypeOK, Hours
<1>2. j.use.there /\ j.use.start <= now /\ Since(j.base, j.use, j.chars)
  BY <1>1, CurrentType, UsageValues DEF TypeOK, RowIsExact, IsExact, Since
<1>3. \A c \in Columns \ j.touched : j.use[c] = j.base[c]
  BY DEF Changed
<1> QED
  BY <1>2, <1>3 DEF Holds

\* An answer counted, and a file counted, from a row that the session holds.
LEMMA ConsumeHolds ==
    ASSUME now \in Hours, NEW j \in Job, Holds(j), j.chars = 0, NEW n \in Answers(j)
    PROVE  LET k == Consume(j, n) IN
           /\ k \in Job /\ Holds(k) /\ k.chars = n /\ k.touched # {} /\ k.use.chars <= CharLimit
<1> DEFINE w == Current(j.use)
           k == Consume(j, n)
<1>1. /\ j.use \in Usage /\ j.base \in Usage /\ w \in Usage /\ w.there /\ w.chars \in Nat
      /\ n \in Nat \ {0} /\ now \in Nat
  BY CurrentType, AnswerLength, UsageValues, LimitAssumption DEF Job, Hours
<1>2. Since(j.base, w, 0) /\ w.start <= now
  BY <1>1, CurrentSince DEF Holds
<1>3. w.chars = 0 \/ w.chars = j.use.chars
  BY <1>1, CurrentType
<1>4. /\ k \in Job /\ k.base = j.base /\ k.chars = n /\ k.use = [w EXCEPT !.chars = @ + n]
      /\ k.touched = j.touched \cup Changed(j.use, w) \cup Changed(w, k.use)
  BY <1>1, ConsumeType
<1> HIDE DEF w, k
<1>5. /\ k.use.there /\ k.use.start = w.start /\ k.use.files = w.files /\ k.use.chars = w.chars + n
  BY <1>1, <1>4 DEF Usage
<1>6. Since(k.base, k.use, k.chars)
  BY <1>1, <1>2, <1>4, <1>5, UsageValues DEF Since
<1>7. ASSUME NEW c \in Columns \ k.touched PROVE k.use[c] = k.base[c]
  <2>1. c \notin j.touched /\ c \notin Changed(j.use, w) /\ c \notin Changed(w, k.use)
    BY <1>4
  <2>2. j.use[c] = w[c] /\ w[c] = k.use[c]
    BY <2>1 DEF Changed
  <2>3. j.use[c] = j.base[c]
    BY <2>1 DEF Holds
  <2>4. k.base = j.base
    BY <1>4
  <2> QED
    BY <2>2, <2>3, <2>4
<1>8. "chars" \in k.touched
  <2>1. w["chars"] # k.use["chars"]
    BY <1>1, <1>5
  <2>2. "chars" \in Changed(w, k.use)
    BY <2>1 DEF Changed, Columns
  <2> QED
    BY <1>4, <2>2
<1>9. k.use.chars <= CharLimit
  BY <1>1, <1>3, <1>5, AnswerLength, UsageValues, LimitAssumption
<1>10. Holds(k)
  BY <1>2, <1>5, <1>6, <1>7 DEF Holds
<1> QED
  BY <1>4, <1>8, <1>9, <1>10 DEF k

LEMMA RegisteredHolds ==
    ASSUME now \in Hours, NEW j \in Job, Holds(j), j.chars = 0
    PROVE  LET k == Registered(j)
               w == Current(j.use) IN
           /\ k \in Job /\ k.touched # {} /\ k.base = j.base
           /\ w \in Usage /\ w.there /\ w.start <= now /\ Since(k.base, w, 0)
           /\ k.use = [w EXCEPT !.files = @ + 1]
           /\ \A c \in Columns \ k.touched : k.use[c] = k.base[c]
<1> DEFINE w == Current(j.use)
           k == Registered(j)
<1>1. /\ j.use \in Usage /\ j.base \in Usage /\ w \in Usage /\ w.there /\ w.files \in Nat
  BY CurrentType, UsageValues DEF Job
<1>2. Since(j.base, w, 0) /\ w.start <= now
  BY <1>1, CurrentSince DEF Holds
<1>3. /\ k \in Job /\ k.base = j.base /\ k.use = [w EXCEPT !.files = @ + 1]
      /\ k.touched = j.touched \cup Changed(j.use, w) \cup Changed(w, k.use)
  BY <1>1, RegisteredType
<1> HIDE DEF w, k
<1>4. k.use.files = w.files + 1
  BY <1>1, <1>3 DEF Usage
<1>5. ASSUME NEW c \in Columns \ k.touched PROVE k.use[c] = k.base[c]
  <2>1. c \notin j.touched /\ c \notin Changed(j.use, w) /\ c \notin Changed(w, k.use)
    BY <1>3
  <2>2. j.use[c] = w[c] /\ w[c] = k.use[c]
    BY <2>1 DEF Changed
  <2>3. j.use[c] = j.base[c]
    BY <2>1 DEF Holds
  <2>4. k.base = j.base
    BY <1>3
  <2> QED
    BY <2>2, <2>3, <2>4
<1>6. "files" \in k.touched
  <2>1. w["files"] # k.use["files"]
    BY <1>1, <1>4
  <2>2. "files" \in Changed(w, k.use)
    BY <2>1 DEF Changed, Columns
  <2> QED
    BY <1>3, <2>2
<1> QED
  BY <1>1, <1>2, <1>3, <1>5, <1>6 DEF w, k

\* A commit over the row that was loaded makes it the row the session holds.
LEMMA CommitWritesUse ==
    ASSUME TypeOK, NEW k \in Job, CommitUsage(k), ~staleWrite',
           \A c \in Columns \ k.touched : k.use[c] = k.base[c], k.touched # {}
    PROVE  ~staleWrite /\ k.base = usage /\ usage' = k.use
<1>1. ~staleWrite /\ k.base = usage
  BY DEF CommitUsage
<1>2. /\ usage' \in Usage /\ k.use \in Usage
      /\ \A c \in Columns : usage'[c] = IF c \in k.touched THEN k.use[c] ELSE usage[c]
  BY FlushedType DEF TypeOK, CommitUsage, Job
<1>3. \A c \in Columns : usage'[c] = k.use[c]
  BY <1>1, <1>2
<1>4. usage'["there"] = k.use["there"] /\ usage'["start"] = k.use["start"]
      /\ usage'["files"] = k.use["files"] /\ usage'["chars"] = k.use["chars"]
  BY <1>3 DEF Columns
<1>5. usage' = k.use
  BY <1>2, <1>4, UsageParts
<1> QED
  BY <1>1, <1>5

\* What the limits and the row say, after a commit that adds an answer.
LEMMA SayCounts ==
    ASSUME IInv, QuotaInv, NEW s \in Slots, NEW k \in Job, SayAndCommit(s, k),
           uploads' = uploads, now' = now, ~staleWrite',
           Holds(k), k.touched # {}, k.use.chars <= CharLimit
    PROVE  /\ ~staleWrite /\ RowIsExact'
           /\ \A h \in Hours : UploadsIn(h)' <= FileLimit /\ said'[h] <= CharLimit
<1>1. ~staleWrite /\ k.base = usage /\ usage' = k.use
  BY CommitWritesUse DEF SayAndCommit, Holds, IInv
<1>2. RowIsExact /\ \A h \in Hours : UploadsIn(h) <= FileLimit /\ said[h] <= CharLimit
  BY <1>1 DEF QuotaInv
<1>3. k.use \in Usage /\ k.chars \in Nat /\ k.use.start \in Hours /\ k.use.there
  BY UsageValues DEF Job, Holds
<1>4. IsExact(k.use, k.chars)
  BY <1>1, <1>2, <1>3, SinceIsExact DEF Holds, IInv
<1>5. said \in [Hours -> Nat] /\ said' = [said EXCEPT ![k.use.start] = @ + k.chars]
  BY DEF SayAndCommit, IInv, TypeOK
<1>6. \A h \in Hours : UploadedIn(h)' = UploadedIn(h) /\ UploadsIn(h)' = UploadsIn(h)
  BY DEF UploadedIn, UploadsIn
<1>7. said'[k.use.start] = k.use.chars
  BY <1>3, <1>4, <1>5 DEF IsExact
<1>8. \A h \in Hours : h # k.use.start => said'[h] = said[h]
  BY <1>3, <1>5
<1>9. IsExact(usage, 0)'
  <2>1. \A h \in Hours : h > k.use.start => Untouched(h)'
    <3> SUFFICES ASSUME NEW h \in Hours, h > k.use.start PROVE Untouched(h)'
      OBVIOUS
    <3>1. Untouched(h) /\ h # k.use.start
      BY <1>3, <1>4, LimitAssumption DEF IsExact, Hours
    <3> QED
      BY <1>6, <1>8, <3>1 DEF Untouched
  <2> QED
    BY <1>1, <1>3, <1>4, <1>6, <1>7, <2>1, UsageValues DEF IsExact
<1>10. RowIsExact'
  BY <1>1, <1>3, <1>9 DEF RowIsExact
<1> QED
  BY <1>1, <1>2, <1>6, <1>7, <1>8, <1>10

\* The same after a commit that adds an upload.
LEMMA UploadCounts ==
    ASSUME IInv, QuotaInv, NEW s \in Slots, CommitUpload(s), ~staleWrite'
    PROVE  /\ ~staleWrite /\ RowIsExact'
           /\ \A h \in Hours : UploadsIn(h)' <= FileLimit /\ said'[h] <= CharLimit
<1> DEFINE j == job[s]
           f == job[s].file
           k == Registered(j)
           w == Current(j.use)
<1>1. /\ j \in Job /\ TypeOK /\ now \in Hours /\ f \in Files /\ f \notin Rows /\ j.pc = "row"
      /\ JobIsSound(s)
  BY DEF CommitUpload, IInv, TypeOK, JobsAreSound, JobIsSound
<1>2. ~staleWrite /\ Holds(j) /\ j.chars = 0
  BY <1>1 DEF CommitUpload, CommitUsage, QuotaInv, Counting, CountIsOK
<1>3. /\ k \in Job /\ k.touched # {} /\ k.base = j.base
      /\ w \in Usage /\ w.there /\ w.start <= now /\ Since(k.base, w, 0)
      /\ k.use = [w EXCEPT !.files = @ + 1]
      /\ \A c \in Columns \ k.touched : k.use[c] = k.base[c]
  BY <1>1, <1>2, RegisteredHolds
<1>4. /\ CommitUsage(k) /\ uploads' = uploads \cup {<<f, k.use.start>>} /\ k.use.files <= FileLimit
      /\ now' = now /\ said' = said
  BY DEF CommitUpload
<1> HIDE DEF k, w
<1>5. k.base = usage /\ usage' = k.use
  BY <1>1, <1>3, <1>4, CommitWritesUse
<1>6. RowIsExact /\ \A h \in Hours : /\ UploadsIn(h) <= FileLimit /\ said[h] <= CharLimit
                                    /\ IsFiniteSet(UploadedIn(h))
  BY <1>2 DEF QuotaInv
<1>7. IsExact(w, 0)
  BY <1>1, <1>3, <1>5, <1>6, SinceIsExact
<1>8. /\ w.start \in Hours /\ w.files \in Nat /\ w.chars \in Nat
      /\ k.use.start = w.start /\ k.use.files = w.files + 1 /\ k.use.chars = w.chars /\ k.use.there
  BY <1>3, UsageValues DEF Usage
<1>9. PICK d \in Hours : d = w.start
  BY <1>8
<1>10. \A h \in Hours : h # d => UploadedIn(h)' = UploadedIn(h)
  BY <1>4, <1>8, <1>9 DEF UploadedIn
<1>11. UploadsIn(d)' = k.use.files
  <2>1. UploadedIn(d)' = UploadedIn(d) \cup {f} /\ f \notin UploadedIn(d)
    BY <1>1, <1>4, <1>8, <1>9 DEF UploadedIn, Rows
  <2>2. Cardinality(UploadedIn(d) \cup {f}) = Cardinality(UploadedIn(d)) + 1
    BY <1>6, <2>1, FS_AddElement
  <2> QED
    BY <1>7, <1>8, <1>9, <2>1, <2>2 DEF IsExact, UploadsIn
<1>12. \A h \in Hours : UploadsIn(h)' <= FileLimit
  BY <1>4, <1>6, <1>10, <1>11 DEF UploadsIn
<1>13. RowIsExact'
  <2>1. \A h \in Hours : h > d => Untouched(h)'
    <3> SUFFICES ASSUME NEW h \in Hours, h > d PROVE Untouched(h)'
      OBVIOUS
    <3>1. Untouched(h) /\ h # d
      BY <1>7, <1>9, LimitAssumption DEF IsExact, Hours
    <3> QED
      BY <1>4, <1>10, <3>1 DEF Untouched
  <2>2. /\ usage'.there /\ usage'.start = d /\ usage'.files = UploadsIn(d)'
        /\ usage'.chars = said[d] /\ said[d] \in Nat /\ d <= now
    BY <1>1, <1>3, <1>5, <1>7, <1>8, <1>9, <1>11, UsageValues DEF IsExact, TypeOK
  <2>3. IsExact(usage, 0)'
    BY <1>4, <2>1, <2>2 DEF IsExact
  <2> QED
    BY <2>2, <2>3 DEF RowIsExact
<1> QED
  BY <1>2, <1>4, <1>6, <1>12, <1>13

\* Steps that commit nothing of the quota: the sessions go on holding what they
\* counted, as time passes.
LEMMA HoldsLater ==
    ASSUME IInv, NEW j \in Job, Holds(j), now' \in Hours, now <= now'
    PROVE  Holds(j)'
<1>1. now \in Nat /\ now' \in Nat /\ j.use.start \in Nat
  BY UsageValues, LimitAssumption DEF IInv, TypeOK, Hours, Job
<1> QED
  BY <1>1 DEF Holds, Since

LEMMA CountStays ==
    ASSUME IInv, QuotaInv, UNCHANGED <<quota, uploads>>, now' \in Hours, now <= now',
           ~staleWrite => \A s \in Slots :
              Counting(s)' => CountIsOK(s)' \/ (job'[s] = job[s] /\ CountIsOK(s))
    PROVE  QuotaInv'
<1>1. \A h \in Hours : UploadedIn(h)' = UploadedIn(h) /\ UploadsIn(h)' = UploadsIn(h)
  BY DEF UploadedIn, UploadsIn
<1>2. now \in Nat /\ now' \in Nat /\ usage \in Usage
  BY LimitAssumption DEF IInv, TypeOK, Hours
<1>3. RowIsExact => RowIsExact'
  BY <1>1, <1>2, UsageValues DEF RowIsExact, IsExact, Untouched, quota
<1>4. ASSUME NEW s \in Slots, job'[s] = job[s], CountIsOK(s) PROVE CountIsOK(s)'
  <2>1. job[s] \in Job /\ Holds(job[s])
    BY <1>4 DEF IInv, TypeOK, CountIsOK
  <2>2. Holds(job[s])'
    BY <2>1, <1>4, HoldsLater
  <2> QED
    BY <1>4, <2>2 DEF CountIsOK
<1> QED
  BY <1>1, <1>3, <1>4 DEF QuotaInv, quota

\* The other sessions, at a step of one of them.
LEMMA OthersHold ==
    ASSUME IInv, NEW s \in Slots, NEW j, job' = [job EXCEPT ![s] = j], now' = now,
           \A r \in Slots : Counting(r) => CountIsOK(r)
    PROVE  \A r \in Slots \ {s} : Counting(r)' => CountIsOK(r)'
<1>1. \A r \in Slots \ {s} : job'[r] = job[r]
  BY DEF IInv, TypeOK
<1> QED
  BY <1>1 DEF Counting, CountIsOK, Holds, Since

LEMMA ClosedCounts ==
    ASSUME IInv, NEW s \in Slots, Close(s), now' = now,
           \A r \in Slots : Counting(r) => CountIsOK(r)
    PROVE  \A r \in Slots : Counting(r)' => CountIsOK(r)'
<1>1. job'[s] = NoJob /\ NoJob.pc = "idle"
  BY DEF IInv, TypeOK, Close, NoJob
<1> QED
  BY <1>1, OthersHold DEF Close, Counting

\* A session moves and commits nothing.
LEMMA MoveQuota ==
    ASSUME IInv, QuotaInv, NEW s \in Slots, NEW j, job' = [job EXCEPT ![s] = j],
           UNCHANGED <<now, quota, uploads>>,
           ~staleWrite /\ job'[s] = j => (Counting(s)' => CountIsOK(s)')
    PROVE  QuotaInv'
<1>1. now' \in Hours /\ now <= now'
  BY LimitAssumption DEF IInv, TypeOK, Hours
<1>2. job'[s] = j
  BY DEF IInv, TypeOK
<1>3. ~staleWrite => \A r \in Slots : Counting(r)' => CountIsOK(r)'
  BY <1>2, OthersHold DEF QuotaInv
<1> QED
  BY <1>1, <1>3, CountStays

LEMMA CloseQuota ==
    ASSUME IInv, QuotaInv, NEW s \in Slots, Close(s), UNCHANGED <<now, quota, uploads>>
    PROVE  QuotaInv'
<1>1. NoJob.pc = "idle"
  BY DEF NoJob
<1> QED
  BY <1>1, MoveQuota DEF Close, Counting

\* A session moves and holds the usage row as it did.
LEMMA SameHolds ==
    ASSUME IInv, QuotaInv, NEW s \in Slots, NEW j, job' = [job EXCEPT ![s] = j],
           UNCHANGED <<now, quota, uploads>>, Counting(s), job[s].pc # "answered",
           j.pc # "answered", j.base = job[s].base, j.use = job[s].use,
           j.touched = job[s].touched, j.chars = job[s].chars
    PROVE  QuotaInv'
<1>1. ~staleWrite /\ job'[s] = j => CountIsOK(s)'
  BY DEF QuotaInv, CountIsOK, Holds, Since
<1> QED
  BY <1>1, MoveQuota

LEMMA UploadQuota ==
    ASSUME IInv, QuotaInv, NEW s \in Slots, Upload(s)
    PROVE  QuotaInv'
<1>0. job[s] \in Job /\ TypeOK
  BY DEF IInv, TypeOK
<1>1. ASSUME NEW f \in Files, CheckQuota(s, f) PROVE QuotaInv'
  <2> DEFINE u == Current(usage)
             w == ~usage.there
             j == [NoJob EXCEPT !.pc = "quota", !.file = f, !.base = usage, !.use = u,
                                !.touched = Changed(usage, u), !.writing = w]
  <2>1. usage \in Usage /\ u \in Usage /\ Changed(usage, u) \in SUBSET Columns
    BY <1>0, CurrentType DEF TypeOK, Changed
  <2>2. job' = [job EXCEPT ![s] = j] /\ UNCHANGED <<now, quota, uploads>>
    BY <1>1 DEF CheckQuota
  <2> HIDE DEF u
  <2>3. w \in BOOLEAN
    OBVIOUS
  <2> HIDE DEF w
  <2>4. /\ j \in Job /\ j.pc = "quota" /\ j.base = usage /\ j.use = u
        /\ j.touched = Changed(usage, u) /\ j.chars = 0
    BY <2>1, <2>3, NoJobType DEF NoJob, Job, Pc
  <2> HIDE DEF j
  <2>5. ~staleWrite => Holds(j)
    BY <1>0, <2>4, OpenHolds DEF QuotaInv, u
  <2>6. ~staleWrite /\ job'[s] = j => CountIsOK(s)'
    BY <2>2, <2>4, <2>5 DEF CountIsOK, Holds, Since
  <2> QED
    BY <2>2, <2>6, MoveQuota
<1>2. CASE PutObject(s)
  <2>1. job[s].pc = "quota" /\ UNCHANGED <<now, quota, uploads>> /\ Counting(s)
    BY <1>2 DEF PutObject, Counting
  <2>2. CASE Close(s)
    BY <2>1, <2>2, CloseQuota
  <2>3. CASE job' = [job EXCEPT ![s].pc = "stored"]
    <3> DEFINE j == [job[s] EXCEPT !.pc = "stored"]
    <3>1. /\ job' = [job EXCEPT ![s] = j] /\ j.pc = "stored" /\ j.base = job[s].base
          /\ j.use = job[s].use /\ j.touched = job[s].touched /\ j.chars = job[s].chars
      BY <1>0, <2>3 DEF Job, TypeOK
    <3> HIDE DEF j
    <3> QED
      BY <2>1, <3>1, SameHolds
  <2> QED
    BY <1>2, <2>2, <2>3 DEF PutObject
<1>3. CASE FlushRow(s)
  <2> DEFINE j == [job[s] EXCEPT !.pc = "row", !.writing = TRUE]
  <2>1. /\ job' = [job EXCEPT ![s] = j] /\ j.pc = "row" /\ j.base = job[s].base
        /\ j.use = job[s].use /\ j.touched = job[s].touched /\ j.chars = job[s].chars
    BY <1>0, <1>3 DEF Job, TypeOK, FlushRow
  <2> HIDE DEF j
  <2>2. job[s].pc = "stored" /\ UNCHANGED <<now, quota, uploads>> /\ Counting(s)
    BY <1>3 DEF FlushRow, Counting
  <2> QED
    BY <2>1, <2>2, SameHolds
<1>4. CASE CommitUpload(s)
  <2>1. ASSUME NEW h \in Hours PROVE IsFiniteSet(UploadedIn(h)')
    <3>1. UploadedIn(h)' \subseteq UploadedIn(h) \cup {job[s].file}
      BY <1>4 DEF CommitUpload, UploadedIn
    <3> QED
      BY <3>1, FS_AddElement, FS_Subset DEF QuotaInv
  <2>2. ~staleWrite' => \A r \in Slots : Counting(r)' => CountIsOK(r)'
    BY <1>4, UploadCounts, ClosedCounts DEF QuotaInv, CommitUpload
  <2> QED
    BY <1>4, <2>1, <2>2, UploadCounts DEF QuotaInv
<1>5. CASE FailUpload(s)
  BY <1>5, CloseQuota DEF FailUpload
<1> QED
  BY <1>1, <1>2, <1>3, <1>4, <1>5 DEF Upload

\* A chat that commits its answer.
LEMMA SayQuota ==
    ASSUME IInv, QuotaInv, NEW s \in Slots, NEW k \in Job, SayAndCommit(s, k),
           uploads' = uploads, now' = now,
           ~staleWrite => Holds(k) /\ k.touched # {} /\ k.use.chars <= CharLimit
    PROVE  QuotaInv'
<1>1. Close(s) /\ (~staleWrite' => ~staleWrite)
  BY DEF SayAndCommit, CommitUsage
<1>2. ~staleWrite' => \A r \in Slots : Counting(r)' => CountIsOK(r)'
  BY <1>1, ClosedCounts DEF QuotaInv
<1>3. ~staleWrite' => /\ RowIsExact'
                      /\ \A h \in Hours : UploadsIn(h)' <= FileLimit /\ said'[h] <= CharLimit
  BY <1>1, SayCounts
<1>4. \A h \in Hours : UploadedIn(h)' = UploadedIn(h)
  BY DEF UploadedIn
<1> QED
  BY <1>2, <1>3, <1>4 DEF QuotaInv

\* A tool commits the reset of a row that expired, if the chat made one.
LEMMA ToolQuota ==
    ASSUME IInv, QuotaInv, NEW s \in Slots, CallTool(s)
    PROVE  QuotaInv'
<1> DEFINE b == IF job[s].touched = {} THEN job[s].base ELSE Flushed(job[s])
           j == [job[s] EXCEPT !.base = b, !.touched = {}, !.opens = FALSE, !.writing = FALSE]
<1>0. job[s] \in Job /\ TypeOK /\ job[s].pc = "model" /\ Counting(s)
  BY DEF IInv, TypeOK, CallTool, Counting
<1>1. /\ job' = [job EXCEPT ![s] = j] /\ now' = now /\ uploads' = uploads /\ said' = said
      /\ CommitUsage(job[s])
  BY <1>0 DEF CallTool, TypeOK
<1> HIDE DEF b
<1>2. /\ j.pc = "model" /\ j.base = b /\ j.use = job[s].use /\ j.touched = {}
      /\ j.chars = job[s].chars
  BY <1>0 DEF Job
<1> HIDE DEF j
<1>3. job'[s] = j
  BY <1>0, <1>1 DEF TypeOK
<1>4. \A h \in Hours : UploadedIn(h)' = UploadedIn(h) /\ UploadsIn(h)' = UploadsIn(h)
  BY <1>1 DEF UploadedIn, UploadsIn
<1>5. ASSUME ~staleWrite'
      PROVE  RowIsExact' /\ CountIsOK(s)' /\ ~staleWrite
  <2>1. /\ ~staleWrite /\ Holds(job[s]) /\ job[s].chars = 0 /\ RowIsExact
    BY <1>0, <1>1, <1>5 DEF QuotaInv, CommitUsage, CountIsOK
  <2>2. job[s].use \in Usage /\ job[s].base \in Usage /\ usage \in Usage
    BY <1>0 DEF Job, TypeOK
  <2>3. CASE job[s].touched = {}
    <3>1. \A c \in Columns : Flushed(job[s])[c] = usage[c]
      BY <1>0, <2>3, FlushedType DEF TypeOK
    <3>2. Flushed(job[s]) \in Usage
      BY <1>0, FlushedType DEF TypeOK
    <3>3. Flushed(job[s]) = usage
      BY <2>2, <3>1, <3>2, UsageParts DEF Columns
    <3>4. usage' = usage
      BY <1>1, <3>3 DEF CommitUsage
    <3>5. RowIsExact'
      BY <1>1, <1>4, <2>1, <2>2, <3>4, UsageValues DEF RowIsExact, IsExact, Untouched
    <3>6. b = job[s].base
      BY <2>3 DEF b
    <3> QED
      BY <1>1, <1>2, <1>3, <2>1, <2>3, <3>5, <3>6 DEF CountIsOK, Holds, Since
  <2>4. CASE job[s].touched # {}
    <3>1. job[s].base = usage /\ usage' = job[s].use
      BY <1>0, <1>1, <1>5, <2>1, <2>4, CommitWritesUse DEF Holds
    <3>2. IsExact(job[s].use, 0)
      BY <1>0, <2>1, <2>2, <3>1, SinceIsExact DEF Holds
    <3>3. RowIsExact'
      BY <1>1, <1>4, <2>1, <2>2, <3>1, <3>2, UsageValues DEF RowIsExact, IsExact, Untouched, Holds
    <3>4. b = job[s].use
      BY <1>1, <2>4, <3>1 DEF b, CommitUsage
    <3>5. Since(j.base, j.use, j.chars)
      BY <1>2, <2>1, <2>2, <3>4, UsageValues DEF Since, Holds
    <3>6. /\ job'[s].use = job[s].use /\ job'[s].touched = {} /\ job'[s].base = job[s].use
          /\ job'[s].chars = 0 /\ job'[s].pc = "model"
          /\ Since(job[s].use, job[s].use, 0)
      BY <1>2, <1>3, <2>1, <3>4, <3>5
    <3> QED
      BY <1>1, <2>1, <3>3, <3>6 DEF CountIsOK, Holds, Since
  <2> QED
    BY <2>3, <2>4
<1>6. ~staleWrite' => \A r \in Slots : Counting(r)' => CountIsOK(r)'
  BY <1>1, <1>5, OthersHold DEF QuotaInv
<1> QED
  BY <1>1, <1>4, <1>5, <1>6 DEF QuotaInv

LEMMA ChatQuota ==
    ASSUME IInv, QuotaInv, NEW s \in Slots, Chat(s)
    PROVE  QuotaInv'
<1>0. job[s] \in Job /\ TypeOK /\ JobIsSound(s)
  BY DEF IInv, TypeOK, JobsAreSound
<1>1. ASSUME NEW f \in Taught, OpenChat(s, f) PROVE QuotaInv'
  <2> DEFINE u == Current(usage)
             new == step[f].status = "none"
             read == IF new THEN [NoStep EXCEPT !.status = "active"] ELSE step[f]
  <2>1. usage \in Usage /\ u \in Usage /\ Changed(usage, u) \in SUBSET Columns
    BY <1>0, CurrentType DEF TypeOK, Changed
  <2>2. read \in StepRow /\ new \in BOOLEAN /\ f \in Files
    BY <1>0, <1>1, LimitAssumption DEF TypeOK, StepRow, NoStep, OpenChat
  <2>3. PICK pc \in {"confirm", "evaluate", "model"} :
               job' = [job EXCEPT ![s] =
                  [NoJob EXCEPT !.pc = pc, !.file = f, !.base = usage, !.use = u,
                     !.touched = Changed(usage, u), !.loaded = read, !.opens = new,
                     !.writing = (new \/ ~usage.there) \/ (pc = "model" /\ u # usage)]]
    BY <1>1 DEF OpenChat
  <2> DEFINE w == (new \/ ~usage.there) \/ (pc = "model" /\ u # usage)
             j == [NoJob EXCEPT !.pc = pc, !.file = f, !.base = usage, !.use = u,
                     !.touched = Changed(usage, u), !.loaded = read, !.opens = new,
                     !.writing = w]
  <2> HIDE DEF u, read
  <2>4. w \in BOOLEAN
    OBVIOUS
  <2>5. job' = [job EXCEPT ![s] = j] /\ UNCHANGED <<now, quota, uploads>>
    BY <1>1, <2>3 DEF OpenChat
  <2> HIDE DEF w, new
  <2>6. /\ j \in Job /\ j.pc = pc /\ j.base = usage /\ j.use = u /\ j.touched = Changed(usage, u)
        /\ j.chars = 0
    BY <2>1, <2>2, <2>4, NoJobType DEF NoJob, Job, Pc
  <2> HIDE DEF j
  <2>7. ~staleWrite => Holds(j)
    BY <1>0, <2>6, OpenHolds DEF QuotaInv, u
  <2>8. ~staleWrite /\ job'[s] = j => CountIsOK(s)'
    BY <2>5, <2>6, <2>7 DEF CountIsOK, Holds, Since
  <2> QED
    BY <2>5, <2>8, MoveQuota
<1>2. ASSUME NEW n \in Answers(job[s]), job[s].pc \in {"confirm", "evaluate", "model"}
      PROVE  /\ Consume(job[s], n) \in Job
             /\ ~staleWrite => LET k == Consume(job[s], n) IN
                   Holds(k) /\ k.chars = n /\ k.touched # {} /\ k.use.chars <= CharLimit
  <2>1. Consume(job[s], n) \in Job
    BY <1>0, AnswerLength, ConsumeType DEF TypeOK
  <2>2. ~staleWrite => Holds(job[s]) /\ job[s].chars = 0
    BY <1>2 DEF QuotaInv, Counting, CountIsOK
  <2> QED
    BY <1>0, <2>1, <2>2, ConsumeHolds DEF TypeOK
<1>3. CASE ConfirmInChat(s) \/ EvaluateAnswer(s)
  <2>1. PICK n \in Answers(job[s]) : SayAndCommit(s, Consume(job[s], n))
    BY <1>3 DEF ConfirmInChat, EvaluateAnswer
  <2>2. job[s].pc \in {"confirm", "evaluate"} /\ uploads' = uploads /\ now' = now
    BY <1>3 DEF ConfirmInChat, EvaluateAnswer
  <2> QED
    BY <1>2, <2>1, <2>2, SayQuota
<1>4. CASE Answer(s)
  <2>1. PICK n \in Answers(job[s]) : job' = [job EXCEPT ![s] = [Consume(job[s], n) EXCEPT !.pc = "answered"]]
    BY <1>4 DEF Answer
  <2> DEFINE k == Consume(job[s], n)
             j == [k EXCEPT !.pc = "answered"]
  <2>2. job[s].pc = "model" /\ UNCHANGED <<now, quota, uploads>>
    BY <1>4 DEF Answer
  <2>3. /\ k \in Job
        /\ ~staleWrite => Holds(k) /\ k.chars = n /\ k.touched # {} /\ k.use.chars <= CharLimit
    BY <1>2, <2>2
  <2>4. job' = [job EXCEPT ![s] = j]
    BY <2>1
  <2> HIDE DEF k
  <2>5. /\ j.pc = "answered" /\ j.base = k.base /\ j.use = k.use /\ j.touched = k.touched
        /\ j.chars = k.chars
    BY <2>3 DEF Job
  <2> HIDE DEF j
  <2>6. ~staleWrite => Holds(j) /\ j.touched # {} /\ j.use.chars <= CharLimit
    BY <2>3, <2>5 DEF Holds
  <2>7. ~staleWrite /\ job'[s] = j => CountIsOK(s)'
    BY <2>2, <2>5, <2>6 DEF CountIsOK, Holds, Since
  <2> QED
    BY <2>2, <2>4, <2>7, MoveQuota
<1>5. CASE CommitAnswer(s)
  <2>1. ~staleWrite => Holds(job[s]) /\ job[s].touched # {} /\ job[s].use.chars <= CharLimit
    BY <1>5 DEF CommitAnswer, QuotaInv, Counting, CountIsOK
  <2> QED
    BY <1>0, <1>5, <2>1, SayQuota DEF CommitAnswer
<1>6. CASE FailChat(s)
  BY <1>6, CloseQuota DEF FailChat
<1> QED
  BY <1>1, <1>3, <1>4, <1>5, <1>6, ToolQuota DEF Chat

LEMMA ExamQuota ==
    ASSUME IInv, QuotaInv, NEW s \in Slots, Exam(s)
    PROVE  QuotaInv'
<1>1. ASSUME NEW f \in Taught, OpenExam(s, f) PROVE QuotaInv'
  <2> DEFINE j == [NoJob EXCEPT !.pc = "exam", !.file = f]
  <2>1. job' = [job EXCEPT ![s] = j] /\ j.pc = "exam" /\ UNCHANGED <<now, quota, uploads>>
    BY <1>1 DEF OpenExam, NoJob
  <2> HIDE DEF j
  <2> QED
    BY <2>1, MoveQuota DEF Counting
<1>2. CASE StoreExam(s)
  BY <1>2, CloseQuota DEF StoreExam
<1> QED
  BY <1>1, <1>2 DEF Exam

LEMMA QuotaInit == Init => QuotaInv
<1> SUFFICES ASSUME Init PROVE QuotaInv
  OBVIOUS
<1>1. \A h \in Hours : UploadedIn(h) = {} /\ UploadsIn(h) = 0 /\ said[h] = 0
  BY FS_EmptySet DEF Init, UploadedIn, UploadsIn
<1>2. \A s \in Slots : ~Counting(s)
  BY DEF Init, Counting, NoJob
<1>3. RowIsExact
  BY <1>1 DEF Init, NoUsage, RowIsExact, Untouched
<1> QED
  BY <1>1, <1>2, <1>3, FS_EmptySet, LimitAssumption DEF QuotaInv

LEMMA QuotaNext == IInv /\ QuotaInv /\ [Next]_vars => QuotaInv'
<1> SUFFICES ASSUME IInv, QuotaInv, [Next]_vars PROVE QuotaInv'
  OBVIOUS
<1>0. now \in Hours /\ now \in Nat
  BY LimitAssumption DEF IInv, TypeOK, Hours
<1>1. ASSUME NEW s \in Slots, GiveUp(s) PROVE QuotaInv'
  BY <1>1, CloseQuota DEF GiveUp
<1>2. ASSUME UNCHANGED <<quota, uploads, job>>, now' \in Hours, now <= now' PROVE QuotaInv'
  <2>1. ~staleWrite => \A s \in Slots : Counting(s)' => job'[s] = job[s] /\ CountIsOK(s)
    BY <1>2 DEF QuotaInv, Counting
  <2> QED
    BY <1>2, <2>1, CountStays
<1>3. ASSUME NEW f \in Taught,
             \/ BeginStep(f) \/ CheckStep(f) \/ ConfirmStep(f) \/ SubmitExam(f) \/ PostResult(f)
      PROVE  QuotaInv'
  <2>1. UNCHANGED <<now, quota, uploads, job>>
    BY <1>3 DEF BeginStep, CheckStep, ConfirmStep, SubmitExam, PostResult, RecordResult
  <2> QED
    BY <1>0, <1>2, <2>1
<1>4. CASE Crash
  <2>1. \A s \in Slots : ~Counting(s)'
    BY <1>4 DEF Crash, Counting, NoJob
  <2> QED
    BY <1>0, <1>4, <2>1, CountStays DEF Crash
<1>5. CASE Tick
  <2>1. now' \in Hours /\ now <= now'
    BY <1>0, <1>5, LimitAssumption DEF Tick, Hours
  <2> QED
    BY <1>2, <1>5, <2>1 DEF Tick
<1>6. CASE UNCHANGED vars
  BY <1>0, <1>2, <1>6 DEF vars
<1> QED
  BY <1>1, <1>3, <1>4, <1>5, <1>6, UploadQuota, ChatQuota, ExamQuota DEF Next

\* Unless a request wrote the usage row over a newer version of it, the row counts
\* exactly the uploads and the characters of its window, and no window exceeds a
\* limit: whatever failed, crashed or expired meanwhile.
THEOREM QuotaExact == Spec => []QuotaIsExact
<1>1. Init => IInv /\ QuotaInv
  BY IInvInit, QuotaInit
<1>2. (IInv /\ QuotaInv) /\ [Next]_vars => (IInv /\ QuotaInv)'
  BY IInvNext, QuotaNext
<1>3. IInv /\ QuotaInv => QuotaIsExact
  <2> SUFFICES ASSUME IInv, QuotaInv, ~staleWrite, usage.there
               PROVE  usage.files = UploadsIn(usage.start) /\ usage.chars = said[usage.start]
    BY DEF QuotaInv, QuotaIsExact
  <2>1. said[usage.start] \in Nat
    BY UsageValues DEF IInv, TypeOK
  <2> QED
    BY <2>1 DEF QuotaInv, RowIsExact, IsExact
<1> QED
  BY <1>1, <1>2, <1>3, PTL DEF Spec

-----------------------------------------------------------------------------
(* No two requests hold the usage row at a time.                            *)

\* At most one upload or chat of the student is in progress.
Apart == \A r, s \in Slots : Counting(r) /\ Counting(s) => r = s

\* What a request has loaded of the usage row is what is stored.
Fresh == ~staleWrite /\ \A s \in Slots : Counting(s) => job[s].base = usage

LEMMA OthersKept ==
    ASSUME IInv, NEW s \in Slots, Upload(s) \/ Chat(s) \/ Exam(s) \/ GiveUp(s),
           NEW r \in Slots \ {s}
    PROVE  job'[r] = job[r]
<1>0. TypeOK
  BY DEF IInv
<1>1. CASE Upload(s)
  BY <1>0, <1>1 DEF Upload, CheckQuota, PutObject, FlushRow, CommitUpload, FailUpload, Close, TypeOK
<1>2. CASE Chat(s)
  BY <1>0, <1>2
  DEF Chat, OpenChat, ConfirmInChat, EvaluateAnswer, CallTool, Answer, CommitAnswer, FailChat,
      SayAndCommit, Close, TypeOK
<1>3. CASE Exam(s) \/ GiveUp(s)
  BY <1>0, <1>3 DEF Exam, OpenExam, StoreExam, GiveUp, Close, TypeOK
<1> QED
  BY <1>1, <1>2, <1>3

LEMMA ToolLoads ==
    ASSUME IInv, NEW s \in Slots, CallTool(s)
    PROVE  /\ CommitUsage(job[s]) /\ job[s].pc = "model"
           /\ job'[s].base = IF job[s].touched = {} THEN job[s].base ELSE Flushed(job[s])
<1> DEFINE b == IF job[s].touched = {} THEN job[s].base ELSE Flushed(job[s])
           j == [job[s] EXCEPT !.base = b, !.touched = {}, !.opens = FALSE, !.writing = FALSE]
<1>0. job[s] \in Job /\ TypeOK /\ job[s].pc = "model"
  BY DEF IInv, TypeOK, CallTool
<1>1. job' = [job EXCEPT ![s] = j] /\ CommitUsage(job[s])
  BY <1>0 DEF CallTool, TypeOK
<1> HIDE DEF b
<1>2. j.base = b
  BY <1>0 DEF Job
<1> HIDE DEF j
<1>3. job'[s].base = b
  BY <1>0, <1>1, <1>2 DEF TypeOK
<1> QED
  BY <1>0, <1>1, <1>3 DEF b

\* A tool commits what the request holds and loads what was stored.
LEMMA FreshTool ==
    ASSUME IInv, Apart, Fresh, NEW s \in Slots, CallTool(s)
    PROVE  Fresh'
<1> DEFINE b == IF job[s].touched = {} THEN job[s].base ELSE Flushed(job[s])
<1>1. CommitUsage(job[s]) /\ job[s].pc = "model" /\ job'[s].base = b
  BY ToolLoads
<1>0. job[s] \in Job /\ TypeOK /\ Counting(s)
  BY <1>1 DEF IInv, TypeOK, Counting
<1> HIDE DEF b
<1>3. job'[s].base = b /\ job[s].base = usage /\ ~staleWrite
  BY <1>0, <1>1 DEF Fresh
<1>4. staleWrite' = FALSE /\ usage' = Flushed(job[s])
  BY <1>1, <1>3 DEF CommitUsage
<1>5. job'[s].base = usage'
  <2>1. CASE job[s].touched = {}
    <3>1. \A c \in Columns : Flushed(job[s])[c] = usage[c]
      BY <1>0, <2>1, FlushedType DEF TypeOK
    <3>2. Flushed(job[s]) \in Usage /\ usage \in Usage
      BY <1>0, FlushedType DEF TypeOK
    <3>3. Flushed(job[s]) = usage
      BY <3>1, <3>2, UsageParts DEF Columns
    <3> QED
      BY <1>3, <1>4, <2>1, <3>3 DEF b
  <2>2. CASE job[s].touched # {}
    BY <1>3, <1>4, <2>2 DEF b
  <2> QED
    BY <2>1, <2>2
<1>6. \A r \in Slots \ {s} : job'[r] = job[r] /\ ~Counting(r)
  BY <1>0, OthersKept DEF Apart, Chat
<1> QED
  BY <1>4, <1>5, <1>6 DEF Fresh, Counting

LEMMA FreshRequest ==
    ASSUME IInv, Apart, Fresh, NEW s \in Slots, Upload(s) \/ Chat(s) \/ Exam(s) \/ GiveUp(s)
    PROVE  Fresh'
<1>0. /\ TypeOK /\ job[s] \in Job /\ now \in Hours /\ usage \in Usage
      /\ \A r \in Slots \ {s} : job'[r] = job[r]
  BY OthersKept DEF IInv, TypeOK
<1>1. ASSUME UNCHANGED <<usage, staleWrite>>, Counting(s)' => job'[s].base = usage
      PROVE  Fresh'
  BY <1>0, <1>1 DEF Fresh, Counting
<1>2. ASSUME UNCHANGED <<usage, staleWrite>>, Close(s) PROVE Fresh'
  BY <1>0, <1>1, <1>2 DEF Close, Counting, NoJob, TypeOK
<1>3. ASSUME NEW j \in Job, j.base = job[s].base, CommitUsage(j), Close(s), Counting(s) PROVE Fresh'
  <2>1. staleWrite' = FALSE
    BY <1>3 DEF CommitUsage, Fresh
  <2>2. ~Counting(s)'
    BY <1>0, <1>3 DEF Close, Counting, NoJob, TypeOK
  <2>3. \A r \in Slots \ {s} : ~Counting(r)'
    BY <1>0, <1>3 DEF Apart, Counting
  <2> QED
    BY <2>1, <2>2, <2>3 DEF Fresh
<1>4. CASE Upload(s)
  <2>1. ASSUME NEW f \in Files, CheckQuota(s, f) PROVE Fresh'
    <3>1. job'[s].base = usage
      BY <1>0, <2>1 DEF CheckQuota, TypeOK, NoJob
    <3> QED
      BY <1>1, <2>1, <3>1 DEF CheckQuota, quota
  <2>2. CASE PutObject(s) \/ FlushRow(s)
    <3>1. Close(s) \/ job'[s].base = job[s].base
      BY <1>0, <2>2 DEF PutObject, FlushRow, TypeOK, Job
    <3>2. UNCHANGED <<usage, staleWrite>> /\ Counting(s)
      BY <2>2 DEF PutObject, FlushRow, quota, Counting
    <3> QED
      BY <1>1, <1>2, <3>1, <3>2 DEF Fresh
  <2>3. CASE CommitUpload(s)
    <3>1. Registered(job[s]) \in Job /\ Registered(job[s]).base = job[s].base
      BY <1>0, RegisteredType
    <3>2. CommitUsage(Registered(job[s])) /\ Close(s) /\ Counting(s)
      BY <2>3 DEF CommitUpload, Counting
    <3> QED
      BY <1>3, <3>1, <3>2
  <2>4. CASE FailUpload(s)
    BY <1>2, <2>4 DEF FailUpload, quota
  <2> QED
    BY <1>4, <2>1, <2>2, <2>3, <2>4 DEF Upload
<1>5. CASE Chat(s)
  <2>1. ASSUME NEW f \in Taught, OpenChat(s, f) PROVE Fresh'
    <3>1. job'[s].base = usage
      BY <1>0, <2>1 DEF OpenChat, TypeOK, NoJob
    <3> QED
      BY <1>1, <2>1, <3>1 DEF OpenChat, quota
  <2>2. CASE ConfirmInChat(s) \/ EvaluateAnswer(s)
    <3>1. PICK n \in Answers(job[s]) : SayAndCommit(s, Consume(job[s], n))
      BY <2>2 DEF ConfirmInChat, EvaluateAnswer
    <3>2. Consume(job[s], n) \in Job /\ Consume(job[s], n).base = job[s].base
      BY <1>0, ConsumeType, AnswerLength
    <3>3. CommitUsage(Consume(job[s], n)) /\ Close(s) /\ Counting(s)
      BY <2>2, <3>1 DEF SayAndCommit, ConfirmInChat, EvaluateAnswer, Counting
    <3> QED
      BY <1>3, <3>2, <3>3
  <2>3. CASE CallTool(s)
    BY <2>3, FreshTool
  <2>4. CASE Answer(s)
    <3>1. PICK n \in Answers(job[s]) :
            job' = [job EXCEPT ![s] = [Consume(job[s], n) EXCEPT !.pc = "answered"]]
      BY <2>4 DEF Answer
    <3>2. Consume(job[s], n) \in Job /\ Consume(job[s], n).base = job[s].base
      BY <1>0, ConsumeType, AnswerLength
    <3>3. job'[s].base = job[s].base
      BY <1>0, <3>1, <3>2 DEF TypeOK, Job
    <3>4. Counting(s) /\ UNCHANGED <<usage, staleWrite>>
      BY <2>4 DEF Answer, Counting, quota
    <3> QED
      BY <1>1, <3>3, <3>4 DEF Fresh
  <2>5. CASE CommitAnswer(s)
    BY <1>0, <1>3, <2>5 DEF CommitAnswer, SayAndCommit, Counting
  <2>6. CASE FailChat(s)
    BY <1>2, <2>6 DEF FailChat, quota
  <2> QED
    BY <1>5, <2>1, <2>2, <2>3, <2>4, <2>5, <2>6 DEF Chat
<1>6. CASE Exam(s)
  <2>1. ASSUME NEW f \in Taught, OpenExam(s, f) PROVE Fresh'
    <3>1. job'[s].pc = "exam"
      BY <1>0, <2>1 DEF OpenExam, TypeOK, NoJob
    <3> QED
      BY <1>1, <2>1, <3>1 DEF OpenExam, quota, Counting
  <2>2. CASE StoreExam(s)
    BY <1>2, <2>2 DEF StoreExam, quota
  <2> QED
    BY <1>6, <2>1, <2>2 DEF Exam
<1>7. CASE GiveUp(s)
  BY <1>2, <1>7 DEF GiveUp, quota
<1> QED
  BY <1>4, <1>5, <1>6, <1>7

LEMMA FreshNext == IInv /\ Apart /\ Fresh /\ [Next]_vars => Fresh'
<1> SUFFICES ASSUME IInv, Apart, Fresh, [Next]_vars PROVE Fresh'
  OBVIOUS
<1>1. ASSUME UNCHANGED <<usage, staleWrite, job>> PROVE Fresh'
  BY <1>1 DEF Fresh, Counting
<1>2. ASSUME NEW f \in Taught,
             \/ BeginStep(f) \/ CheckStep(f) \/ ConfirmStep(f) \/ SubmitExam(f) \/ PostResult(f)
      PROVE  Fresh'
  BY <1>1, <1>2 DEF BeginStep, CheckStep, ConfirmStep, SubmitExam, PostResult, RecordResult, quota
<1>3. CASE Crash
  BY <1>3 DEF Crash, quota, Fresh, Counting, NoJob
<1>4. CASE Tick \/ UNCHANGED vars
  BY <1>1, <1>4 DEF Tick, vars, quota
<1> QED
  BY <1>2, <1>3, <1>4, FreshRequest DEF Next

\* If no two uploads or chats of the student overlap, the quota needs no exception:
\* whatever else happens, fails, crashes or expires, no window exceeds a limit and the
\* row counts exactly its window (get_or_create_usage, consume_response_chars).
THEOREM ApartQuota == Spec /\ []Apart => [](QuotaIsExact /\ ~staleWrite)
<1>1. Init => Fresh
  BY DEF Init, Fresh, Counting, NoJob
<1>2. IInv /\ Apart /\ Fresh /\ [Next]_vars => Fresh'
  BY FreshNext
<1>3. Fresh => ~staleWrite
  BY DEF Fresh
<1> QED
  BY <1>1, <1>2, <1>3, Invariance, QuotaExact, PTL DEF Spec

=============================================================================
