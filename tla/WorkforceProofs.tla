--------------------------- MODULE WorkforceProofs ---------------------------
(***************************************************************************)
(* Proofs about Workforce, for any courses, runs, chats and requests: the  *)
(* inductive invariant, that what a tool changed is on record, and that a  *)
(* deactivation of the manager stops its tools.  The second part is about  *)
(* the content of the courses the teachers teach.                          *)
(***************************************************************************)
EXTENDS Workforce, FiniteSetTheorems, TLAPS

-----------------------------------------------------------------------------
(* What every step preserves of what the requests in progress rely on.     *)

\* teachers and runs are never deleted
Advance ==
    /\ \A c \in Courses : teacher[c] # "none" => teacher'[c] # "none"
    /\ \A r \in Runs : run[r].status # "none" => run'[r].status # "none"

\* the step of the request in slot s alone: it keeps its run and its chat, gives
\* them up, or takes free ones
Step(s) ==
    /\ TypeOK' /\ Advance /\ JobIsSound(s)' /\ EffectsAreLogged' /\ UnansweredChatsActed'
    /\ \A x \in Slots \ {s} : job'[x] = job[x]
    /\ \A r \in Runs \ {job[s].run} : run'[r] = run[r]
    /\ \/ job'[s].run \in {job[s].run, NoRun}
       \/ \A x \in Slots : job[x].run # job'[s].run
    /\ \/ job'[s].chat \in {job[s].chat, NoChat}
       \/ \A x \in Slots : job[x].chat # job'[s].chat

LEMMA JobFields ==
    ASSUME TypeOK, NEW s \in Slots
    PROVE  /\ job[s] \in Job /\ job[s].pc \in Pc /\ job[s].tool \in Tools \cup {"none"}
           /\ job[s].run \in Runs \cup {NoRun} /\ job[s].chat \in Chats \cup {NoChat}
           /\ job[s].activates \in BOOLEAN /\ job[s].asked \subseteq Courses
           /\ job[s].todo \subseteq Courses /\ job[s].course \in Courses \cup {NoCourse}
           /\ job[s].writes \in BOOLEAN /\ job[s].to \in Status
BY DEF TypeOK, Job

LEMMA KeptJob ==
    ASSUME RequestsAgree, NEW s \in Slots, Step(s), NEW x \in Slots \ {s}
    PROVE  JobIsSound(x)'
<1>1. JobIsSound(x) /\ job'[x] = job[x] /\ Advance
  BY DEF RequestsAgree, JobsAreSound, Step
<1>2. job[x].run # NoRun => job[x].run # job[s].run
  BY DEF RequestsAgree, HeldOnce
<1>3. job[x].run \in Runs \cup {NoRun} /\ job[x].asked \subseteq Courses
      /\ job[x].course \in Courses \cup {NoCourse} /\ job[x].todo \subseteq Courses
  BY JobFields DEF RequestsAgree
<1>4. job[x].run # NoRun => run'[job[x].run] = run[job[x].run]
  BY <1>2, <1>3 DEF Step
<1> QED
  BY <1>1, <1>3, <1>4 DEF JobIsSound, Advance

LEMMA StepKeeps ==
    ASSUME RequestsAgree, NEW s \in Slots, Step(s)
    PROVE  RequestsAgree'
<1>1. JobsAreSound'
  BY KeptJob DEF Step, JobsAreSound
<1>2. HeldOnce'
  BY DEF Step, RequestsAgree, HeldOnce
<1> QED
  BY <1>1, <1>2 DEF RequestsAgree, Step

\* a step that only changes what the request in slot s knows
LEMMA JobStep ==
    ASSUME RequestsAgree, NEW s \in Slots, UNCHANGED stored, NEW j \in Job,
           job' = [job EXCEPT ![s] = j], JobIsSound(s)',
           j.run \in {job[s].run, NoRun} \/ \A x \in Slots : job[x].run # j.run,
           j.chat \in {job[s].chat, NoChat} \/ \A x \in Slots : job[x].chat # j.chat
    PROVE  RequestsAgree'
<1>1. job'[s] = j /\ \A x \in Slots \ {s} : job'[x] = job[x]
  BY DEF RequestsAgree, TypeOK
<1>2. TypeOK' /\ Advance
  BY DEF RequestsAgree, TypeOK, Advance, stored
<1>3. EffectsAreLogged' /\ UnansweredChatsActed'
  BY DEF RequestsAgree, EffectsAreLogged, UnansweredChatsActed, stored
<1> QED
  BY <1>1, <1>2, <1>3, StepKeeps DEF Step, stored

LEMMA IdleJob ==
    /\ NoJob \in Job /\ NoJob.pc = "idle" /\ NoJob.run = NoRun /\ NoJob.chat = NoChat
    /\ NoJob.tool = "none"
BY DEF NoJob, Job, Pc, Status, Tools

LEMMA IdleIsSound ==
    ASSUME NEW s \in Slots, job'[s] = NoJob
    PROVE  JobIsSound(s)'
BY IdleJob DEF JobIsSound

LEMMA FailKeeps ==
    ASSUME RequestsAgree, NEW s \in Slots, Fail(s)
    PROVE  RequestsAgree'
<1>1. job' = [job EXCEPT ![s] = NoJob] /\ job'[s] = NoJob /\ UNCHANGED stored
  BY DEF Fail, Close, RequestsAgree, TypeOK
<1> QED
  BY <1>1, IdleJob, IdleIsSound, JobStep

\* a request that ends and has stored something
LEMMA CloseKeeps ==
    ASSUME RequestsAgree, NEW s \in Slots, Close(s),
           job' \in [Slots -> Job] => TypeOK',
           Advance, EffectsAreLogged', UnansweredChatsActed', run' = run
    PROVE  RequestsAgree'
<1>1. /\ job' \in [Slots -> Job] /\ job'[s] = NoJob
      /\ \A x \in Slots \ {s} : job'[x] = job[x]
  BY IdleJob DEF Close, RequestsAgree, TypeOK
<1> QED
  BY <1>1, IdleJob, IdleIsSound, StepKeeps DEF Step

LEMMA OverrunCounted ==
    ASSUME TypeOK, NEW s \in Slots, NEW made \in {0, 1}, CountOverrun(s, made)
    PROVE  overrun' \in [Slots -> Nat]
BY DEF TypeOK, CountOverrun

-----------------------------------------------------------------------------
(* The manager agent                                                       *)

LEMMA LoadMainKeeps ==
    ASSUME RequestsAgree, NEW s \in Slots, LoadMain(s)
    PROVE  RequestsAgree'
<1> DEFINE j == [NoJob EXCEPT !.pc = "bootstrap"]
<1>1. /\ j \in Job /\ j.pc = "bootstrap" /\ j.run = NoRun /\ j.chat = NoChat
      /\ j.tool = "none"
  BY IdleJob DEF NoJob, Job, Pc
<1>2. job' = [job EXCEPT ![s] = j] /\ job'[s] = j /\ UNCHANGED stored
  BY DEF LoadMain, RequestsAgree, TypeOK
<1> HIDE DEF j
<1>3. JobIsSound(s)'
  BY <1>1, <1>2 DEF JobIsSound
<1> QED
  BY <1>1, <1>2, <1>3, JobStep

LEMMA CommitMainKeeps ==
    ASSUME RequestsAgree, NEW s \in Slots, CommitMain(s)
    PROVE  RequestsAgree'
<1>1. Close(s) /\ UNCHANGED <<teacher, madeBy, announced, run, chat>>
      /\ overrun' \in [Slots -> Nat] /\ manager' \in Status \ {"archived"}
  BY DEF CommitMain, RequestsAgree, TypeOK, Status
<1> QED
  BY <1>1, CloseKeeps
  DEF RequestsAgree, TypeOK, Advance, EffectsAreLogged, UnansweredChatsActed

LEMMA ManagerLoadsKeeps ==
    ASSUME RequestsAgree, NEW s \in Slots, NEW to \in Status, ManagerLoads(s, to)
    PROVE  RequestsAgree'
<1> DEFINE j == [NoJob EXCEPT !.pc = "manager_status", !.to = to]
<1>1. /\ j \in Job /\ j.pc = "manager_status" /\ j.run = NoRun /\ j.chat = NoChat
      /\ j.tool = "none" /\ j.to = to
  BY IdleJob DEF NoJob, Job, Pc, RequestsAgree, TypeOK
<1>2. /\ job' = [job EXCEPT ![s] = j] /\ job'[s] = j /\ UNCHANGED stored
      /\ to \in {"draft", "active"}
  BY DEF ManagerLoads, RequestsAgree, TypeOK
<1> HIDE DEF j
<1>3. JobIsSound(s)'
  BY <1>1, <1>2 DEF JobIsSound
<1> QED
  BY <1>1, <1>2, <1>3, JobStep

LEMMA CommitManagerStatusKeeps ==
    ASSUME RequestsAgree, NEW s \in Slots, CommitManagerStatus(s)
    PROVE  RequestsAgree'
<1>1. Close(s) /\ UNCHANGED <<teacher, madeBy, announced, run, chat>>
      /\ overrun' \in [Slots -> Nat] /\ manager' \in Status \ {"archived"}
  BY OverrunCounted DEF CommitManagerStatus, RequestsAgree, TypeOK, Status, JobsAreSound,
     JobIsSound
<1> QED
  BY <1>1, CloseKeeps
  DEF RequestsAgree, TypeOK, Advance, EffectsAreLogged, UnansweredChatsActed

-----------------------------------------------------------------------------
(* The owner's chat                                                        *)

LEMMA OpenChatKeeps ==
    ASSUME RequestsAgree, NEW s \in Slots, NEW k \in Chats, OpenChat(s, k)
    PROVE  RequestsAgree'
<1> DEFINE j == [NoJob EXCEPT !.pc = "chat", !.chat = k, !.activates = manager # "active"]
<1>1. /\ j \in Job /\ j.pc = "chat" /\ j.run = NoRun /\ j.chat = k /\ j.tool = "none"
  BY IdleJob DEF NoJob, Job, Pc
<1>2. /\ job' = [job EXCEPT ![s] = j] /\ job'[s] = j /\ UNCHANGED stored
      /\ \A x \in Slots : job[x].chat # k
  BY DEF OpenChat, RequestsAgree, TypeOK
<1> HIDE DEF j
<1>3. JobIsSound(s)'
  BY <1>1, <1>2, NoneAssumption DEF JobIsSound
<1> QED
  BY <1>1, <1>2, <1>3, JobStep

LEMMA EndChatKeeps ==
    ASSUME RequestsAgree, NEW s \in Slots, EndChat(s)
    PROVE  RequestsAgree'
<1>1. /\ Close(s) /\ UNCHANGED <<teacher, madeBy, announced, run>>
      /\ \E answer \in {"answered", "empty"} : StoreChat(s, answer)
      /\ overrun' \in [Slots -> Nat]
  BY OverrunCounted DEF EndChat, RequestsAgree
<1>2. job[s].chat \in Chats \cup {NoChat}
  BY JobFields DEF RequestsAgree
<1>3. manager' \in Status \ {"archived"} /\ chat' \in [Chats -> {"none", "asked", "answered", "empty"}]
      /\ \A k \in Chats : chat'[k] = "asked" => chat[k] = "asked"
  BY <1>1, <1>2 DEF StoreChat, RequestsAgree, TypeOK, Status
<1> QED
  BY <1>1, <1>3, CloseKeeps
  DEF RequestsAgree, TypeOK, Advance, EffectsAreLogged, UnansweredChatsActed

-----------------------------------------------------------------------------
(* Tool runs                                                               *)

LEMMA BeginToolKeeps ==
    ASSUME RequestsAgree, NEW s \in Slots, NEW r \in Runs, NEW tool \in Tools,
           NEW courses \in SUBSET Courses, NEW to \in Status,
           tool = "set_status" => to # "none", BeginTool(s, r, tool, courses, to)
    PROVE  RequestsAgree'
<1> DEFINE j == [job[s] EXCEPT !.pc = "handler", !.tool = tool, !.run = r, !.to = to,
                               !.asked = courses, !.todo = courses]
<1>1. job[s] \in Job /\ \A x \in Slots : job[x].run # r
  BY JobFields DEF RequestsAgree, BeginTool, Free
<1>2. /\ j \in Job /\ j.pc = "handler" /\ j.run = r /\ j.chat = job[s].chat
      /\ j.tool = tool /\ j.to = to /\ j.asked = courses /\ j.todo = courses
  BY <1>1 DEF Job, Pc
<1>3. job' = [job EXCEPT ![s] = j] /\ UNCHANGED stored /\ run[r].status = "none"
  BY DEF BeginTool, Free
<1>4. job'[s] = j
  BY <1>3 DEF RequestsAgree, TypeOK
<1> HIDE DEF j
<1>5. JobIsSound(s)'
  <2>1. r # NoRun /\ tool # "none" /\ run' = run
    BY <1>3, NoneAssumption DEF Tools, stored
  <2> QED
    BY <1>2, <1>3, <1>4, <2>1 DEF JobIsSound
<1> QED
  BY <1>1, <1>2, <1>3, <1>5, JobStep

LEMMA BeginDirectKeeps ==
    ASSUME RequestsAgree, NEW s \in Slots, NEW tool \in Tools, NEW c \in Courses,
           NEW to \in Status, tool = "set_status" => to # "none",
           BeginDirect(s, tool, c, to)
    PROVE  RequestsAgree'
<1> DEFINE j == [NoJob EXCEPT !.pc = "handler", !.tool = tool, !.to = to,
                              !.asked = {c}, !.todo = {c}]
<1>1. /\ j \in Job /\ j.pc = "handler" /\ j.run = NoRun /\ j.chat = NoChat
      /\ j.tool = tool /\ j.to = to /\ j.asked = {c} /\ j.todo = {c}
  BY IdleJob DEF NoJob, Job, Pc
<1>2. job' = [job EXCEPT ![s] = j] /\ job'[s] = j /\ UNCHANGED stored /\ tool # "none"
  BY DEF BeginDirect, RequestsAgree, TypeOK
<1> HIDE DEF j
<1>3. JobIsSound(s)'
  BY <1>1, <1>2 DEF JobIsSound
<1> QED
  BY <1>1, <1>2, <1>3, JobStep

LEMMA LookUpKeeps ==
    ASSUME RequestsAgree, NEW s \in Slots, NEW c \in Courses, LookUp(s, c)
    PROVE  RequestsAgree'
<1>1. CASE Fail(s)
  BY <1>1, FailKeeps
<1>2. CASE /\ ~(job[s].tool = "set_status" /\ teacher[c] \in {"none", "archived"})
           /\ job' = [job EXCEPT ![s].pc = "write", ![s].course = c,
                                 ![s].writes = ToWrite(s, c)]
           /\ UNCHANGED stored
  <2> DEFINE j == [job[s] EXCEPT !.pc = "write", !.course = c, !.writes = ToWrite(s, c)]
  <2>1. job[s] \in Job /\ JobIsSound(s) /\ ToWrite(s, c) \in BOOLEAN
    BY JobFields DEF RequestsAgree, JobsAreSound, TypeOK, ToWrite
  <2>2. /\ j \in Job /\ j.pc = "write" /\ j.run = job[s].run /\ j.chat = job[s].chat
        /\ j.tool = job[s].tool /\ j.to = job[s].to /\ j.asked = job[s].asked
        /\ j.todo = job[s].todo /\ j.course = c /\ j.writes = ToWrite(s, c)
    BY <2>1 DEF Job, Pc
  <2>3. /\ job' = [job EXCEPT ![s] = j] /\ job'[s] = j
        /\ job[s].pc = "handler" /\ job[s].tool # "delegate" /\ c \in job[s].todo
    BY <1>2 DEF LookUp, RequestsAgree, TypeOK
  <2> HIDE DEF j
  <2>4. JobIsSound(s)'
    BY <1>2, <2>1, <2>2, <2>3 DEF JobIsSound, stored, ToWrite
  <2> QED
    BY <1>2, <2>2, <2>3, <2>4, JobStep
<1> QED
  BY <1>1, <1>2 DEF LookUp

LEMMA FlushCourseKeeps ==
    ASSUME RequestsAgree, NEW s \in Slots, FlushCourse(s)
    PROVE  RequestsAgree'
<1> DEFINE j == [job[s] EXCEPT !.pc = "commit"]
<1>1. job[s] \in Job /\ JobIsSound(s)
  BY JobFields DEF RequestsAgree, JobsAreSound
<1>2. /\ j \in Job /\ j.pc = "commit" /\ j.run = job[s].run /\ j.chat = job[s].chat
      /\ j.tool = job[s].tool /\ j.to = job[s].to /\ j.asked = job[s].asked
      /\ j.todo = job[s].todo /\ j.course = job[s].course /\ j.writes = job[s].writes
  BY <1>1 DEF Job, Pc
<1>3. job' = [job EXCEPT ![s] = j] /\ UNCHANGED stored /\ job[s].pc = "write"
  BY DEF FlushCourse
<1>4. job'[s] = j
  BY <1>3 DEF RequestsAgree, TypeOK
<1> HIDE DEF j
<1>5. JobIsSound(s)'
  BY <1>1, <1>2, <1>3, <1>4 DEF JobIsSound, stored
<1> QED
  BY <1>2, <1>3, <1>5, JobStep

\* what WriteTeacher makes of the teachers
LEMMA WrittenTeacher ==
    ASSUME RequestsAgree, NEW s \in Slots, job[s].pc = "commit", WriteTeacher(s, job[s].course)
    PROVE  /\ job[s].course \in Courses
           /\ teacher' \in [Courses -> Status] /\ madeBy' \in [Courses -> Runs \cup {NoRun}]
           /\ announced' \in [Courses -> BOOLEAN]
           /\ \A c \in Courses : teacher[c] # "none" => teacher'[c] # "none"
           /\ teacher'[job[s].course] # "none"
           /\ \A c \in Courses :
                \/ madeBy'[c] = madeBy[c] /\ (announced[c] => announced'[c])
                \/ madeBy'[c] = job[s].run /\ announced'[c] /\ teacher'[c] # "none"
<1> DEFINE c == job[s].course
<1>1. JobIsSound(s) /\ TypeOK /\ job[s].to \in Status /\ job[s].todo \subseteq Courses
      /\ job[s].tool \in Tools \cup {"none"} /\ job[s].run \in Runs \cup {NoRun}
      /\ job[s].writes \in BOOLEAN
  BY JobFields DEF RequestsAgree, JobsAreSound
<1>2. c \in Courses /\ job[s].tool \in {"provision", "set_status"}
  BY <1>1 DEF JobIsSound, Tools
<1>3. CASE Creates(s)
  BY <1>1, <1>2, <1>3 DEF WriteTeacher, TypeOK, Status
<1>4. CASE ~Creates(s)
  BY <1>1, <1>2, <1>4 DEF WriteTeacher, TypeOK, JobIsSound, Creates
<1> QED
  BY <1>3, <1>4

LEMMA CommitCourseKeeps ==
    ASSUME RequestsAgree, NEW s \in Slots, CommitCourse(s)
    PROVE  RequestsAgree'
<1> DEFINE c == job[s].course
           r == job[s].run
           j == [job[s] EXCEPT !.pc = "handler", !.activates = FALSE,
                               !.todo = @ \ {c}, !.course = NoCourse, !.writes = FALSE]
<1>1. /\ job[s].pc = "commit" /\ WriteTeacher(s, c) /\ StoreChat(s, "asked")
      /\ StoreRun(s, "running") /\ job' = [job EXCEPT ![s] = j]
      /\ overrun' \in [Slots -> Nat]
  BY OverrunCounted DEF CommitCourse, RequestsAgree
<1>2. /\ job[s] \in Job /\ JobIsSound(s) /\ r \in Runs \cup {NoRun}
      /\ job[s].chat \in Chats \cup {NoChat}
      /\ r = NoRun => job[s].chat = NoChat
  BY <1>1, JobFields, NoneAssumption DEF RequestsAgree, JobsAreSound, JobIsSound
<1>3. /\ j \in Job /\ j.pc = "handler" /\ j.run = r /\ j.chat = job[s].chat
      /\ j.tool = job[s].tool /\ j.to = job[s].to /\ j.asked = job[s].asked
      /\ j.todo = job[s].todo \ {c}
  BY <1>2 DEF Job, Pc
<1>4. job'[s] = j /\ \A x \in Slots \ {s} : job'[x] = job[x]
  BY <1>1 DEF RequestsAgree, TypeOK
<1> HIDE DEF j
<1>5. /\ run' \in [Runs -> [status : {"none", "running", "completed"}, chat : Chats \cup {NoChat}]]
      /\ r \in Runs => run'[r].status = "running" /\ run'[r].chat = job[s].chat
      /\ \A q \in Runs \ {r} : run'[q] = run[q]
  BY <1>1, <1>2, NoneAssumption DEF StoreRun, RequestsAgree, TypeOK
<1>6. TypeOK'
  BY <1>1, <1>2, <1>3, <1>5, WrittenTeacher DEF RequestsAgree, TypeOK, StoreChat, Status
<1>7. Advance
  BY <1>1, <1>2, <1>5, WrittenTeacher DEF Advance, RequestsAgree, TypeOK
<1>8. JobIsSound(s)'
  <2>1. \A d \in job[s].asked : teacher'[d] # "none" \/ d \in job[s].todo \ {c}
                                \/ job[s].tool # "provision"
    BY <1>1, <1>2, WrittenTeacher DEF JobIsSound, Job
  <2> QED
    BY <1>1, <1>2, <1>3, <1>4, <1>5, <2>1 DEF JobIsSound
<1>9. EffectsAreLogged'
  <2> SUFFICES ASSUME NEW d \in Courses, madeBy'[d] # NoRun
               PROVE  run'[madeBy'[d]].status # "none" /\ announced'[d] /\ teacher'[d] # "none"
    BY DEF EffectsAreLogged
  <2>1. CASE madeBy'[d] = madeBy[d] /\ (announced[d] => announced'[d])
    <3>1. /\ madeBy[d] \in Runs /\ run[madeBy[d]].status # "none" /\ announced[d]
          /\ teacher[d] # "none"
      BY <2>1 DEF RequestsAgree, TypeOK, EffectsAreLogged
    <3> QED
      BY <1>7, <2>1, <3>1 DEF Advance
  <2>2. CASE madeBy'[d] = r /\ announced'[d] /\ teacher'[d] # "none"
    BY <1>2, <1>5, <2>2
  <2> QED
    BY <1>1, <1>2, <2>1, <2>2, WrittenTeacher
<1>10. UnansweredChatsActed'
  <2> SUFFICES ASSUME NEW k \in Chats, chat'[k] = "asked"
               PROVE  \E q \in Runs : run'[q].status # "none" /\ run'[q].chat = k
    BY DEF UnansweredChatsActed
  <2>1. CASE k = job[s].chat
    BY <1>2, <1>5, <2>1, NoneAssumption
  <2>2. CASE k # job[s].chat
    <3>1. chat[k] = "asked"
      BY <1>1, <1>2, <2>2 DEF StoreChat, RequestsAgree, TypeOK
    <3>2. PICK q \in Runs : run[q].status # "none" /\ run[q].chat = k
      BY <3>1 DEF RequestsAgree, UnansweredChatsActed
    <3>3. q # r
      BY <1>2, <2>2, <3>2, NoneAssumption DEF JobIsSound
    <3> QED
      BY <1>5, <3>2, <3>3
  <2> QED
    BY <2>1, <2>2
<1>11. \A q \in Runs \ {r} : run'[q] = run[q]
  BY <1>5
<1> QED
  BY <1>3, <1>4, <1>6, <1>7, <1>8, <1>9, <1>10, <1>11, StepKeeps DEF Step

LEMMA FinishToolKeeps ==
    ASSUME RequestsAgree, NEW s \in Slots, FinishTool(s)
    PROVE  RequestsAgree'
<1> DEFINE r == job[s].run
           j == [NoJob EXCEPT !.pc = "reply", !.tool = job[s].tool, !.run = r,
                            !.chat = job[s].chat, !.asked = job[s].asked]
<1>1. /\ job[s].pc = "handler" /\ job[s].todo = {} /\ StoreChat(s, "asked")
      /\ StoreRun(s, "completed") /\ job' = [job EXCEPT ![s] = j]
      /\ UNCHANGED <<teacher, madeBy, announced>> /\ overrun' \in [Slots -> Nat]
  BY OverrunCounted DEF FinishTool, RequestsAgree
<1>2. /\ job[s] \in Job /\ JobIsSound(s) /\ r \in Runs \cup {NoRun}
      /\ job[s].chat \in Chats \cup {NoChat}
      /\ r = NoRun => job[s].chat = NoChat
  BY <1>1, JobFields, NoneAssumption DEF RequestsAgree, JobsAreSound, JobIsSound
<1>3. /\ j \in Job /\ j.pc = "reply" /\ j.run = r /\ j.chat = job[s].chat
      /\ j.tool = job[s].tool /\ j.asked = job[s].asked /\ j.todo = {}
  BY <1>1, <1>2 DEF NoJob, Job, Pc, Status
<1>4. job'[s] = j /\ \A x \in Slots \ {s} : job'[x] = job[x]
  BY <1>1 DEF RequestsAgree, TypeOK
<1> HIDE DEF j
<1>5. /\ run' \in [Runs -> [status : {"none", "running", "completed"}, chat : Chats \cup {NoChat}]]
      /\ r \in Runs => run'[r].status = "completed" /\ run'[r].chat = job[s].chat
      /\ \A q \in Runs \ {r} : run'[q] = run[q]
  BY <1>1, <1>2, NoneAssumption DEF StoreRun, RequestsAgree, TypeOK
<1>6. TypeOK'
  BY <1>1, <1>2, <1>3, <1>5 DEF RequestsAgree, TypeOK, StoreChat, Status
<1>7. Advance
  BY <1>1, <1>2, <1>5 DEF Advance, RequestsAgree, TypeOK
<1>8. JobIsSound(s)'
  BY <1>1, <1>2, <1>3, <1>4, <1>5 DEF JobIsSound
<1>9. EffectsAreLogged'
  BY <1>1, <1>7 DEF RequestsAgree, TypeOK, EffectsAreLogged, Advance
<1>10. UnansweredChatsActed'
  <2> SUFFICES ASSUME NEW k \in Chats, chat'[k] = "asked"
               PROVE  \E q \in Runs : run'[q].status # "none" /\ run'[q].chat = k
    BY DEF UnansweredChatsActed
  <2>1. CASE k = job[s].chat
    BY <1>2, <1>5, <2>1, NoneAssumption
  <2>2. CASE k # job[s].chat
    <3>1. chat[k] = "asked"
      BY <1>1, <1>2, <2>2 DEF StoreChat, RequestsAgree, TypeOK
    <3>2. PICK q \in Runs : run[q].status # "none" /\ run[q].chat = k
      BY <3>1 DEF RequestsAgree, UnansweredChatsActed
    <3>3. q # r
      BY <1>2, <2>2, <3>2, NoneAssumption DEF JobIsSound
    <3> QED
      BY <1>5, <3>2, <3>3
  <2> QED
    BY <2>1, <2>2
<1>11. \A q \in Runs \ {r} : run'[q] = run[q]
  BY <1>5
<1> QED
  BY <1>3, <1>4, <1>6, <1>7, <1>8, <1>9, <1>10, <1>11, StepKeeps DEF Step

LEMMA ReplyKeeps ==
    ASSUME RequestsAgree, NEW s \in Slots, Reply(s)
    PROVE  RequestsAgree'
<1>1. CASE job[s].chat = NoChat
  <2>1. job' = [job EXCEPT ![s] = NoJob] /\ job'[s] = NoJob /\ UNCHANGED stored
    BY <1>1 DEF Reply, RequestsAgree, TypeOK
  <2> QED
    BY <2>1, IdleJob, IdleIsSound, JobStep
<1>2. CASE job[s].chat # NoChat
  <2> DEFINE j == [NoJob EXCEPT !.pc = "chat", !.chat = job[s].chat]
  <2>1. job[s].chat \in Chats \cup {NoChat}
    BY JobFields DEF RequestsAgree
  <2>2. /\ j \in Job /\ j.pc = "chat" /\ j.run = NoRun /\ j.chat = job[s].chat
        /\ j.tool = "none"
    BY <2>1, IdleJob DEF NoJob, Job, Pc
  <2>3. job' = [job EXCEPT ![s] = j] /\ job'[s] = j /\ UNCHANGED stored
    BY <1>2 DEF Reply, RequestsAgree, TypeOK
  <2> HIDE DEF j
  <2>4. JobIsSound(s)'
    BY <1>2, <2>2, <2>3 DEF JobIsSound
  <2> QED
    BY <2>2, <2>3, <2>4, JobStep
<1> QED
  BY <1>1, <1>2

-----------------------------------------------------------------------------
(* Administration of the teachers                                          *)

LEMMA LoadBatchKeeps ==
    ASSUME RequestsAgree, NEW s \in Slots, NEW courses \in SUBSET Courses, LoadBatch(s, courses)
    PROVE  RequestsAgree'
<1> DEFINE j == [NoJob EXCEPT !.pc = "batch", !.todo = courses]
<1>1. j \in Job /\ j.pc = "batch" /\ j.run = NoRun /\ j.chat = NoChat /\ j.tool = "none"
  BY IdleJob DEF NoJob, Job, Pc
<1>2. job' = [job EXCEPT ![s] = j] /\ job'[s] = j /\ UNCHANGED stored
  BY DEF LoadBatch, RequestsAgree, TypeOK
<1> HIDE DEF j
<1>3. JobIsSound(s)'
  BY <1>1, <1>2 DEF JobIsSound
<1> QED
  BY <1>1, <1>2, <1>3, JobStep

LEMMA CommitBatchKeeps ==
    ASSUME RequestsAgree, NEW s \in Slots, CommitBatch(s)
    PROVE  RequestsAgree'
<1>1. /\ Close(s) /\ UNCHANGED <<manager, madeBy, announced, run, chat, overrun>>
      /\ teacher' \in [Courses -> Status]
      /\ \A c \in Courses : teacher[c] # "none" => teacher'[c] # "none"
  BY DEF CommitBatch, RequestsAgree, TypeOK, Status
<1> QED
  BY <1>1, CloseKeeps
  DEF RequestsAgree, TypeOK, Advance, EffectsAreLogged, UnansweredChatsActed

LEMMA LoadTeacherKeeps ==
    ASSUME RequestsAgree, NEW s \in Slots, NEW c \in Courses, NEW to \in Status,
           LoadTeacher(s, c, to)
    PROVE  RequestsAgree'
<1> DEFINE j == [NoJob EXCEPT !.pc = "admin_status", !.course = c, !.to = to]
<1>1. /\ j \in Job /\ j.pc = "admin_status" /\ j.run = NoRun /\ j.chat = NoChat
      /\ j.tool = "none" /\ j.course = c /\ j.to = to
  BY IdleJob DEF NoJob, Job, Pc, RequestsAgree, TypeOK
<1>2. /\ job' = [job EXCEPT ![s] = j] /\ job'[s] = j /\ UNCHANGED stored
      /\ teacher[c] # "none" /\ to # "none" /\ c # NoCourse
  BY NoneAssumption DEF LoadTeacher, RequestsAgree, TypeOK
<1> HIDE DEF j
<1>3. JobIsSound(s)'
  BY <1>1, <1>2 DEF JobIsSound, stored
<1> QED
  BY <1>1, <1>2, <1>3, JobStep

LEMMA CommitTeacherStatusKeeps ==
    ASSUME RequestsAgree, NEW s \in Slots, CommitTeacherStatus(s)
    PROVE  RequestsAgree'
<1>1. job[s].to \in Status /\ job[s].to # "none" /\ job[s].pc = "admin_status"
  BY JobFields DEF CommitTeacherStatus, RequestsAgree, JobsAreSound, JobIsSound
<1>2. /\ Close(s) /\ UNCHANGED <<manager, madeBy, announced, run, chat, overrun>>
      /\ teacher' \in [Courses -> Status]
      /\ \A c \in Courses : teacher[c] # "none" => teacher'[c] # "none"
  BY <1>1 DEF CommitTeacherStatus, RequestsAgree, TypeOK
<1> QED
  BY <1>2, CloseKeeps
  DEF RequestsAgree, TypeOK, Advance, EffectsAreLogged, UnansweredChatsActed

-----------------------------------------------------------------------------
(* The invariant                                                           *)

LEMMA InitHolds ==
    Init => IInv
<1> SUFFICES ASSUME Init PROVE IInv
  OBVIOUS
<1>0. OverrunIsPast
  BY DEF Init, OverrunIsPast
<1>1. TypeOK
  BY IdleJob DEF Init, TypeOK, Status
<1>2. \A s \in Slots : job[s] = NoJob
  BY DEF Init
<1>3. JobsAreSound /\ HeldOnce
  BY <1>2, IdleJob DEF JobsAreSound, JobIsSound, HeldOnce
<1>4. EffectsAreLogged /\ UnansweredChatsActed
  BY DEF Init, EffectsAreLogged, UnansweredChatsActed
<1> QED
  BY <1>0, <1>1, <1>3, <1>4 DEF IInv, RequestsAgree

LEMMA AgreementHolds ==
    RequestsAgree /\ [Next]_vars => RequestsAgree'
<1> SUFFICES ASSUME RequestsAgree, [Next]_vars PROVE RequestsAgree'
  OBVIOUS
<1>1. CASE UNCHANGED vars
  BY <1>1 DEF vars, RequestsAgree, TypeOK, JobsAreSound, JobIsSound, HeldOnce, EffectsAreLogged,
              UnansweredChatsActed
<1>2. CASE Next
  <2> PICK s \in Slots :
        \/ LoadMain(s) \/ CommitMain(s) \/ CommitManagerStatus(s)
        \/ \E to \in Status : ManagerLoads(s, to)
        \/ \E k \in Chats : OpenChat(s, k)
        \/ EndChat(s) \/ FailChat(s)
        \/ \E r \in Runs, tool \in Tools, courses \in SUBSET Courses :
              \E to \in IF tool = "set_status" THEN Status \ {"none"} ELSE {"none"} :
                BeginTool(s, r, tool, courses, to)
        \/ Delegate(s)
        \/ \E c \in Courses : LookUp(s, c)
        \/ \E tool \in Tools, c \in Courses :
              \E to \in IF tool = "set_status" THEN Status \ {"none"} ELSE {"none"} :
                BeginDirect(s, tool, c, to)
        \/ FlushCourse(s) \/ FailCourse(s) \/ CommitCourse(s)
        \/ FinishTool(s) \/ Reply(s)
        \/ \E courses \in SUBSET Courses : LoadBatch(s, courses)
        \/ CommitBatch(s)
        \/ \E c \in Courses, to \in Status : LoadTeacher(s, c, to)
        \/ CommitTeacherStatus(s) \/ Crash(s)
    BY <1>2 DEF Next
  <2>1. CASE \E to \in Status : ManagerLoads(s, to)
    BY <2>1, ManagerLoadsKeeps
  <2>2. CASE \E k \in Chats : OpenChat(s, k)
    BY <2>2, OpenChatKeeps
  <2>3. CASE \E r \in Runs, tool \in Tools, courses \in SUBSET Courses :
                \E to \in IF tool = "set_status" THEN Status \ {"none"} ELSE {"none"} :
                  BeginTool(s, r, tool, courses, to)
    <3>1. PICK r \in Runs, tool \in Tools, courses \in SUBSET Courses :
                \E to \in IF tool = "set_status" THEN Status \ {"none"} ELSE {"none"} :
                  BeginTool(s, r, tool, courses, to)
      BY <2>3
    <3>2. PICK to \in Status : /\ tool = "set_status" => to # "none"
                               /\ BeginTool(s, r, tool, courses, to)
      BY <3>1 DEF Status
    <3> QED
      BY <3>2, BeginToolKeeps
  <2>8. CASE \E tool \in Tools, c \in Courses :
                \E to \in IF tool = "set_status" THEN Status \ {"none"} ELSE {"none"} :
                  BeginDirect(s, tool, c, to)
    <3>1. PICK tool \in Tools, c \in Courses :
                \E to \in IF tool = "set_status" THEN Status \ {"none"} ELSE {"none"} :
                  BeginDirect(s, tool, c, to)
      BY <2>8
    <3>2. PICK to \in Status : /\ tool = "set_status" => to # "none"
                               /\ BeginDirect(s, tool, c, to)
      BY <3>1 DEF Status
    <3> QED
      BY <3>2, BeginDirectKeeps
  <2>4. CASE \E c \in Courses : LookUp(s, c)
    BY <2>4, LookUpKeeps
  <2>5. CASE \E courses \in SUBSET Courses : LoadBatch(s, courses)
    BY <2>5, LoadBatchKeeps
  <2>6. CASE \E c \in Courses, to \in Status : LoadTeacher(s, c, to)
    BY <2>6, LoadTeacherKeeps
  <2>7. CASE FailChat(s) \/ Delegate(s) \/ FailCourse(s) \/ Crash(s)
    BY <2>7, FailKeeps DEF FailChat, Delegate, FailCourse, Crash
  <2> QED
    BY <2>1, <2>2, <2>3, <2>4, <2>5, <2>6, <2>7, <2>8, LoadMainKeeps, CommitMainKeeps,
       CommitManagerStatusKeeps, EndChatKeeps, FlushCourseKeeps,
       CommitCourseKeeps, FinishToolKeeps,
       ReplyKeeps, CommitBatchKeeps, CommitTeacherStatusKeeps
<1> QED
  BY <1>1, <1>2

\* a step that does not touch the manager, and whose request is not left at its commit
LEMMA OverrunStays ==
    ASSUME RequestsAgree, OverrunIsPast, NEW s \in Slots, UNCHANGED <<manager, overrun>>,
           \A x \in Slots \ {s} : job'[x] = job[x], job'[s].pc # "commit"
    PROVE  OverrunIsPast'
BY DEF OverrunIsPast, Creates

\* a commit that creates no teacher
LEMMA OverrunCleared ==
    ASSUME RequestsAgree, OverrunIsPast, NEW s \in Slots, CountOverrun(s, 0),
           \A x \in Slots \ {s} : job'[x] = job[x], job'[s].pc # "commit"
    PROVE  OverrunIsPast'
BY DEF RequestsAgree, TypeOK, OverrunIsPast, CountOverrun, Creates

\* The look-up succeeds only where nothing has been overrun yet, or where the commit
\* activates the manager.
LEMMA FlushNotPast ==
    ASSUME RequestsAgree, OverrunIsPast, NEW s \in Slots, FlushCourse(s)
    PROVE  OverrunIsPast'
<1>1. /\ \A x \in Slots : job'[x] = IF x = s THEN [job[s] EXCEPT !.pc = "commit"] ELSE job[x]
      /\ UNCHANGED <<manager, overrun>> /\ ManagerActs(s)
  BY DEF FlushCourse, RequestsAgree, TypeOK, stored
<1>2. job'[s].activates = job[s].activates
  BY <1>1, JobFields DEF RequestsAgree, Job
<1> QED
  BY <1>1, <1>2 DEF OverrunIsPast, ManagerActs, Creates

LEMMA CommitOverruns ==
    ASSUME RequestsAgree, OverrunIsPast, NEW s \in Slots, CommitCourse(s)
    PROVE  OverrunIsPast'
<1>1. /\ job'[s].pc # "commit" /\ \A x \in Slots \ {s} : job'[x] = job[x]
      /\ job[s].pc = "commit" /\ StoreChat(s, "asked")
      /\ CountOverrun(s, IF Creates(s) THEN 1 ELSE 0)
  BY JobFields DEF CommitCourse, RequestsAgree, TypeOK, Job
<1>2. CASE manager' = "active"
  BY <1>1, <1>2 DEF CountOverrun, OverrunIsPast
<1>3. CASE manager' # "active"
  <2>1. manager' = manager /\ ~job[s].activates
    BY <1>1, <1>3 DEF StoreChat
  <2>2. Creates(s) => overrun[s] = 0
    BY <1>1, <2>1 DEF OverrunIsPast
  <2>3. overrun[s] \in Nat /\ overrun' = [x \in Slots |->
             overrun[x] + IF x = s THEN (IF Creates(s) THEN 1 ELSE 0) ELSE 0]
    BY <1>1, <1>3 DEF CountOverrun, RequestsAgree, TypeOK
  <2>4. overrun'[s] \in {0, 1} /\ \A x \in Slots \ {s} : overrun'[x] = overrun[x]
    BY <2>2, <2>3 DEF OverrunIsPast, RequestsAgree, TypeOK
  <2> QED
    BY <1>1, <1>3, <2>1, <2>4 DEF OverrunIsPast, Creates
<1> QED
  BY <1>2, <1>3

LEMMA NextHolds ==
    IInv /\ [Next]_vars => IInv'
<1> SUFFICES ASSUME RequestsAgree, OverrunIsPast, [Next]_vars PROVE OverrunIsPast'
  BY AgreementHolds DEF IInv
<1> USE DEF RequestsAgree, TypeOK
<1>1. CASE UNCHANGED vars
  BY <1>1 DEF vars, OverrunIsPast, Creates
<1>2. ASSUME NEW s \in Slots,
             \/ LoadMain(s) \/ \E to \in Status : ManagerLoads(s, to)
             \/ \E k \in Chats : OpenChat(s, k)
             \/ FailChat(s) \/ Delegate(s) \/ FailCourse(s) \/ Reply(s) \/ Crash(s)
             \/ \E courses \in SUBSET Courses : LoadBatch(s, courses)
             \/ \E c \in Courses, to \in Status : LoadTeacher(s, c, to)
             \/ CommitBatch(s) \/ CommitTeacherStatus(s)
      PROVE  OverrunIsPast'
  <2>1. UNCHANGED <<manager, overrun>>
    BY <1>2 DEF LoadMain, ManagerLoads, OpenChat, FailChat, Delegate, FailCourse, Reply,
       Crash, LoadBatch, LoadTeacher, CommitBatch, CommitTeacherStatus, Fail, stored
  <2>2. job'[s].pc # "commit" /\ \A x \in Slots \ {s} : job'[x] = job[x]
    <3>1. CASE FailChat(s) \/ Delegate(s) \/ FailCourse(s) \/ Crash(s) \/ CommitBatch(s)
               \/ CommitTeacherStatus(s)
      BY <3>1 DEF FailChat, Delegate, FailCourse, Crash, CommitBatch, CommitTeacherStatus,
         Fail, Close, NoJob
    <3>2. CASE \/ LoadMain(s) \/ \E to \in Status : ManagerLoads(s, to)
               \/ \E k \in Chats : OpenChat(s, k)
      BY <3>2 DEF LoadMain, ManagerLoads, OpenChat, NoJob
    <3>3. CASE \/ \E courses \in SUBSET Courses : LoadBatch(s, courses)
               \/ \E c \in Courses, to \in Status : LoadTeacher(s, c, to)
      BY <3>3 DEF LoadBatch, LoadTeacher, NoJob
    <3>4. CASE Reply(s)
      BY <3>4 DEF Reply, NoJob
    <3> QED
      BY <1>2, <3>1, <3>2, <3>3, <3>4
  <2> QED
    BY <2>1, <2>2, OverrunStays
<1>3. ASSUME NEW s \in Slots, NEW r, NEW tool, NEW courses, NEW to,
             BeginTool(s, r, tool, courses, to)
      PROVE  OverrunIsPast'
  BY <1>3, OverrunStays, JobFields DEF BeginTool, stored, Job
<1>4. ASSUME NEW s \in Slots, NEW tool, NEW c, NEW to, BeginDirect(s, tool, c, to)
      PROVE  OverrunIsPast'
  BY <1>4, OverrunStays DEF BeginDirect, stored, NoJob
<1>5. ASSUME NEW s \in Slots, NEW c, LookUp(s, c)
      PROVE  OverrunIsPast'
  BY <1>5, OverrunStays, JobFields DEF LookUp, Fail, Close, stored, NoJob, Job
<1>6. ASSUME NEW s \in Slots, CommitManagerStatus(s) \/ EndChat(s) \/ FinishTool(s)
      PROVE  OverrunIsPast'
  <2>1. CountOverrun(s, 0)
    BY <1>6 DEF CommitManagerStatus, EndChat, FinishTool
  <2>2. job'[s].pc # "commit" /\ \A x \in Slots \ {s} : job'[x] = job[x]
    <3>1. CASE CommitManagerStatus(s) \/ EndChat(s)
      BY <3>1 DEF CommitManagerStatus, EndChat, Close, NoJob
    <3>2. CASE FinishTool(s)
      BY <3>2 DEF FinishTool, NoJob
    <3> QED
      BY <1>6, <3>1, <3>2
  <2> QED
    BY <2>1, <2>2, OverrunCleared
<1>7. ASSUME NEW s \in Slots, CommitMain(s)
      PROVE  OverrunIsPast'
  BY <1>7 DEF CommitMain, Close, NoJob, OverrunIsPast, Creates
<1> QED
  BY <1>1, <1>2, <1>3, <1>4, <1>5, <1>6, <1>7, FlushNotPast, CommitOverruns DEF Next

\* Requests, runs, teachers and chats agree in every reachable state, whatever
\* the requests in progress interleave and wherever one of them stops.
THEOREM Invariance == Spec => []IInv
<1> QED
  BY InitHolds, NextHolds, PTL DEF Spec

\* Whatever a tool has changed is on record: a teacher the manager created has
\* its run and its event, even when the tool failed after the commit inside the
\* handler (execute_tool, provision_teacher).
THEOREM EffectsLogged == Spec => []EffectsAreLogged
<1>1. IInv => EffectsAreLogged
  BY DEF IInv, RequestsAgree
<1> QED
  BY <1>1, Invariance, PTL

\* A chat that failed or was cut short has left its question only if it has acted: the
\* first commit of a chat that does not end is that of a tool's handler
\* (chat_with_main_agent).
THEOREM UnansweredActed == Spec => []UnansweredChatsActed
<1>1. IInv => UnansweredChatsActed
  BY DEF IInv, RequestsAgree
<1> QED
  BY <1>1, Invariance, PTL

\* The answer of a provisioning is true of every course it was asked for, whoever
\* created or archived teachers meanwhile (provision_all_teachers).
THEOREM ProvisioningComplete == Spec => []ProvisioningIsComplete
<1>1. IInv => ProvisioningIsComplete
  BY DEF IInv, RequestsAgree, JobsAreSound, JobIsSound, ProvisioningIsComplete
<1> QED
  BY <1>1, Invariance, PTL

\* A manager deactivated while tools run creates at most one more teacher in each
\* request, the one whose look-up came before: each course of the handler looks the
\* manager up again (get_manager).
THEOREM DeactivationStops == Spec => []DeactivatedManagerStops
<1>1. IInv => DeactivatedManagerStops
  BY DEF IInv, RequestsAgree, TypeOK, OverrunIsPast, DeactivatedManagerStops
<1> QED
  BY <1>1, Invariance, PTL

-----------------------------------------------------------------------------
(* The courses, whose units the manager creates too: proofs about           *)
(* CourseContent, for any units, positions, lessons and requests.           *)

CONSTANTS Units, MaxPosition, MaxLesson, Mapped, MinUnits, Tasks
VARIABLES position, lesson, active, work, up
C == INSTANCE CourseContent WITH Slots <- Tasks, job <- work

\* The counting operators of the instance are those of FiniteSets.
LEMMA CourseCounts ==
    /\ \A S : C!Cardinality(S) = Cardinality(S)
    /\ \A S : C!IsFiniteSet(S) <=> IsFiniteSet(S)
<1>1. \A S : C!Cardinality(S) = Cardinality(S)
  BY DEF C!Cardinality, Cardinality
<1>2. \A S : C!IsFiniteSet(S) <=> IsFiniteSet(S)
  BY DEF C!IsFiniteSet, IsFiniteSet
<1> QED
  BY <1>1, <1>2

LEMMA SizesFacts ==
    ASSUME C!SizesAssumption
    PROVE  /\ MaxPosition \in Nat /\ C!Positions \subseteq Nat /\ 0 \notin C!Positions
           /\ \A p : p \in C!Positions <=> p \in Nat /\ 1 <= p /\ p <= MaxPosition
           /\ Units \subseteq Nat /\ 0 \notin Units /\ IsFiniteSet(Units)
BY CourseCounts DEF C!Positions, C!SizesAssumption

LEMMA ContentJobTypes ==
    /\ C!NoJob \in C!Job /\ C!NoJob.pc = "idle" /\ C!NoJob.update = {} /\ C!NoJob.insert = {}
    /\ \A p \in C!Positions : ~C!NoJob.create[p].there /\ C!NoJob.create[p].lessons = {}
    /\ \A u \in Units : C!NoJob.seen[u] = 0
BY DEF C!NoJob, C!Job, C!Pc, C!Part, C!Absent

\* A request moves: the others go on as they were.
LEMMA ContentStep ==
    ASSUME C!IInv, NEW s \in Tasks, NEW j \in C!Job, work' = [work EXCEPT ![s] = j], up' = up,
           position' \in [Units -> C!Positions \cup {0}],
           lesson' \in [Units -> [C!Lessons -> C!Content]], active' \in BOOLEAN,
           C!PositionsAreUnique', C!LessonsHaveUnits',
           work'[s] = j => C!JobIsSound(s)',
           \A p \in C!Positions : j.create[p].there /\ j.create[p].lessons = {}
                                   => j.scope[p].lessons # {}
    PROVE  C!IInv'
<1>1. \A r \in Tasks : work'[r] = IF r = s THEN j ELSE work[r]
  BY DEF C!IInv, C!TypeOK
<1>2. work' \in [Tasks -> C!Job]
  BY DEF C!IInv, C!TypeOK
<1>3. C!TypeOK'
  BY <1>2 DEF C!IInv, C!TypeOK
<1>4. C!JobsAreSound'
  BY <1>1 DEF C!IInv, C!JobsAreSound, C!JobIsSound
<1>5. C!EmptyUnitsWereDisplaced'
  BY <1>1 DEF C!IInv, C!EmptyUnitsWereDisplaced
<1> QED
  BY <1>3, <1>4, <1>5 DEF C!IInv

LEMMA CloseContent ==
    ASSUME C!IInv, NEW s \in Tasks, C!Close(s), up' = up, active' = active,
           position' \in [Units -> C!Positions \cup {0}],
           lesson' \in [Units -> [C!Lessons -> C!Content]],
           C!PositionsAreUnique', C!LessonsHaveUnits'
    PROVE  C!IInv'
<1>1. work'[s] = C!NoJob => C!JobIsSound(s)'
  BY ContentJobTypes DEF C!JobIsSound
<1> QED
  BY <1>1, ContentStep, ContentJobTypes DEF C!Close, C!IInv, C!TypeOK

\* The administration edits while requests are in progress.
LEMMA EditedContent ==
    ASSUME C!IInv, UNCHANGED <<work, up>>, active' \in BOOLEAN,
           position' \in [Units -> C!Positions \cup {0}],
           lesson' \in [Units -> [C!Lessons -> C!Content]],
           C!PositionsAreUnique', C!LessonsHaveUnits'
    PROVE  C!IInv'
BY DEF C!IInv, C!TypeOK, C!JobsAreSound, C!JobIsSound, C!EmptyUnitsWereDisplaced

LEMMA KeptContent ==
    ASSUME C!IInv, UNCHANGED <<position, lesson>>
    PROVE  C!PositionsAreUnique' /\ C!LessonsHaveUnits'
BY DEF C!IInv, C!PositionsAreUnique, C!LessonsHaveUnits, C!Exists, C!AllRows

LEMMA LessonHasUnit ==
    ASSUME C!IInv, NEW u \in Units, NEW l \in C!Lessons, lesson[u][l] # "none"
    PROVE  C!Exists(u)
<1>1. <<u, l>> \in C!AllRows
  BY DEF C!AllRows
<1>2. C!Exists(<<u, l>>[1])
  BY <1>1 DEF C!IInv, C!LessonsHaveUnits
<1> QED
  BY <1>2

\* New units get a row each, at positions that were free.
LEMMA UnitsAdded ==
    ASSUME C!IInv, NEW P \in SUBSET C!Positions, NEW new \in [P -> Units],
           \A p, q \in P : p # q => new[p] # new[q],
           \A p \in P : C!IsFree(p) /\ ~C!Exists(new[p]),
           position' = [u \in Units |-> IF \E p \in P : new[p] = u
                                          THEN CHOOSE p \in P : new[p] = u
                                          ELSE position[u]]
    PROVE  /\ position' \in [Units -> C!Positions \cup {0}]
           /\ C!PositionsAreUnique'
           /\ \A p \in P : position'[new[p]] = p
           /\ \A u \in Units : u \notin {new[p] : p \in P} => position'[u] = position[u]
           /\ \A u \in Units : C!Exists(u) => C!Exists(u)'
<1> DEFINE N == {new[p] : p \in P}
<1>1. ASSUME NEW p \in P PROVE position'[new[p]] = p
  <2>1. \A q \in P : new[q] = new[p] <=> q = p
    OBVIOUS
  <2> QED
    BY <2>1
<1>2. \A u \in Units : u \notin N => position'[u] = position[u]
  OBVIOUS
<1>3. position' \in [Units -> C!Positions \cup {0}]
  <2>1. \A u \in Units : position'[u] \in C!Positions \cup {0}
    BY <1>1, <1>2 DEF C!IInv, C!TypeOK
  <2> QED
    BY <2>1
<1>4. C!PositionsAreUnique'
  <2> SUFFICES ASSUME NEW u \in Units, NEW v \in Units,
                      position'[u] # 0, position'[u] = position'[v]
               PROVE  u = v
    BY DEF C!PositionsAreUnique, C!Exists
  <2>1. CASE u \notin N /\ v \notin N
    BY <1>2, <2>1 DEF C!IInv, C!PositionsAreUnique, C!Exists
  <2>2. CASE u \in N \/ v \in N
    BY <1>1, <1>2, <2>2 DEF C!IsFree
  <2> QED
    BY <2>1, <2>2
<1>5. \A u \in Units : C!Exists(u) => C!Exists(u)'
  BY <1>2 DEF C!Exists
<1> QED
  BY <1>1, <1>2, <1>3, <1>4, <1>5

-----------------------------------------------------------------------------
(* The generator.                                                           *)

LEMMA GeneratorStep ==
    ASSUME C!SizesAssumption, C!IInv, NEW s \in Tasks, C!Generator(s)
    PROVE  C!IInv'
<1> USE DEF C!stored
<1>0. C!TypeOK /\ C!JobIsSound(s) /\ work[s] \in C!Job
  BY DEF C!IInv, C!TypeOK, C!JobsAreSound
<1>1. CASE C!LoadScope(s)
  <2> DEFINE j == [C!NoJob EXCEPT !.pc = "model", !.scope = C!Scope]
  <2>1. C!Scope \in [C!Positions -> C!Part]
    BY DEF C!Scope, C!Part, C!Absent, C!HasContent
  <2>2. /\ j \in C!Job /\ j.pc = "model" /\ j.create = C!NoJob.create /\ j.update = {}
        /\ j.insert = {}
        /\ j.seen = C!NoJob.seen
    BY <2>1, ContentJobTypes DEF C!Job, C!Pc
  <2>3. work' = [work EXCEPT ![s] = j] /\ UNCHANGED <<C!stored, up>> /\ up
    BY <1>1 DEF C!LoadScope
  <2> HIDE DEF j
  <2>4. work'[s] = j => C!JobIsSound(s)'
    BY <2>2, <2>3, ContentJobTypes DEF C!JobIsSound
  <2> QED
    BY <1>0, <2>2, <2>3, <2>4, ContentStep, KeptContent, ContentJobTypes DEF C!TypeOK
<1>2. ASSUME NEW plan \in [C!Positions -> C!Part], C!LookUp(s, plan) PROVE C!IInv'
  <2> DEFINE c == [p \in C!Positions |-> IF C!IsFree(p) THEN plan[p] ELSE C!Absent]
             d == C!Wanted(plan) \cap C!AllRows
             i == C!Wanted(plan) \ C!AllRows
             j == [C!NoJob EXCEPT !.pc = "save", !.scope = work[s].scope, !.create = c,
                                !.update = d, !.insert = i]
  <2>1. /\ work' = [work EXCEPT ![s] = j] /\ UNCHANGED <<C!stored, up>> /\ work[s].pc = "model"
        /\ C!Validated(plan, work[s].scope)
    BY <1>2 DEF C!LookUp
  <2>2. /\ c \in [C!Positions -> C!Part]
        /\ \A p \in C!Positions : ~c[p].there => c[p].lessons = {}
        /\ \A p \in C!Positions : c[p].there /\ c[p].lessons = {} => work[s].scope[p].lessons # {}
    BY <2>1 DEF C!Validated, C!Absent, C!Part
  <2>3. d \subseteq Units \X C!Lessons /\ i \subseteq Units \X C!Lessons /\ d \cap i = {}
    BY DEF C!Wanted, C!Planned
  <2> HIDE DEF c, d, i
  <2>4. /\ j \in C!Job /\ j.pc = "save" /\ j.create = c /\ j.update = d /\ j.insert = i
        /\ j.seen = C!NoJob.seen /\ j.scope = work[s].scope
    BY <1>0, <2>2, <2>3, ContentJobTypes DEF C!Job, C!Pc
  <2> HIDE DEF j
  <2>5. work'[s] = j => C!JobIsSound(s)'
    BY <1>0, <2>1, <2>2, <2>3, <2>4, ContentJobTypes DEF C!JobIsSound
  <2> QED
    BY <1>0, <2>1, <2>2, <2>4, <2>5, ContentStep, KeptContent DEF C!TypeOK
<1>3. CASE C!GiveUp(s) \/ C!FailSave(s)
  BY <1>0, <1>3, CloseContent, KeptContent DEF C!GiveUp, C!FailSave, C!Fail, C!TypeOK
<1>4. CASE C!CommitSave(s)
  <2> DEFINE P == C!Creates(s)
             Made(new) == work[s].update \cup work[s].insert \cup
                            UNION {{new[p]} \X work[s].create[p].lessons : p \in C!Creates(s)}
  <2>1. PICK new \in C!Creations(s) :
             /\ position' = [u \in Units |-> IF \E p \in P : new[p] = u
                                              THEN CHOOSE p \in P : new[p] = u
                                              ELSE position[u]]
             /\ lesson' = [u \in Units |-> [l \in C!Lessons |->
                             IF <<u, l>> \in Made(new) THEN "ai" ELSE lesson[u][l]]]
    BY <1>4 DEF C!CommitSave
  <2>2. /\ new \in [P -> Units] /\ \A p \in P : ~C!Exists(new[p])
        /\ \A p, q \in P : p # q => new[p] # new[q]
        /\ P \in SUBSET C!Positions /\ \A p \in P : C!IsFree(p)
    BY <1>4 DEF C!CommitSave, C!CanSave, C!Creations, C!Creates, C!Fresh
  <2>3. /\ position' \in [Units -> C!Positions \cup {0}] /\ C!PositionsAreUnique'
        /\ \A p \in P : position'[new[p]] = p
        /\ \A u \in Units : C!Exists(u) => C!Exists(u)'
    <3> HIDE DEF P
    <3> QED
      BY <2>1, <2>2, UnitsAdded
  <2>4. lesson' \in [Units -> [C!Lessons -> C!Content]]
    BY <1>0, <2>1 DEF C!TypeOK, C!Content
  <2>5. C!LessonsHaveUnits'
    <3> SUFFICES ASSUME NEW u \in Units, NEW l \in C!Lessons, lesson'[u][l] # "none"
                 PROVE  C!Exists(u)'
      BY DEF C!LessonsHaveUnits, C!AllRows
    <3>1. CASE \E p \in P : new[p] = u
      BY <2>2, <2>3, <3>1, SizesFacts DEF C!Exists
    <3>2. CASE \A p \in P : new[p] # u
      <4>1. lesson[u][l] # "none" \/ <<u, l>> \in work[s].update \cup work[s].insert
        BY <2>1, <3>2
      <4>2. C!Exists(u)
        BY <1>4, <4>1 DEF C!CommitSave, C!CanSave, C!IInv, C!LessonsHaveUnits, C!AllRows
      <4> QED
        BY <2>3, <4>2
    <3> QED
      BY <3>1, <3>2
  <2> QED
    BY <1>4, <2>3, <2>4, <2>5, CloseContent DEF C!CommitSave
<1> QED
  BY <1>1, <1>2, <1>3, <1>4 DEF C!Generator
-----------------------------------------------------------------------------
(* Reordering: the numbers given to the units that were loaded.             *)

Loaded(s) == {v \in Units : work[s].seen[v] # 0}
Others(s) == Loaded(s) \ {work[s].item}
EarlierThan(s, u) == {v \in Others(s) : work[s].seen[v] < work[s].seen[u]}

\* What a reordering in progress has loaded.
Reordering(s) ==
    /\ work[s].seen \in [Units -> C!Positions \cup {0}]
    /\ work[s].item \in Loaded(s)
    /\ work[s].to \in C!Positions
    /\ \A u, v \in Units : work[s].seen[u] # 0 /\ work[s].seen[u] = work[s].seen[v] => u = v

LEMMA ReorderingLoaded ==
    ASSUME C!SizesAssumption, C!IInv, NEW s \in Tasks, work[s].pc = "reorder"
    PROVE  Reordering(s)
<1>1. work[s] \in C!Job /\ C!JobIsSound(s)
  BY DEF C!IInv, C!TypeOK, C!JobsAreSound
<1> QED
  BY <1>1, SizesFacts DEF C!Job, C!JobIsSound, Reordering, Loaded

\* The counts of the code, as sizes of finite sets.
LEMMA LoadedCounts ==
    ASSUME C!SizesAssumption, NEW s \in Tasks, Reordering(s)
    PROVE  /\ IsFiniteSet(Loaded(s)) /\ IsFiniteSet(Others(s))
           /\ C!Siblings(s) = Cardinality(Others(s)) /\ C!Siblings(s) \in Nat
           /\ Cardinality(Loaded(s)) = C!Siblings(s) + 1
           /\ C!Siblings(s) + 1 <= MaxPosition
           /\ \A u \in Units : /\ C!Before(s, u) = Cardinality(EarlierThan(s, u))
                               /\ IsFiniteSet(EarlierThan(s, u)) /\ C!Before(s, u) \in Nat
<1>1. IsFiniteSet(Loaded(s)) /\ IsFiniteSet(Others(s))
  BY SizesFacts, FS_Subset DEF Loaded, Others
<1>2. Others(s) = {v \in Units \ {work[s].item} : work[s].seen[v] # 0}
  BY DEF Others, Loaded
<1>3. C!Siblings(s) = Cardinality(Others(s)) /\ C!Siblings(s) \in Nat
  BY <1>1, <1>2, FS_CardinalityType, CourseCounts DEF C!Siblings
<1>4. Cardinality(Loaded(s)) = C!Siblings(s) + 1
  <2>1. Loaded(s) = Others(s) \cup {work[s].item} /\ work[s].item \notin Others(s)
    BY DEF Reordering, Others
  <2> QED
    BY <1>1, <1>3, <2>1, FS_AddElement
<1>5. C!Siblings(s) + 1 <= MaxPosition
  <2> DEFINE f == [v \in Loaded(s) |-> work[s].seen[v]]
  <2>1. f \in [Loaded(s) -> C!Positions]
    BY DEF Reordering, Loaded
  <2>2. \A u, v \in Loaded(s) : f[u] = f[v] => u = v
    BY DEF Reordering, Loaded
  <2>3. f \in Injection(Loaded(s), C!Positions)
    BY <2>1, <2>2 DEF Injection, IsInjective
  <2>4. Loaded(s) # {} /\ C!Positions # {}
    BY <2>1 DEF Reordering
  <2>5. IsFiniteSet(C!Positions) /\ Cardinality(C!Positions) = MaxPosition
    BY <2>4, SizesFacts, FS_Interval DEF C!Positions
  <2>6. Cardinality(Loaded(s)) <= Cardinality(C!Positions)
    BY <2>3, <2>5, FS_Injection
  <2> QED
    BY <1>4, <2>5, <2>6
<1>6. ASSUME NEW u \in Units
      PROVE  /\ C!Before(s, u) = Cardinality(EarlierThan(s, u))
             /\ IsFiniteSet(EarlierThan(s, u)) /\ C!Before(s, u) \in Nat
  <2>1. EarlierThan(s, u) = {v \in Units \ {work[s].item} :
                               work[s].seen[v] # 0 /\ work[s].seen[v] < work[s].seen[u]}
    BY DEF EarlierThan, Others, Loaded
  <2>2. EarlierThan(s, u) \subseteq Others(s)
    BY DEF EarlierThan
  <2> QED
    BY <1>1, <2>1, <2>2, FS_Subset, FS_CardinalityType, CourseCounts DEF C!Before
<1> QED
  BY <1>1, <1>3, <1>4, <1>5, <1>6

\* The siblings are counted in their order.
LEMMA BeforeGrows ==
    ASSUME C!SizesAssumption,
           NEW s \in Tasks, Reordering(s), NEW u \in Others(s), NEW v \in Others(s)
    PROVE  /\ C!Before(s, u) < C!Siblings(s)
           /\ work[s].seen[u] < work[s].seen[v] => C!Before(s, u) < C!Before(s, v)
           /\ C!Before(s, u) = C!Before(s, v) => u = v
<1>0. \A x \in Loaded(s) : x \in Units /\ work[s].seen[x] \in Nat
  BY SizesFacts DEF Reordering, Loaded
<1>1. ASSUME NEW x \in Others(s), NEW T, T \subseteq Others(s),
             EarlierThan(s, x) \cup {x} \subseteq T
      PROVE  C!Before(s, x) < Cardinality(T)
  <2>1. x \in Units /\ x \notin EarlierThan(s, x)
    BY <1>0 DEF EarlierThan, Others
  <2>2. Cardinality(EarlierThan(s, x) \cup {x}) = C!Before(s, x) + 1
        /\ IsFiniteSet(T) /\ C!Before(s, x) \in Nat
    <3>1. IsFiniteSet(EarlierThan(s, x)) /\ C!Before(s, x) = Cardinality(EarlierThan(s, x))
          /\ C!Before(s, x) \in Nat /\ IsFiniteSet(Others(s))
      BY <2>1, LoadedCounts
    <3>2. Cardinality(EarlierThan(s, x) \cup {x}) = C!Before(s, x) + 1
      BY <2>1, <3>1, FS_AddElement
    <3>3. IsFiniteSet(T)
      BY <1>1, <3>1, FS_Subset
    <3> QED
      BY <3>1, <3>2, <3>3
  <2>3. Cardinality(EarlierThan(s, x) \cup {x}) <= Cardinality(T) /\ Cardinality(T) \in Nat
    BY <1>1, <2>2, FS_Subset, FS_CardinalityType
  <2> QED
    BY <2>2, <2>3
<1>2. C!Before(s, u) < C!Siblings(s)
  BY <1>1, LoadedCounts DEF EarlierThan
<1>3. ASSUME NEW x \in Others(s), NEW y \in Others(s), work[s].seen[x] < work[s].seen[y]
      PROVE  C!Before(s, x) < C!Before(s, y)
  <2>1. EarlierThan(s, x) \cup {x} \subseteq EarlierThan(s, y)
    BY <1>0, <1>3 DEF EarlierThan, Others
  <2>2. EarlierThan(s, y) \subseteq Others(s) /\ y \in Units
    BY <1>0 DEF EarlierThan, Others
  <2> QED
    BY <1>1, <2>1, <2>2, LoadedCounts
<1>4. C!Before(s, u) = C!Before(s, v) => u = v
  <2>1. /\ work[s].seen[u] \in Nat /\ work[s].seen[v] \in Nat
        /\ C!Before(s, u) \in Nat /\ C!Before(s, v) \in Nat
    BY <1>0, LoadedCounts DEF Others
  <2>2. work[s].seen[u] = work[s].seen[v] => u = v
    BY DEF Reordering, Others, Loaded
  <2>3. ~(work[s].seen[u] < work[s].seen[v]) \/ C!Before(s, u) < C!Before(s, v)
    BY <1>3
  <2>4. ~(work[s].seen[v] < work[s].seen[u]) \/ C!Before(s, v) < C!Before(s, u)
    BY <1>3
  <2> QED
    BY <2>1, <2>2, <2>3, <2>4
<1> QED
  BY <1>2, <1>3, <1>4

\* Every unit that was loaded gets a number of its own, from 1 to their number; the
\* moved one its place, the others in their order.
LEMMA NumbersGiven ==
    ASSUME C!SizesAssumption, NEW s \in Tasks, Reordering(s)
    PROVE  LET n == C!Siblings(s) + 1
               R == C!Renumbered(s) IN
           /\ \A u \in Loaded(s) : R[u] \in Nat /\ 1 <= R[u] /\ R[u] <= n
           /\ \A u, v \in Loaded(s) : R[u] = R[v] => u = v
           /\ R[work[s].item] = IF work[s].to > n THEN n ELSE work[s].to
           /\ \A u, v \in Others(s) : work[s].seen[u] < work[s].seen[v] => R[u] < R[v]
           /\ \A u \in Units \ Loaded(s) : R[u] = 0
<1> DEFINE n == C!Siblings(s) + 1
           R == C!Renumbered(s)
           p == C!Place(s)
<1>1. n \in Nat /\ C!Siblings(s) \in Nat /\ work[s].to \in Nat /\ 1 <= work[s].to
      /\ work[s].item \in Units
  <2>1. n \in Nat /\ C!Siblings(s) \in Nat
    BY LoadedCounts
  <2>2. work[s].to \in Nat /\ 1 <= work[s].to
    BY SizesFacts DEF Reordering
  <2>3. work[s].item \in Units
    BY DEF Reordering, Loaded
  <2> QED
    BY <2>1, <2>2, <2>3
<1>2. p \in Nat /\ 1 <= p /\ p <= n /\ p = IF work[s].to > n THEN n ELSE work[s].to
  BY <1>1 DEF C!Place
<1>3. R[work[s].item] = p /\ \A u \in Units \ Loaded(s) : R[u] = 0
  BY <1>1 DEF C!Renumbered, Loaded, Reordering
<1>4. \A u \in Others(s) : R[u] = IF C!Before(s, u) + 1 < p THEN C!Before(s, u) + 1
                                                             ELSE C!Before(s, u) + 2
  BY DEF C!Renumbered, Others, Loaded
<1>5. \A u \in Others(s) : C!Before(s, u) \in Nat /\ C!Before(s, u) < C!Siblings(s)
  BY LoadedCounts, BeforeGrows DEF Others, Loaded
<1> HIDE DEF p, R
<1>6. \A u \in Others(s) : R[u] \in Nat /\ 1 <= R[u] /\ R[u] <= n /\ R[u] # p
  BY <1>1, <1>2, <1>4, <1>5
<1>7. \A u, v \in Others(s) : C!Before(s, u) < C!Before(s, v) => R[u] < R[v]
  BY <1>2, <1>4, <1>5
<1>8. \A u, v \in Others(s) : R[u] = R[v] => u = v
  <2>1. \A u, v \in Others(s) : R[u] = R[v] => C!Before(s, u) = C!Before(s, v)
    BY <1>2, <1>4, <1>5
  <2> QED
    BY <2>1, BeforeGrows
<1>9. \A u \in Loaded(s) : u = work[s].item \/ u \in Others(s)
  BY DEF Others
<1>10. \A u, v \in Others(s) : work[s].seen[u] < work[s].seen[v] => R[u] < R[v]
  BY <1>7, BeforeGrows
<1>11. \A u \in Loaded(s) : R[u] \in Nat /\ 1 <= R[u] /\ R[u] <= n
  BY <1>2, <1>3, <1>6, <1>9
<1>12. \A u, v \in Loaded(s) : R[u] = R[v] => u = v
  BY <1>3, <1>6, <1>8, <1>9
<1> QED
  BY <1>2, <1>3, <1>10, <1>11, <1>12 DEF R

-----------------------------------------------------------------------------
(* Reordering.                                                              *)

\* What the flush of a reordering that is accepted leaves.
LEMMA Reordered ==
    ASSUME C!SizesAssumption, C!IInv, NEW s \in Tasks, C!CommitReorder(s)
    PROVE  /\ position' \in [Units -> C!Positions \cup {0}]
           /\ C!PositionsAreUnique' /\ C!LessonsHaveUnits'
<1> DEFINE R == C!Renumbered(s)
           E == C!Emitted(s)
<1>1. Reordering(s)
  BY ReorderingLoaded DEF C!CommitReorder
<1>2. E \subseteq Loaded(s) /\ work[s].item \in E
  BY <1>1 DEF C!Emitted, Reordering, Loaded
<1>3. \A u \in Loaded(s) : R[u] \in C!Positions /\ R[u] # 0
  BY <1>1, NumbersGiven, LoadedCounts, SizesFacts
<1>4. \A u, v \in Loaded(s) : R[u] = R[v] => u = v
  BY <1>1, NumbersGiven
<1>5. \A u \in E, v \in Units \ E : R[u] # position[v]
  BY <1>2 DEF C!CommitReorder, C!Accepted
<1>6. position' = [u \in Units |-> IF u \in E THEN R[u] ELSE position[u]]
  BY DEF C!CommitReorder
<1> HIDE DEF R, E
<1>7. position' \in [Units -> C!Positions \cup {0}]
  BY <1>2, <1>3, <1>6 DEF C!IInv, C!TypeOK
<1>8. C!PositionsAreUnique'
  BY <1>2, <1>4, <1>5, <1>6 DEF C!IInv, C!PositionsAreUnique, C!Exists
<1>9. C!LessonsHaveUnits'
  BY <1>2, <1>3, <1>6 DEF C!IInv, C!LessonsHaveUnits, C!AllRows, C!Exists, C!CommitReorder
<1> QED
  BY <1>7, <1>8, <1>9

LEMMA ReorderStep ==
    ASSUME C!SizesAssumption, C!IInv, NEW s \in Tasks, C!Reorder(s)
    PROVE  C!IInv'
<1> USE DEF C!stored
<1>0. C!TypeOK /\ C!JobIsSound(s) /\ work[s] \in C!Job
  BY DEF C!IInv, C!TypeOK, C!JobsAreSound
<1>1. ASSUME NEW u \in Units, NEW p \in C!Positions, C!LoadReorder(s, u, p) PROVE C!IInv'
  <2> DEFINE j == [C!NoJob EXCEPT !.pc = "reorder", !.seen = position, !.item = u, !.to = p]
  <2>1. work' = [work EXCEPT ![s] = j] /\ UNCHANGED <<C!stored, up>> /\ up /\ C!Exists(u)
    BY <1>1 DEF C!LoadReorder
  <2>2. position \in [Units -> C!Positions \cup {0}]
    BY <1>0 DEF C!TypeOK
  <2>3. /\ j \in C!Job /\ j.pc = "reorder" /\ j.create = C!NoJob.create /\ j.update = {}
        /\ j.insert = {}
        /\ j.seen = position /\ j.item = u /\ j.to = p
    BY <2>2, ContentJobTypes DEF C!Job, C!Pc
  <2> HIDE DEF j
  <2>4. work'[s] = j => C!JobIsSound(s)'
    <3>1. u # 0 /\ p # 0 /\ position[u] # 0 /\ up'
      BY <2>1, SizesFacts DEF C!Exists
    <3>2. \A x, y \in Units : position[x] # 0 /\ position[x] = position[y] => x = y
      BY DEF C!IInv, C!PositionsAreUnique, C!Exists
    <3> QED
      BY <2>3, <3>1, <3>2, ContentJobTypes DEF C!JobIsSound
  <2> QED
    BY <1>0, <2>1, <2>3, <2>4, ContentStep, KeptContent, ContentJobTypes DEF C!TypeOK
<1>2. CASE C!CommitReorder(s)
  <2>1. C!Close(s) /\ UNCHANGED <<lesson, active, up>>
    BY <1>2 DEF C!CommitReorder
  <2> QED
    BY <1>0, <1>2, <2>1, Reordered, CloseContent DEF C!TypeOK
<1>3. CASE C!FailReorder(s)
  BY <1>0, <1>3, CloseContent, KeptContent DEF C!FailReorder, C!Fail, C!TypeOK
<1> QED
  BY <1>1, <1>2, <1>3 DEF C!Reorder

-----------------------------------------------------------------------------
(* The administration, the start and the stop.                              *)

LEMMA EditStep ==
    ASSUME C!SizesAssumption, C!IInv, NEW u \in Units, C!Edit(u)
    PROVE  C!IInv'
<1>0. C!TypeOK /\ C!PositionsAreUnique /\ C!LessonsHaveUnits
  BY DEF C!IInv
<1>1. ASSUME NEW p \in C!Positions, C!CreateUnit(u, p) \/ C!MoveUnit(u, p) PROVE C!IInv'
  <2>1. /\ position' = [position EXCEPT ![u] = p] /\ C!IsFree(p)
        /\ UNCHANGED <<lesson, active, work, up>>
    BY <1>1 DEF C!CreateUnit, C!MoveUnit
  <2>2. \A v \in Units : position'[v] = IF v = u THEN p ELSE position[v]
    BY <1>0, <2>1 DEF C!TypeOK
  <2>3. position' \in [Units -> C!Positions \cup {0}]
    BY <1>0, <2>1 DEF C!TypeOK
  <2>4. C!PositionsAreUnique' /\ C!LessonsHaveUnits'
    BY <1>0, <2>1, <2>2, SizesFacts DEF C!PositionsAreUnique, C!LessonsHaveUnits, C!AllRows,
                                        C!Exists, C!IsFree
  <2> QED
    BY <1>0, <2>1, <2>3, <2>4, EditedContent DEF C!TypeOK
<1>2. ASSUME NEW l \in C!Lessons, NEW c \in {"none", "empty", "admin"},
             lesson' = [lesson EXCEPT ![u][l] = c], c # "none" => C!Exists(u),
             UNCHANGED <<position, active, work, up>>
      PROVE  C!IInv'
  <2>1. lesson' \in [Units -> [C!Lessons -> C!Content]]
    BY <1>0, <1>2 DEF C!TypeOK, C!Content
  <2>2. C!PositionsAreUnique'
    BY <1>0, <1>2 DEF C!PositionsAreUnique, C!Exists
  <2>3. C!LessonsHaveUnits'
    <3>1. \A v \in Units, m \in C!Lessons :
            lesson'[v][m] = IF v = u /\ m = l THEN c ELSE lesson[v][m]
      BY <1>0, <1>2 DEF C!TypeOK
    <3> QED
      BY <1>0, <1>2, <3>1 DEF C!LessonsHaveUnits, C!AllRows, C!Exists
  <2> QED
    BY <1>0, <1>2, <2>1, <2>2, <2>3, EditedContent DEF C!TypeOK
<1>3. ASSUME NEW l \in C!Lessons, lesson[u][l] # "none" PROVE C!Exists(u)
  BY <1>3, LessonHasUnit
<1>4. ASSUME NEW l \in C!Lessons, NEW c \in {"empty", "admin"},
             C!CreateLesson(u, l, c) \/ C!EditLesson(u, l, c)
      PROVE  C!IInv'
  <2>1. lesson' = [lesson EXCEPT ![u][l] = c] /\ UNCHANGED <<position, active, work, up>>
        /\ C!Exists(u)
    BY <1>3, <1>4 DEF C!CreateLesson, C!EditLesson
  <2> QED
    BY <1>2, <2>1
<1>5. ASSUME NEW l \in C!Lessons, C!DeleteLesson(u, l) PROVE C!IInv'
  BY <1>2, <1>5 DEF C!DeleteLesson
<1>6. CASE C!DeleteUnit(u)
  <2>1. /\ position' = [position EXCEPT ![u] = 0] /\ C!Rows(u) = {}
        /\ UNCHANGED <<lesson, active, work, up>>
    BY <1>6 DEF C!DeleteUnit
  <2>2. \A v \in Units : position'[v] = IF v = u THEN 0 ELSE position[v]
    BY <1>0, <2>1 DEF C!TypeOK
  <2>3. position' \in [Units -> C!Positions \cup {0}]
    BY <1>0, <2>1 DEF C!TypeOK
  <2>4. C!PositionsAreUnique' /\ C!LessonsHaveUnits'
    BY <1>0, <2>1, <2>2 DEF C!PositionsAreUnique, C!LessonsHaveUnits, C!AllRows, C!Exists, C!Rows
  <2> QED
    BY <1>0, <2>1, <2>3, <2>4, EditedContent DEF C!TypeOK
<1> QED
  BY <1>1, <1>4, <1>5, <1>6 DEF C!Edit

LEMMA StartStep ==
    ASSUME C!SizesAssumption, C!IInv, C!Start
    PROVE  C!IInv'
<1>0. C!TypeOK /\ C!LessonsHaveUnits /\ C!JobsAreSound
  BY DEF C!IInv
<1> DEFINE P == {p \in Mapped : C!IsFree(p)}
<1>1. PICK new \in [P -> {u \in Units : ~C!Exists(u)}] :
        /\ \A p, q \in P : p # q => new[p] # new[q]
        /\ position' = [u \in Units |-> IF \E p \in P : new[p] = u
                                          THEN CHOOSE p \in P : new[p] = u
                                          ELSE position[u]]
  BY DEF C!Start
<1>2. P \in SUBSET C!Positions /\ \A p \in P : C!IsFree(p)
  BY DEF C!SizesAssumption
<1>3. new \in [P -> Units] /\ \A p \in P : ~C!Exists(new[p])
  BY <1>1
<1> HIDE DEF P
<1>4. /\ position' \in [Units -> C!Positions \cup {0}] /\ C!PositionsAreUnique'
      /\ \A u \in Units : C!Exists(u) => C!Exists(u)'
  BY <1>1, <1>2, <1>3, UnitsAdded
<1>5. /\ lesson' = [u \in Units |-> IF position'[u] \in Mapped THEN C!SeededLessons(u)
                                                               ELSE lesson[u]]
      /\ active' = TRUE /\ up' = TRUE /\ work' = work /\ ~up
  BY DEF C!Start, C!SeedGlobally
<1>6. lesson' \in [Units -> [C!Lessons -> C!Content]]
  <2>1. \A u \in Units : C!SeededLessons(u) \in [C!Lessons -> C!Content]
    BY <1>0 DEF C!SeededLessons, C!TypeOK, C!Content
  <2> QED
    BY <1>0, <1>5, <2>1 DEF C!TypeOK
<1>7. C!LessonsHaveUnits'
  <2> SUFFICES ASSUME NEW u \in Units, NEW l \in C!Lessons, lesson'[u][l] # "none"
               PROVE  C!Exists(u)'
    BY DEF C!LessonsHaveUnits, C!AllRows
  <2>1. CASE position'[u] \in Mapped
    BY <2>1, SizesFacts DEF C!Exists, C!SizesAssumption
  <2>2. CASE position'[u] \notin Mapped
    <3>1. lesson[u][l] # "none"
      BY <1>5, <2>2
    <3> QED
      BY <1>4, <3>1, LessonHasUnit
  <2> QED
    BY <2>1, <2>2
<1>8. C!TypeOK'
  BY <1>0, <1>4, <1>5, <1>6 DEF C!TypeOK
<1>9. C!JobsAreSound' /\ C!EmptyUnitsWereDisplaced'
  <2>1. C!JobsAreSound'
    BY <1>0, <1>5 DEF C!JobsAreSound, C!JobIsSound
  <2>2. C!EmptyUnitsWereDisplaced'
    BY <1>5 DEF C!IInv, C!EmptyUnitsWereDisplaced
  <2> QED
    BY <2>1, <2>2
<1> QED
  BY <1>4, <1>7, <1>8, <1>9 DEF C!IInv

LEMMA StopStep ==
    ASSUME C!IInv, C!Stop
    PROVE  C!IInv'
<1>1. /\ UNCHANGED <<position, lesson, active>> /\ up' = FALSE
      /\ work' = [s \in Tasks |-> C!NoJob]
  BY DEF C!Stop, C!stored
<1>2. C!TypeOK'
  BY <1>1, ContentJobTypes DEF C!IInv, C!TypeOK
<1>3. C!PositionsAreUnique' /\ C!LessonsHaveUnits'
  BY <1>1, KeptContent
<1>4. \A s \in Tasks : work'[s] = C!NoJob
  BY <1>1
<1>5. C!JobsAreSound' /\ C!EmptyUnitsWereDisplaced'
  BY <1>4, ContentJobTypes DEF C!JobsAreSound, C!JobIsSound, C!EmptyUnitsWereDisplaced
<1> QED
  BY <1>2, <1>3, <1>5 DEF C!IInv

-----------------------------------------------------------------------------
LEMMA ContentInit == C!Init => C!IInv
<1> SUFFICES ASSUME C!Init PROVE C!IInv
  OBVIOUS
<1>1. C!TypeOK
  BY ContentJobTypes DEF C!Init, C!TypeOK, C!Content
<1>2. C!PositionsAreUnique /\ C!LessonsHaveUnits
  BY DEF C!Init, C!PositionsAreUnique, C!LessonsHaveUnits, C!AllRows, C!Exists
<1>3. \A s \in Tasks : work[s] = C!NoJob
  BY DEF C!Init
<1>4. C!JobsAreSound /\ C!EmptyUnitsWereDisplaced
  BY <1>3, ContentJobTypes DEF C!JobsAreSound, C!JobIsSound, C!EmptyUnitsWereDisplaced
<1> QED
  BY <1>1, <1>2, <1>4 DEF C!IInv

LEMMA ContentNext ==
    ASSUME C!SizesAssumption
    PROVE  C!IInv /\ [C!Next]_C!vars => C!IInv'
<1> SUFFICES ASSUME C!IInv, [C!Next]_C!vars PROVE C!IInv'
  OBVIOUS
<1>1. CASE UNCHANGED C!vars
  BY <1>1, EditedContent, KeptContent DEF C!vars, C!IInv, C!TypeOK
<1>2. CASE C!ToggleCourse
  BY <1>2, EditedContent, KeptContent DEF C!ToggleCourse, C!IInv, C!TypeOK
<1>3. CASE \E s \in Tasks : C!Generator(s) \/ C!Reorder(s)
  BY <1>3, GeneratorStep, ReorderStep
<1>4. CASE \E u \in Units : C!Edit(u)
  BY <1>4, EditStep
<1>5. CASE C!Start
  BY <1>5, StartStep
<1>6. CASE C!Stop
  BY <1>6, StopStep
<1> QED
  BY <1>1, <1>2, <1>3, <1>4, <1>5, <1>6 DEF C!Next

\* Whatever the generator, the administration and the starts of the application do,
\* no two units have one position, no lesson is without its unit, and a save that
\* creates a unit without lessons was planned for one that had content.
THEOREM ContentInvariance ==
    ASSUME C!SizesAssumption
    PROVE  C!Spec => []C!IInv
<1> QED
  BY ContentInit, ContentNext, PTL DEF C!Spec

-----------------------------------------------------------------------------
(* Content that is written.                                                 *)

\* The steps of a request change its slot alone, and plan to update only rows
\* without content.
LEMMA ContentChosen ==
    ASSUME C!IInv, C!Next, NEW s \in Tasks, NEW u \in Units, NEW l \in C!Lessons,
           lesson[u][l] \in C!Written, <<u, l>> \in work'[s].update
    PROVE  <<u, l>> \in work[s].update
<1>0. work \in [Tasks -> C!Job]
  BY DEF C!IInv, C!TypeOK
<1>1. ASSUME NEW r \in Tasks, C!Close(r) PROVE <<u, l>> \in work[s].update
  BY <1>0, <1>1, ContentJobTypes DEF C!Close
<1>2. ASSUME NEW r \in Tasks, C!Generator(r) PROVE <<u, l>> \in work[s].update
  <2>1. CASE C!LoadScope(r)
    <3>1. [C!NoJob EXCEPT !.pc = "model", !.scope = C!Scope].update = {}
      BY ContentJobTypes DEF C!Job
    <3> QED
      BY <1>0, <2>1, <3>1 DEF C!LoadScope
  <2>2. ASSUME NEW plan \in [C!Positions -> C!Part], C!LookUp(r, plan)
        PROVE  <<u, l>> \in work[s].update
    <3> DEFINE c == [p \in C!Positions |-> IF C!IsFree(p) THEN plan[p] ELSE C!Absent]
               j == [C!NoJob EXCEPT !.pc = "save", !.scope = work[r].scope, !.create = c,
                                  !.update = C!Wanted(plan) \cap C!AllRows,
                                  !.insert = C!Wanted(plan) \ C!AllRows]
    <3>1. j.update \subseteq C!Wanted(plan)
      BY ContentJobTypes DEF C!Job
    <3>2. <<u, l>> \notin C!Wanted(plan)
      BY DEF C!Wanted
    <3>3. work' = [work EXCEPT ![r] = j]
      BY <2>2 DEF C!LookUp
    <3> HIDE DEF j
    <3> QED
      BY <1>0, <3>1, <3>2, <3>3
  <2> QED
    BY <1>1, <1>2, <2>1, <2>2 DEF C!Generator, C!GiveUp, C!CommitSave, C!FailSave, C!Fail
<1>3. ASSUME NEW r \in Tasks, C!Reorder(r) PROVE <<u, l>> \in work[s].update
  <2>1. ASSUME NEW v \in Units, NEW p \in C!Positions, C!LoadReorder(r, v, p)
        PROVE  <<u, l>> \in work[s].update
    <3>1. [C!NoJob EXCEPT !.pc = "reorder", !.seen = position, !.item = v, !.to = p].update = {}
      BY ContentJobTypes DEF C!Job
    <3> QED
      BY <1>0, <2>1, <3>1 DEF C!LoadReorder
  <2> QED
    BY <1>1, <1>3, <2>1 DEF C!Reorder, C!CommitReorder, C!FailReorder, C!Fail
<1>4. CASE UNCHANGED work
  BY <1>4
<1>5. CASE C!Stop
  BY <1>5, ContentJobTypes DEF C!Stop
<1>6. (\E v \in Units : C!Edit(v)) \/ C!ToggleCourse \/ C!Start => UNCHANGED work
  BY DEF C!Edit, C!CreateUnit, C!MoveUnit, C!CreateLesson, C!EditLesson, C!DeleteLesson,
         C!DeleteUnit, C!ToggleCourse, C!Start
<1> QED
  BY <1>2, <1>3, <1>4, <1>5, <1>6 DEF C!Next

\* Nothing runs before the start, and the start adds only what is missing.
LEMMA ContentAtStart ==
    ASSUME C!IInv, C!Next, ~up, NEW u \in Units, NEW l \in C!Lessons, lesson[u][l] \in C!Written
    PROVE  lesson'[u][l] = lesson[u][l]
<1>1. \A s \in Tasks : work[s].pc = "idle"
  BY DEF C!IInv, C!JobsAreSound, C!JobIsSound
<1>2. ~ \E s \in Tasks : C!Generator(s) \/ C!Reorder(s)
  BY <1>1 DEF C!Generator, C!LoadScope, C!LookUp, C!GiveUp, C!CommitSave, C!FailSave,
              C!Reorder, C!LoadReorder, C!CommitReorder, C!FailReorder
<1>3. ASSUME NEW v \in Units, C!Edit(v) PROVE lesson'[u][l] = lesson[u][l]
  BY <1>3 DEF C!Edit, C!CreateUnit, C!MoveUnit, C!CreateLesson, C!EditLesson, C!DeleteLesson,
              C!DeleteUnit
<1>4. CASE C!Start
  <2>1. lesson'[u] = IF position'[u] \in Mapped THEN C!SeededLessons(u) ELSE lesson[u]
    BY <1>4 DEF C!Start
  <2>2. C!SeededLessons(u)[l] = lesson[u][l]
    BY DEF C!SeededLessons, C!Written
  <2> QED
    BY <2>1, <2>2
<1> QED
  BY <1>2, <1>3, <1>4 DEF C!Next, C!ToggleCourse, C!Stop

\* An administrator's text gives way only to a request that found its row there.
LEMMA ContentReplaced ==
    ASSUME C!IInv, C!Next, NEW u \in Units, NEW l \in C!Lessons,
           lesson[u][l] = "admin", lesson'[u][l] = "ai"
    PROVE  \E s \in Tasks : <<u, l>> \in work[s].update
<1>0. lesson \in [Units -> [C!Lessons -> C!Content]]
  BY DEF C!IInv, C!TypeOK
<1>1. ASSUME NEW s \in Tasks, C!Generator(s) PROVE <<u, l>> \in work[s].update
  <2>1. C!CommitSave(s)
    BY <1>1 DEF C!Generator, C!LoadScope, C!LookUp, C!GiveUp, C!FailSave, C!Fail, C!stored
  <2> DEFINE Made(new) == work[s].update \cup work[s].insert \cup
                            UNION {{new[p]} \X work[s].create[p].lessons : p \in C!Creates(s)}
  <2>2. PICK new \in C!Creations(s) :
          lesson' = [v \in Units |-> [m \in C!Lessons |->
                       IF <<v, m>> \in Made(new) THEN "ai" ELSE lesson[v][m]]]
    BY <2>1 DEF C!CommitSave
  <2>3. <<u, l>> \in Made(new)
    BY <2>2
  <2>4. <<u, l>> \notin work[s].insert
    BY <2>1 DEF C!CommitSave, C!CanSave, C!AllRows
  <2>5. \A p \in C!Creates(s) : new[p] # u
    BY LessonHasUnit DEF C!Creations, C!Fresh
  <2> QED
    BY <2>3, <2>4, <2>5
<1>2. ASSUME NEW s \in Tasks, C!Reorder(s) PROVE FALSE
  BY <1>2 DEF C!Reorder, C!LoadReorder, C!CommitReorder, C!FailReorder, C!Fail, C!stored
<1>3. ASSUME NEW v \in Units, C!Edit(v) PROVE FALSE
  <2>1. ASSUME NEW m \in C!Lessons, NEW c \in {"none", "empty", "admin"},
               lesson' = [lesson EXCEPT ![v][m] = c]
        PROVE  FALSE
    <3>1. lesson'[u][l] \in {c, lesson[u][l]}
      BY <1>0, <2>1
    <3> QED
      BY <3>1
  <2> QED
    BY <1>3, <2>1 DEF C!Edit, C!CreateUnit, C!MoveUnit, C!CreateLesson, C!EditLesson,
                      C!DeleteLesson, C!DeleteUnit
<1>4. CASE C!Start
  <2>1. lesson'[u] = IF position'[u] \in Mapped THEN C!SeededLessons(u) ELSE lesson[u]
    BY <1>4 DEF C!Start
  <2>2. C!SeededLessons(u)[l] = lesson[u][l]
    BY DEF C!SeededLessons
  <2> QED
    BY <2>1, <2>2
<1> QED
  BY <1>1, <1>2, <1>3, <1>4 DEF C!Next, C!ToggleCourse, C!Stop, C!stored

\* A start of the application keeps every lesson that has content, and the generator
\* replaces an administrator's text only if it was written after it had looked.
THEOREM ContentStays ==
    ASSUME C!SizesAssumption
    PROVE  C!Spec => C!ContentIsKept
<1>1. C!IInv /\ [C!Next]_C!vars =>
        [\A u \in Units, l \in C!Lessons :
         lesson[u][l] \in C!Written =>
           /\ ~up => lesson'[u][l] = lesson[u][l]
           /\ lesson[u][l] = "admin" /\ lesson'[u][l] = "ai"
                => \E s \in Tasks : <<u, l>> \in work[s].update
           /\ \A s \in Tasks :
                <<u, l>> \in work'[s].update => <<u, l>> \in work[s].update]_C!vars
  BY ContentAtStart, ContentReplaced, ContentChosen
<1> QED
  BY <1>1, ContentInvariance, PTL DEF C!Spec, C!ContentIsKept

-----------------------------------------------------------------------------
(* The numbers a reordering leaves.                                         *)

LEMMA IsCommitReorder ==
    ASSUME C!IInv, C!Next, NEW s \in Tasks, work[s].pc = "reorder", work'[s].pc = "idle", up',
           C!Accepted(s)
    PROVE  C!CommitReorder(s)
<1>0. work \in [Tasks -> C!Job]
  BY DEF C!IInv, C!TypeOK
<1>1. ASSUME NEW r \in Tasks, r # s, C!Generator(r) \/ C!Reorder(r) PROVE FALSE
  <2>1. work'[s] = work[s]
    BY <1>0, <1>1 DEF C!Generator, C!LoadScope, C!LookUp, C!GiveUp, C!CommitSave, C!FailSave,
                      C!Fail, C!Close, C!Reorder, C!LoadReorder, C!CommitReorder, C!FailReorder
  <2> QED
    BY <2>1
<1>2. ~C!Generator(s)
  BY DEF C!Generator, C!LoadScope, C!LookUp, C!GiveUp, C!CommitSave, C!FailSave
<1>3. CASE C!Reorder(s)
  BY <1>3 DEF C!Reorder, C!LoadReorder, C!FailReorder
<1>4. (\E v \in Units : C!Edit(v)) \/ C!ToggleCourse \/ C!Start => UNCHANGED work
  BY DEF C!Edit, C!CreateUnit, C!MoveUnit, C!CreateLesson, C!EditLesson, C!DeleteLesson,
         C!DeleteUnit, C!ToggleCourse, C!Start
<1>5. ~C!Stop
  BY DEF C!Stop
<1> QED
  BY <1>1, <1>2, <1>3, <1>4, <1>5 DEF C!Next

\* The numbers from 1, each given once.
LEMMA OneToN ==
    ASSUME NEW S, NEW n \in Nat, NEW f \in [S -> 1..n], IsFiniteSet(S), Cardinality(S) = n,
           \A x, y \in S : f[x] = f[y] => x = y
    PROVE  {f[x] : x \in S} = 1..n
<1>1. f \in Injection(S, 1..n)
  BY DEF Injection, IsInjective
<1>2. IsFiniteSet(1..n) /\ Cardinality(1..n) = n
  BY FS_Interval
<1>3. f \in Surjection(S, 1..n)
  BY <1>1, <1>2, FS_Injection
<1> QED
  BY <1>3 DEF Surjection

\* A reordering accepted for the course it was loaded from numbers the units 1 to n.
LEMMA ReorderedExactly ==
    ASSUME C!SizesAssumption, C!IInv, C!Next, NEW s \in Tasks,
           work[s].pc = "reorder", work'[s].pc = "idle", up',
           C!Accepted(s), work[s].seen = position
    PROVE  LET here == {u \in Units : C!Exists(u)}
               n == C!Cardinality(here)
               others == here \ {work[s].item}
           IN  /\ {position'[u] : u \in here} = 1..n
               /\ position'[work[s].item] = IF work[s].to > n THEN n ELSE work[s].to
               /\ \A u, v \in others :
                    position[u] < position[v] => position'[u] < position'[v]
<1> DEFINE here == {u \in Units : C!Exists(u)}
           n == C!Cardinality(here)
           R == C!Renumbered(s)
<1>1. C!CommitReorder(s) /\ Reordering(s)
  BY IsCommitReorder, ReorderingLoaded
<1>2. /\ here = Loaded(s) /\ n = C!Siblings(s) + 1 /\ n \in Nat
      /\ IsFiniteSet(here) /\ Cardinality(here) = n
  <2>1. here = Loaded(s)
    BY DEF Loaded, C!Exists
  <2>2. IsFiniteSet(Loaded(s)) /\ Cardinality(Loaded(s)) = C!Siblings(s) + 1
        /\ C!Siblings(s) \in Nat
    BY <1>1, LoadedCounts
  <2> HIDE DEF here
  <2>3. n = Cardinality(here)
    BY CourseCounts
  <2> QED
    BY <2>1, <2>2, <2>3
<1>3. \A u \in Units : position'[u] = R[u]
  <2>1. \A u \in Units : work[s].seen[u] = 0 => R[u] = 0
    BY <1>1, NumbersGiven DEF Loaded
  <2> QED
    BY <1>1, <2>1 DEF C!CommitReorder, C!Emitted
<1>4. /\ \A u \in here : R[u] \in 1..n
      /\ \A u, v \in here : R[u] = R[v] => u = v
      /\ R[work[s].item] = IF work[s].to > n THEN n ELSE work[s].to
      /\ \A u, v \in Others(s) : work[s].seen[u] < work[s].seen[v] => R[u] < R[v]
  <2> HIDE DEF here
  <2> QED
    BY <1>1, <1>2, NumbersGiven
<1>5. here \subseteq Units /\ work[s].item \in Units /\ Others(s) = here \ {work[s].item}
  BY <1>1, <1>2 DEF Reordering, Loaded, Others
<1> HIDE DEF here, n, R
<1>6. {position'[u] : u \in here} = 1..n
  <2> DEFINE f == [u \in here |-> R[u]]
  <2>1. f \in [here -> 1..n] /\ \A u, v \in here : f[u] = f[v] => u = v
    BY <1>4
  <2>2. {f[u] : u \in here} = 1..n
    <3> HIDE DEF f
    <3> QED
      BY <1>2, <2>1, OneToN
  <2> QED
    BY <1>3, <1>5, <2>2
<1>7. \A u, v \in here \ {work[s].item} :
        position[u] < position[v] => position'[u] < position'[v]
  BY <1>3, <1>4, <1>5
<1>8. position'[work[s].item] = IF work[s].to > n THEN n ELSE work[s].to
  BY <1>3, <1>4, <1>5
<1> QED
  BY <1>6, <1>7, <1>8 DEF here, n

\* A reordering that is accepted, of a course unchanged since it was loaded, leaves the
\* units numbered from 1, the moved one at its place and the others in their order.
THEOREM ReorderPlaces ==
    ASSUME C!SizesAssumption
    PROVE  C!Spec => C!ReorderIsExact
<1>1. C!IInv /\ [C!Next]_C!vars =>
        [\A s \in Tasks :
         work[s].pc = "reorder" /\ work'[s].pc = "idle" /\ up' /\ C!Accepted(s)
           /\ work[s].seen = position =>
           LET here == {u \in Units : C!Exists(u)}
               n == C!Cardinality(here)
               others == here \ {work[s].item}
           IN  /\ {position'[u] : u \in here} = 1..n
               /\ position'[work[s].item] = IF work[s].to > n THEN n ELSE work[s].to
               /\ \A u, v \in others :
                    position[u] < position[v] => position'[u] < position'[v]]_C!vars
  BY ReorderedExactly
<1> QED
  BY <1>1, ContentInvariance, PTL DEF C!Spec, C!ReorderIsExact

=============================================================================
