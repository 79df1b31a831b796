----------------------------- MODULE Workforce -----------------------------
(***************************************************************************)
(* The general manager agent, the teachers it provisions and the record of *)
(* its tool runs: the owner's chat with the manager, the direct execution  *)
(* of a tool, the manager's own endpoints, and the administration of       *)
(* agents.                                                                 *)
(*                                                                         *)
(* A tool runs inside the transaction of its caller, and the manager's     *)
(* handlers commit that transaction themselves: a run is stored as running *)
(* by the first commit of its handler, together with everything the chat   *)
(* has written so far.  A failing tool rolls back what is not yet stored.  *)
(* The database is the one with row locks: a teacher that is flushed keeps *)
(* the other writers of its row, or of its slug, waiting, while the status *)
(* of the manager may change between its look-up and the commit.  The      *)
(* single writer of SQLite allows fewer interleavings.  Specialists are absent: their provisioning *)
(* fails before its commit, so a delegation to one always does.            *)
(***************************************************************************)
EXTENDS Naturals

CONSTANTS
    Courses,     \* active curriculum courses, each with its teacher's slug
    Runs,        \* agent_runs rows that may be stored
    Chats,       \* exchanges of the owner with the manager
    Slots,       \* requests in progress at once
    NoCourse, NoRun, NoChat

ASSUME NoneAssumption ==
    NoCourse \notin Courses /\ NoRun \notin Runs /\ NoChat \notin Chats

VARIABLES
    manager,     \* status of tofan-main, or none
    teacher,     \* status of the teacher of each course, or none
    madeBy,      \* the run that created the teacher, NoRun for an administrator
    announced,   \* the manager's event of the creation is recorded
    run,         \* agent_runs: status and the chat it was started from
    chat,        \* the messages of each exchange: none, asked, answered, or
                 \* empty: it ended and there was no text to answer with
    job,         \* what the request in each slot is doing
    overrun      \* history: teachers created in each slot since the manager
                 \* was deactivated

vars == <<manager, teacher, madeBy, announced, run, chat, job, overrun>>

\* "draft" stands for paused too: nothing here tells them apart
Status == {"none", "draft", "active", "archived"}
\* the tools left out read only, or are actions of another module
Tools  == {"provision", "set_status", "delegate"}
Pc     == {"idle", "chat", "handler", "write", "commit", "reply", "bootstrap",
           "batch", "admin_status", "manager_status"}

\* tool, run: the tool in execution and its row, which an endpoint of the manager
\* does without; chat: the exchange it belongs
\* to; activates: the manager's activation waits for a commit; asked, todo: the
\* courses to provision and those left; course: the one in hand; writes: its teacher
\* is to be created or changed; to: the status to write
Job == [pc : Pc, tool : Tools \cup {"none"}, run : Runs \cup {NoRun},
        chat : Chats \cup {NoChat}, activates : BOOLEAN, asked : SUBSET Courses,
        todo : SUBSET Courses, course : Courses \cup {NoCourse},
        writes : BOOLEAN, to : Status]

NoJob == [pc |-> "idle", tool |-> "none", run |-> NoRun, chat |-> NoChat,
          activates |-> FALSE, asked |-> {}, todo |-> {}, course |-> NoCourse,
          writes |-> FALSE, to |-> "none"]

TypeOK ==
    /\ manager \in Status \ {"archived"}
    /\ teacher \in [Courses -> Status]
    /\ madeBy \in [Courses -> Runs \cup {NoRun}]
    /\ announced \in [Courses -> BOOLEAN]
    /\ run \in [Runs -> [status : {"none", "running", "completed"},
                         chat : Chats \cup {NoChat}]]
    /\ chat \in [Chats -> {"none", "asked", "answered", "empty"}]
    /\ job \in [Slots -> Job]
    /\ overrun \in [Slots -> Nat]

Init ==
    /\ manager = "none"
    /\ teacher = [c \in Courses |-> "none"]
    /\ madeBy = [c \in Courses |-> NoRun]
    /\ announced = [c \in Courses |-> FALSE]
    /\ run = [r \in Runs |-> [status |-> "none", chat |-> NoChat]]
    /\ chat = [k \in Chats |-> "none"]
    /\ job = [s \in Slots |-> NoJob]
    /\ overrun = [s \in Slots |-> 0]

stored == <<manager, teacher, madeBy, announced, run, chat, overrun>>

-----------------------------------------------------------------------------
(* Helpers *)

Close(s) == job' = [job EXCEPT ![s] = NoJob]

ManagerActed(s) == job[s].run # NoRun  \* variant: the status loaded when the tool began

\* get_manager, which sees what its own transaction has written
ManagerActs(s) == manager = "active" \/ job[s].activates

\* the parts of a commit that every commit of a job has: the activation and
\* the question of its chat, and its run, which is still running
StoreChat(s, answer) ==
    /\ manager' = IF job[s].activates THEN "active" ELSE manager
    /\ chat' = IF job[s].chat = NoChat THEN chat ELSE [chat EXCEPT ![job[s].chat] = answer]

StoreRun(s, status) ==
    run' = IF job[s].run = NoRun THEN run
           ELSE [run EXCEPT ![job[s].run] = [status |-> status, chat |-> job[s].chat]]

\* of the history: a commit of slot s that creates that many teachers
CountOverrun(s, made) ==
    overrun' = [x \in Slots |-> IF manager' = "active" THEN 0
                               ELSE overrun[x] + IF x = s THEN made ELSE 0]

\* the request ends with an error and rolls back
Fail(s) == Close(s) /\ UNCHANGED stored

-----------------------------------------------------------------------------
(* The manager agent *)

\* ensure_main_agent finds no row
LoadMain(s) ==
    /\ job[s].pc = "idle" /\ manager = "none"
    /\ job' = [job EXCEPT ![s] = [NoJob EXCEPT !.pc = "bootstrap"]]
    /\ UNCHANGED stored

\* agents.slug is unique: the second of two insertions fails
CommitMain(s) ==
    /\ job[s].pc = "bootstrap"
    /\ manager' = IF manager = "none" THEN "draft" ELSE manager
    /\ Close(s)
    /\ UNCHANGED <<teacher, madeBy, announced, run, chat, overrun>>

\* change_agent_status: the main agent cannot be archived; ManagerLoads is the
\* look-up, and the column is written, if it changes, once no chat that activates
\* the manager holds its row
ManagerLoads(s, to) ==
    /\ job[s].pc = "idle" /\ manager # "none" /\ to \in {"draft", "active"} \ {manager}
    /\ job' = [job EXCEPT ![s] = [NoJob EXCEPT !.pc = "manager_status", !.to = to]]
    /\ UNCHANGED stored

CommitManagerStatus(s) ==
    /\ job[s].pc = "manager_status"
    /\ \A x \in Slots : ~job[x].activates
    /\ manager' = job[s].to
    /\ CountOverrun(s, 0)
    /\ Close(s)
    /\ UNCHANGED <<teacher, madeBy, announced, run, chat>>

-----------------------------------------------------------------------------
(* The owner's chat *)

OpenChatCommitted(s, k) ==  \* variant: the question is stored at once
    /\ job[s].pc = "idle" /\ manager # "none"
    /\ chat[k] = "none" /\ \A x \in Slots : job[x].chat # k
    /\ job' = [job EXCEPT ![s] = [NoJob EXCEPT !.pc = "chat", !.chat = k,
                                               !.activates = manager # "active"]]
    /\ chat' = [chat EXCEPT ![k] = "asked"]
    /\ UNCHANGED <<manager, teacher, madeBy, announced, run, overrun>>

\* chat_with_main_agent: the manager is activated and the question appended,
\* both in the transaction that the first commit of a tool or the end stores
OpenChat(s, k) ==
    /\ job[s].pc = "idle" /\ manager # "none"
    /\ chat[k] = "none" /\ \A x \in Slots : job[x].chat # k
    /\ job' = [job EXCEPT ![s] = [NoJob EXCEPT !.pc = "chat", !.chat = k,
                                               !.activates = manager # "active"]]
    /\ UNCHANGED stored

\* the answer is appended, unless it is an empty text, and the transaction committed
EndChat(s) ==
    /\ job[s].pc = "chat"
    /\ \E answer \in {"answered", "empty"} : StoreChat(s, answer)
    /\ CountOverrun(s, 0)
    /\ Close(s)
    /\ UNCHANGED <<teacher, madeBy, announced, run>>

\* the provider fails in the fallback, or the depth of tool calls is exceeded
FailChat(s) == job[s].pc = "chat" /\ Fail(s)

-----------------------------------------------------------------------------
(* Tool runs *)

Free(r) == run[r].status = "none" /\ \A x \in Slots : job[x].run # r

\* what the handlers are given: one course or all active ones to provision, one
\* teacher to switch
Arguments(tool) ==
    CASE tool = "provision"  -> {{c} : c \in Courses} \cup {Courses}
      [] tool = "set_status" -> {{c} : c \in Courses}
      [] tool = "delegate"   -> {{}}

\* execute_tool adds the run and calls the handler; the agent's status is the
\* one its request has loaded
BeginTool(s, r, tool, courses, to) ==
    /\ \/ job[s].pc = "idle" /\ manager = "active"
       \/ job[s].pc = "chat"
    /\ Free(r) /\ courses \in Arguments(tool)
    /\ job' = [job EXCEPT ![s] = [job[s] EXCEPT
          !.pc = "handler", !.tool = tool, !.run = r, !.to = to,
          !.asked = courses, !.todo = courses]]
    /\ UNCHANGED stored

\* the manager's endpoints call the handler for one course, without a run
BeginDirect(s, tool, c, to) ==
    /\ job[s].pc = "idle" /\ tool \in {"provision", "set_status"}
    /\ job' = [job EXCEPT ![s] = [NoJob EXCEPT
          !.pc = "handler", !.tool = tool, !.to = to, !.asked = {c}, !.todo = {c}]]
    /\ UNCHANGED stored

\* manager.delegate_specialist and manager.provision_specialist: no specialist
\* exists, and provisioning one stops at a name that main_manager does not import
Delegate(s) ==
    /\ job[s].pc = "handler" /\ job[s].tool = "delegate"
    /\ Fail(s)

\* the teacher is not there yet, or has another status
ToWrite(s, c) ==
    IF job[s].tool = "provision" THEN teacher[c] = "none" ELSE teacher[c] # job[s].to

\* variant: a course whose teacher cannot be created is passed over
LookUpOrSkip(s, c) ==
    /\ job[s].pc = "handler" /\ job[s].tool # "delegate" /\ c \in job[s].todo
    /\ IF ~ManagerActs(s)
       THEN job' = [job EXCEPT ![s].todo = @ \ {c}]
       ELSE job' = [job EXCEPT ![s].pc = "write", ![s].course = c,
                               ![s].writes = ToWrite(s, c)]
    /\ UNCHANGED stored

\* provision_teacher looks the slug up; set_teacher_status loads the teacher
LookUp(s, c) ==
    /\ job[s].pc = "handler" /\ job[s].tool # "delegate" /\ c \in job[s].todo
    /\ IF job[s].tool = "set_status" /\ teacher[c] \in {"none", "archived"}
       THEN Fail(s)
       ELSE /\ job' = [job EXCEPT ![s].pc = "write", ![s].course = c,
                                  ![s].writes = ToWrite(s, c)]
            /\ UNCHANGED stored

Creates(s) == job[s].tool = "provision" /\ job[s].writes

\* another transaction has inserted the slug of the course, or updated the row of its
\* teacher, and has not ended
Locked(s, c) ==
    \E x \in Slots \ {s} :
        job[x].pc = "commit" /\ job[x].course = c /\ job[x].writes

Waits(s) == job[s].writes /\ Locked(s, job[s].course)

\* the slug was taken since the look-up
SlugTaken(s) == Creates(s) /\ teacher[job[s].course] # "none"

\* the teacher is flushed, and then record_event looks the active manager up
FlushCourse(s) ==
    /\ job[s].pc = "write" /\ ~Waits(s) /\ ~SlugTaken(s)
    /\ ManagerActs(s)
    /\ job' = [job EXCEPT ![s].pc = "commit"]
    /\ UNCHANGED stored

FailCourse(s) ==
    /\ job[s].pc = "write" /\ ~Waits(s)
    /\ SlugTaken(s) \/ ~ManagerActs(s)
    /\ Fail(s)

\* what one course of the handler writes: nothing for a teacher that is there
WriteTeacher(s, c) ==
    /\ teacher' = [teacher EXCEPT ![c] = IF Creates(s) THEN "draft"
                                        ELSE IF job[s].writes THEN job[s].to ELSE @]
    /\ announced' = [announced EXCEPT ![c] = @ \/ Creates(s)]
    /\ madeBy' = [madeBy EXCEPT ![c] = IF Creates(s) THEN job[s].run ELSE @]

CommitCourseUnlogged(s) ==  \* variant: the run is stored with its result only
    LET c == job[s].course IN
    /\ job[s].pc = "commit"
    /\ WriteTeacher(s, c)
    /\ StoreChat(s, "asked") /\ UNCHANGED run
    /\ CountOverrun(s, IF Creates(s) THEN 1 ELSE 0)
    /\ job' = [job EXCEPT ![s].pc = "handler", ![s].activates = FALSE,
                          ![s].todo = @ \ {c}, ![s].course = NoCourse, ![s].writes = FALSE]

\* the commit inside the handler, whatever became of the manager meanwhile
CommitCourse(s) ==
    LET c == job[s].course IN
    /\ job[s].pc = "commit"
    /\ WriteTeacher(s, c)
    /\ StoreChat(s, "asked") /\ StoreRun(s, "running")
    /\ CountOverrun(s, IF Creates(s) THEN 1 ELSE 0)
    /\ job' = [job EXCEPT ![s].pc = "handler", ![s].activates = FALSE,
                          ![s].todo = @ \ {c}, ![s].course = NoCourse, ![s].writes = FALSE]

\* execute_tool completes the run; a chat goes on with its next call
FinishTool(s) ==
    /\ job[s].pc = "handler" /\ job[s].tool # "delegate" /\ job[s].todo = {}
    /\ StoreRun(s, "completed") /\ StoreChat(s, "asked") /\ CountOverrun(s, 0)
    /\ job' = [job EXCEPT ![s] = [NoJob EXCEPT !.pc = "reply", !.tool = job[s].tool,
          !.run = job[s].run, !.chat = job[s].chat, !.asked = job[s].asked]]
    /\ UNCHANGED <<teacher, madeBy, announced>>

Reply(s) ==
    /\ job[s].pc = "reply"
    /\ job' = [job EXCEPT ![s] = IF job[s].chat = NoChat THEN NoJob
                  ELSE [NoJob EXCEPT !.pc = "chat", !.chat = job[s].chat]]
    /\ UNCHANGED stored

-----------------------------------------------------------------------------
(* Administration of the teachers *)

\* create_curriculum_teacher and the provisioning of a curriculum: the courses
\* of todo had no teacher when their slugs were looked up
LoadBatch(s, courses) ==
    /\ job[s].pc = "idle" /\ courses # {}
    /\ \A c \in courses : teacher[c] = "none"
    /\ job' = [job EXCEPT ![s] = [NoJob EXCEPT !.pc = "batch", !.todo = courses]]
    /\ UNCHANGED stored

\* one commit; a slug taken meanwhile fails all of it
CommitBatch(s) ==
    /\ job[s].pc = "batch" /\ \A c \in job[s].todo : ~Locked(s, c)
    /\ teacher' = IF \A c \in job[s].todo : teacher[c] = "none"
                  THEN [c \in Courses |-> IF c \in job[s].todo THEN "draft" ELSE teacher[c]]
                  ELSE teacher
    /\ Close(s)
    /\ UNCHANGED <<manager, madeBy, announced, run, chat, overrun>>

\* change_teacher_status and change_agent_status: any status to any other
LoadTeacher(s, c, to) ==
    /\ job[s].pc = "idle" /\ teacher[c] # "none" /\ to \in Status \ {"none", teacher[c]}
    /\ job' = [job EXCEPT ![s] = [NoJob EXCEPT !.pc = "admin_status", !.course = c,
                                               !.to = to]]
    /\ UNCHANGED stored

CommitTeacherStatus(s) ==
    /\ job[s].pc = "admin_status"
    /\ ~Locked(s, job[s].course)
    /\ teacher' = [teacher EXCEPT ![job[s].course] = job[s].to]
    /\ Close(s)
    /\ UNCHANGED <<manager, madeBy, announced, run, chat, overrun>>

\* the process stops, or a commit fails: what is not stored is gone
Crash(s) == job[s].pc # "idle" /\ Fail(s)

-----------------------------------------------------------------------------
Next ==
    \E s \in Slots :
        \/ LoadMain(s) \/ CommitMain(s) \/ CommitManagerStatus(s)
        \/ \E to \in Status : ManagerLoads(s, to)
        \/ \E k \in Chats : OpenChat(s, k)
        \/ EndChat(s) \/ FailChat(s)
        \/ \E r \in Runs, tool \in Tools, courses \in SUBSET Courses :
              \E to \in IF tool = "set_status" THEN Status \ {"none"} ELSE {"none"} :
                BeginTool(s, r, tool, courses, to)
        \/ Delegate(s)
        \/ \E c \in Courses : LookUp(s, c)
        \/ \E tool \in Tools, c \in Courses :
              \E to \in IF tool = "set_status" THEN Status \ {"none"} ELSE {"none"} :
                BeginDirect(s, tool, c, to)
        \/ FlushCourse(s) \/ FailCourse(s) \/ CommitCourse(s)
        \/ FinishTool(s) \/ Reply(s)
        \/ \E courses \in SUBSET Courses : LoadBatch(s, courses)
        \/ CommitBatch(s)
        \/ \E c \in Courses, to \in Status : LoadTeacher(s, c, to)
        \/ CommitTeacherStatus(s) \/ Crash(s)

Spec == Init /\ [][Next]_vars

-----------------------------------------------------------------------------
(* Properties *)

\* Whatever a tool has changed is on record: a teacher the manager created has
\* its run and its event, even when the tool failed or the process stopped after
\* the commit inside the handler (execute_tool, provision_teacher).
EffectsAreLogged ==
    \A c \in Courses : madeBy[c] # NoRun =>
        run[madeBy[c]].status # "none" /\ announced[c] /\ teacher[c] # "none"

\* An answer that counts the courses as provisioned is true of all of them,
\* whoever created their teachers meanwhile (provision_all_teachers).
ProvisioningIsComplete ==
    \A s \in Slots : job[s].pc = "reply" /\ job[s].tool = "provision" =>
        \A c \in job[s].asked : teacher[c] # "none"

\* A chat that failed or was cut short has left its question only if it has acted: one
\* that fails before its first tool leaves nothing behind.  Only a chat that ends, with
\* an empty text, may store an unanswered question alone (chat_with_main_agent).
UnansweredChatsActed ==
    \A k \in Chats : chat[k] = "asked" =>
        \E r \in Runs : run[r].status # "none" /\ run[r].chat = k

\* Deactivating the manager stops its tools, those in progress too: the agent loaded
\* when they began still says active, but a request creates at most the one teacher
\* whose look-up of the manager came before the deactivation (get_manager).
DeactivatedManagerStops == \A s \in Slots : overrun[s] <= 1

-----------------------------------------------------------------------------
(* The inductive invariant *)

\* what the request in slot s knows of its run, of the teachers and of its task
JobIsSound(s) ==
    LET j == job[s] IN
    /\ j.run # NoRun => j.pc \in {"handler", "write", "commit", "reply"}
    /\ j.run = NoRun /\ j.pc # "chat" => j.chat = NoChat
    /\ j.run # NoRun =>
         /\ run[j.run].status = "completed" <=> j.pc = "reply"
         /\ run[j.run].status # "none" => run[j.run].chat = j.chat
    /\ j.pc = "chat" => j.chat # NoChat
    /\ j.pc \in {"handler", "write", "commit"} => j.tool # "none"
    /\ j.pc \in {"write", "commit"} => j.tool # "delegate" /\ j.course \in j.todo
    /\ j.pc = "reply" => j.todo = {}
    /\ j.tool = "provision" => \A c \in j.asked \ j.todo : teacher[c] # "none"
    /\ j.tool = "provision" /\ j.pc \in {"write", "commit"} /\ ~j.writes =>
         teacher[j.course] # "none"
    /\ j.tool = "set_status" /\ j.pc # "reply" => j.to # "none"
    /\ j.tool = "set_status" /\ j.pc \in {"write", "commit"} => teacher[j.course] # "none"
    /\ j.pc = "admin_status" =>
         j.course # NoCourse /\ j.to # "none" /\ teacher[j.course] # "none"
    /\ j.pc = "manager_status" => j.to \in {"draft", "active"}

JobsAreSound == \A s \in Slots : JobIsSound(s)

\* a request has its run and its chat to itself
HeldOnce ==
    \A s, x \in Slots : s # x =>
      /\ job[s].run # NoRun => job[s].run # job[x].run
      /\ job[s].chat # NoChat => job[s].chat # job[x].chat

\* a request that has overrun a deactivation is past its last look-up that succeeded
OverrunIsPast ==
    \A s \in Slots : overrun[s] # 0 =>
      /\ overrun[s] = 1 /\ manager # "active"
      /\ ~(job[s].pc = "commit" /\ Creates(s) /\ ~job[s].activates)

\* requests, runs, teachers and chats agree
RequestsAgree ==
    TypeOK /\ JobsAreSound /\ HeldOnce /\ EffectsAreLogged /\ UnansweredChatsActed

\* The invariant the theorems are proved by.
IInv == RequestsAgree /\ OverrunIsPast

=============================================================================
