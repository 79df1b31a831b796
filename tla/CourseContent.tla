--------------------------- MODULE CourseContent ---------------------------
(***************************************************************************)
(* The units and lessons of one course: the generator that asks a model    *)
(* for the content that is missing, the administration that edits and      *)
(* reorders them, and the seeds that every start of the application runs.  *)
(*                                                                         *)
(* Units are rows, numbered in the order of their primary keys, and each   *)
(* has a position in the course.  The generator reads the course, waits    *)
(* for the model with nothing locked, looks the rows up again and saves    *)
(* everything with one commit.  The database is the one with row locks and *)
(* enforced foreign keys; a constraint is checked at each row written.     *)
(* The course is in the registry and has its learning outcomes.            *)
(***************************************************************************)
EXTENDS Naturals, FiniteSets

CONSTANTS
    Units,       \* rows of curriculum_units that may exist, by primary key
    MaxPosition, \* bound on the position of a unit
    MaxLesson,   \* bound on the position of a lesson in its unit
    Mapped,      \* positions of the units the delivery map lists
    MinUnits,    \* the fewest units of a course generated from nothing
    Slots        \* requests in progress at once

Positions == 1..MaxPosition
Lessons == 1..MaxLesson

ASSUME SizesAssumption ==
    /\ Units \subseteq Nat \ {0} /\ IsFiniteSet(Units)
    /\ MaxPosition \in Nat /\ MaxLesson \in Nat \ {0}
    /\ Mapped \subseteq Positions
    /\ MinUnits \in Nat

VARIABLES
    position,    \* of each unit in the course, 0 while there is no such row
    lesson,      \* what each lesson holds
    active,      \* the course is active
    job,         \* what the request in each slot is doing
    up           \* the application is running

vars == <<position, lesson, active, job, up>>
stored == <<position, lesson, active>>

\* none: no row; empty: no content; admin, ai: content and who wrote it
Content == {"none", "empty", "admin", "ai"}
Written == {"admin", "ai"}
Pc == {"idle", "model", "save", "reorder"}

\* one unit of a scope: absent, or the lessons that have content;
\* one unit of a plan: absent, or the lessons to write
Part == [there : BOOLEAN, lessons : SUBSET Lessons]
Absent == [there |-> FALSE, lessons |-> {}]

\* scope: the course as the generator read it; create: the units its answer adds;
\* update, insert: the lessons to write, with a row and without; seen, item, to:
\* of a reordering, the positions loaded, the unit to move and where
Job == [pc : Pc, scope : [Positions -> Part], create : [Positions -> Part],
        update : SUBSET (Units \X Lessons), insert : SUBSET (Units \X Lessons),
        seen : [Units -> Positions \cup {0}], item : Units \cup {0},
        to : Positions \cup {0}]

NoJob == [pc |-> "idle", scope |-> [p \in Positions |-> Absent],
          create |-> [p \in Positions |-> Absent], update |-> {}, insert |-> {},
          seen |-> [u \in Units |-> 0], item |-> 0, to |-> 0]

TypeOK ==
    /\ position \in [Units -> Positions \cup {0}]
    /\ lesson \in [Units -> [Lessons -> Content]]
    /\ active \in BOOLEAN
    /\ job \in [Slots -> Job]
    /\ up \in BOOLEAN

\* an empty database, before the first start
Init ==
    /\ position = [u \in Units |-> 0]
    /\ lesson = [u \in Units |-> [l \in Lessons |-> "none"]]
    /\ active = TRUE
    /\ job = [s \in Slots |-> NoJob]
    /\ up = FALSE

-----------------------------------------------------------------------------
(* Helpers *)

Exists(u) == position[u] # 0
IsFree(p) == \A u \in Units : position[u] # p

\* the unit at a position of the course, 0 if there is none
At(p) == IF IsFree(p) THEN 0 ELSE CHOOSE u \in Units : position[u] = p

\* a row that does not exist and that no request refers to
Fresh(u) ==
    /\ ~Exists(u)
    /\ \A s \in Slots :
         /\ job[s].seen[u] = 0
         /\ \A x \in job[s].update \cup job[s].insert : x[1] # u

HasContent(u) == {l \in Lessons : lesson[u][l] \in Written}
Rows(u) == {l \in Lessons : lesson[u][l] # "none"}
AllRows == {x \in Units \X Lessons : lesson[x[1]][x[2]] # "none"}

\* _targets: the course is active and needs content
IsTarget ==
    /\ active
    /\ \/ \A u \in Units : ~Exists(u)
       \/ Cardinality(AllRows) < Cardinality({u \in Units : Exists(u)})
       \/ \E x \in AllRows : lesson[x[1]][x[2]] = "empty"

\* _existing_scope
Scope == [p \in Positions |->
            IF IsFree(p) THEN Absent
            ELSE [there |-> TRUE, lessons |-> HasContent(At(p))]]

ValidatedLoosely(plan, scope) ==  \* variant: a unit may come without lessons
    /\ \E p \in Positions : plan[p].there
    /\ \A p \in Positions :
         /\ scope[p].there => plan[p].there
         /\ plan[p].lessons \cap scope[p].lessons = {}
         /\ ~plan[p].there => plan[p].lessons = {}

\* _validate accepts the answer for the scope: the units there are kept, a unit
\* has lessons, those with content are left out
Validated(plan, scope) ==
    /\ \E p \in Positions : plan[p].there
    /\ \A p \in Positions :
         /\ scope[p].there => plan[p].there
         /\ plan[p].lessons \cap scope[p].lessons = {}
         /\ plan[p].there /\ scope[p].lessons = {} => plan[p].lessons # {}
         /\ ~plan[p].there => plan[p].lessons = {}
    /\ (\A p \in Positions : ~scope[p].there)
         => Cardinality({p \in Positions : plan[p].there}) >= MinUnits

Close(s) == job' = [job EXCEPT ![s] = NoJob]

\* the request ends without writing
Fail(s) == Close(s) /\ UNCHANGED <<stored, up>>

-----------------------------------------------------------------------------
(* The generator *)

\* generate_next_courses, generate_course_preview and save_course_preview read
\* the course and go on only with one that needs content
LoadScope(s) ==
    /\ up /\ job[s].pc = "idle" /\ IsTarget
    /\ job' = [job EXCEPT ![s] = [NoJob EXCEPT !.pc = "model", !.scope = Scope]]
    /\ UNCHANGED <<stored, up>>

\* the lessons of the plan in the units that exist
Planned(plan) ==
    {x \in Units \X Lessons : Exists(x[1]) /\ x[2] \in plan[position[x[1]]].lessons}

WantedAll(plan) ==  \* variant: content found is written over
    Planned(plan)

\* those _save writes: a lesson that has content is passed over
Wanted(plan) == {x \in Planned(plan) : lesson[x[1]][x[2]] \notin Written}

\* the answer is valid; _save looks up the unit at each position and its lessons
LookUp(s, plan) ==
    /\ job[s].pc = "model" /\ Validated(plan, job[s].scope)
    /\ job' = [job EXCEPT ![s] =
                 [NoJob EXCEPT !.pc = "save", !.scope = job[s].scope,
                    !.create = [p \in Positions |-> IF IsFree(p) THEN plan[p] ELSE Absent],
                    !.update = Wanted(plan) \cap AllRows,
                    !.insert = Wanted(plan) \ AllRows]]
    /\ UNCHANGED <<stored, up>>

\* no answer, an answer that fails validation, or only a preview was asked for
GiveUp(s) == job[s].pc = "model" /\ Fail(s)

Creates(s) == {p \in Positions : job[s].create[p].there}

\* the rows found are still there, a lesson to insert is still missing and its
\* unit is not, and the positions of the units to create are free
CanSave(s) ==
    /\ job[s].update \subseteq AllRows
    /\ job[s].insert \cap AllRows = {}
    /\ \A x \in job[s].insert : Exists(x[1])
    /\ \A p \in Creates(s) : IsFree(p)

\* the rows of the units to create, one to each position
Creations(s) == {new \in [Creates(s) -> {u \in Units : Fresh(u)}] :
                   \A p, q \in Creates(s) : p # q => new[p] # new[q]}

\* units, lessons and the audit line are saved together
CommitSave(s) ==
    /\ job[s].pc = "save" /\ CanSave(s)
    /\ \E new \in Creations(s) :
         LET made == job[s].update \cup job[s].insert \cup
                     UNION {{new[p]} \X job[s].create[p].lessons : p \in Creates(s)}
         IN  /\ position' = [u \in Units |->
                               IF \E p \in Creates(s) : new[p] = u
                                 THEN CHOOSE p \in Creates(s) : new[p] = u
                                 ELSE position[u]]
             /\ lesson' = [u \in Units |-> [l \in Lessons |->
                             IF <<u, l>> \in made THEN "ai" ELSE lesson[u][l]]]
    /\ Close(s)
    /\ UNCHANGED <<active, up>>

\* a row is gone or a position is taken: the whole course is rolled back
FailSave(s) == job[s].pc = "save" /\ ~CanSave(s) /\ Fail(s)

-----------------------------------------------------------------------------
(* Administration; an edit writes only the columns of its payload *)

\* create_native_unit and the manager's tool
CreateUnit(u, p) ==
    /\ up /\ Fresh(u) /\ IsFree(p)
    /\ position' = [position EXCEPT ![u] = p]
    /\ UNCHANGED <<lesson, active, job, up>>

\* update_native_unit, refused when the position is taken
MoveUnit(u, p) ==
    /\ up /\ Exists(u) /\ IsFree(p)
    /\ position' = [position EXCEPT ![u] = p]
    /\ UNCHANGED <<lesson, active, job, up>>

\* create_native_lesson, with or without content
CreateLesson(u, l, content) ==
    /\ up /\ Exists(u) /\ lesson[u][l] = "none" /\ content \in {"empty", "admin"}
    /\ lesson' = [lesson EXCEPT ![u][l] = content]
    /\ UNCHANGED <<position, active, job, up>>

\* update_native_lesson, as to the content: a lesson is named by its position in its
\* unit, and a change of that position, here or by reordering, is not modelled
EditLesson(u, l, content) ==
    /\ up /\ lesson[u][l] # "none" /\ content \in {"empty", "admin"}
    /\ lesson' = [lesson EXCEPT ![u][l] = content]
    /\ UNCHANGED <<position, active, job, up>>

\* delete_native_resource; a unit is refused while lessons refer to it
DeleteLesson(u, l) ==
    /\ up /\ lesson[u][l] # "none"
    /\ lesson' = [lesson EXCEPT ![u][l] = "none"]
    /\ UNCHANGED <<position, active, job, up>>

DeleteUnit(u) ==
    /\ up /\ Exists(u) /\ Rows(u) = {}
    /\ position' = [position EXCEPT ![u] = 0]
    /\ UNCHANGED <<lesson, active, job, up>>

\* toggle_native_active; a save in progress goes on
ToggleCourse ==
    /\ up
    /\ active' = ~active
    /\ UNCHANGED <<position, lesson, job, up>>

-----------------------------------------------------------------------------
(* Reordering a unit among its siblings *)

LoadReorder(s, u, p) ==
    /\ up /\ job[s].pc = "idle" /\ Exists(u)
    /\ job' = [job EXCEPT ![s] = [NoJob EXCEPT !.pc = "reorder", !.seen = position,
                                               !.item = u, !.to = p]]
    /\ UNCHANGED <<stored, up>>

\* how many of a set of units come before u in the order loaded
Before(s, u) ==
    Cardinality({v \in Units \ {job[s].item} :
                   job[s].seen[v] # 0 /\ job[s].seen[v] < job[s].seen[u]})

\* how many siblings were loaded
Siblings(s) == Cardinality({v \in Units \ {job[s].item} : job[s].seen[v] # 0})

PlaceAfter(s) ==  \* variant: inserted at the position, not one before it
    IF job[s].to > Siblings(s) THEN Siblings(s) + 1 ELSE job[s].to + 1

\* the place of the moved unit: the end when there are fewer
Place(s) == IF job[s].to > Siblings(s) + 1 THEN Siblings(s) + 1 ELSE job[s].to

\* the siblings are numbered from 1 around that place
Renumbered(s) ==
    [u \in Units |->
       IF u = job[s].item THEN Place(s)
       ELSE IF job[s].seen[u] = 0 THEN 0
       ELSE IF Before(s, u) + 1 < Place(s) THEN Before(s, u) + 1
       ELSE Before(s, u) + 2]

\* the rows the flush writes: the moved unit, which was set to 0, and those
\* whose number differs from the one loaded
Emitted(s) ==
    {job[s].item} \cup
    {u \in Units : job[s].seen[u] # 0 /\ Renumbered(s)[u] # job[s].seen[u]}

\* the flush writes the rows in the order of their keys, and each must find its
\* position free: rows with smaller keys have moved, the others have not
Accepted(s) ==
    /\ \A u \in Emitted(s) : Exists(u)
    /\ \A u \in Emitted(s), v \in Units \ {job[s].item} :
         u # v => Renumbered(s)[u] #
                    (IF v \in Emitted(s) /\ v < u THEN Renumbered(s)[v] ELSE position[v])

CommitReorder(s) ==
    /\ job[s].pc = "reorder" /\ Accepted(s)
    /\ position' = [u \in Units |-> IF u \in Emitted(s) THEN Renumbered(s)[u] ELSE position[u]]
    /\ Close(s)
    /\ UNCHANGED <<lesson, active, up>>

FailReorder(s) == job[s].pc = "reorder" /\ ~Accepted(s) /\ Fail(s)

-----------------------------------------------------------------------------
(* Start and stop of the application *)

\* the lessons of a unit the delivery map lists, after the seed: the first
\* one exists
SeededLessons(u) ==
    [l \in Lessons |-> IF l = 1 /\ lesson[u][l] = "none" THEN "empty" ELSE lesson[u][l]]

\* seed_global_curricula: a registered course is activated again; it lists no units
SeedGlobally == active' = TRUE

\* init_db: seed_tofan_curriculum adds what the delivery map lists and is missing
Start ==
    /\ ~up
    /\ \E new \in [{p \in Mapped : IsFree(p)} -> {u \in Units : ~Exists(u)}] :
         /\ \A p, q \in DOMAIN new : p # q => new[p] # new[q]
         /\ position' = [u \in Units |-> IF \E p \in DOMAIN new : new[p] = u
                                           THEN CHOOSE p \in DOMAIN new : new[p] = u
                                           ELSE position[u]]
    /\ lesson' = [u \in Units |-> IF position'[u] \in Mapped THEN SeededLessons(u)
                                                             ELSE lesson[u]]
    /\ SeedGlobally
    /\ up' = TRUE
    /\ UNCHANGED job

\* the process ends: open transactions are rolled back
Stop ==
    /\ up
    /\ up' = FALSE
    /\ job' = [s \in Slots |-> NoJob]
    /\ UNCHANGED stored

-----------------------------------------------------------------------------
Generator(s) ==
    \/ LoadScope(s)
    \/ \E plan \in [Positions -> Part] : LookUp(s, plan)
    \/ GiveUp(s) \/ CommitSave(s) \/ FailSave(s)

Edit(u) ==
    \/ \E p \in Positions : CreateUnit(u, p) \/ MoveUnit(u, p)
    \/ \E l \in Lessons, content \in {"empty", "admin"} :
         CreateLesson(u, l, content) \/ EditLesson(u, l, content)
    \/ \E l \in Lessons : DeleteLesson(u, l)
    \/ DeleteUnit(u)

Reorder(s) ==
    \/ \E u \in Units, p \in Positions : LoadReorder(s, u, p)
    \/ CommitReorder(s) \/ FailReorder(s)

Next ==
    \/ \E s \in Slots : Generator(s) \/ Reorder(s)
    \/ \E u \in Units : Edit(u)
    \/ ToggleCourse \/ Start \/ Stop

Spec == Init /\ [][Next]_vars

-----------------------------------------------------------------------------
(* Properties *)

\* The unique positions of the units and the foreign key of the lessons, and
\* what the requests in progress rely on: none survives a stop, a lesson is
\* either inserted or updated, a reordering moves a unit it has loaded, and has
\* loaded no position twice.
PositionsAreUnique ==
    \A u, v \in Units : Exists(u) /\ position[u] = position[v] => u = v

LessonsHaveUnits == \A x \in AllRows : Exists(x[1])

JobIsSound(s) ==
    /\ job[s].pc # "idle" => up
    /\ job[s].pc = "reorder" => job[s].item # 0 /\ job[s].to # 0
                                /\ job[s].seen[job[s].item] # 0
    /\ \A u, v \in Units : job[s].seen[u] # 0 /\ job[s].seen[u] = job[s].seen[v] => u = v
    /\ \A p \in Positions : ~job[s].create[p].there => job[s].create[p].lessons = {}
    /\ job[s].update \cap job[s].insert = {}

JobsAreSound == \A s \in Slots : JobIsSound(s)

\* A save creates a unit without lessons only where the course, when it was read
\* for the model, had a unit with content that has been moved or deleted since: the
\* validation leaves out the lessons with content, and may leave none (199-220).
EmptyUnitsWereDisplaced ==
    \A s \in Slots, p \in Positions :
      job[s].create[p].there /\ job[s].create[p].lessons = {}
        => job[s].scope[p].lessons # {}

IInv ==
    /\ TypeOK
    /\ PositionsAreUnique
    /\ LessonsHaveUnits
    /\ JobsAreSound
    /\ EmptyUnitsWereDisplaced

\* Content that is written stays until the administration changes it.  A start of
\* the application keeps all of it.  The generator never sets out to write a
\* lesson whose content is there when the save looks, however old the reading of
\* the course its answer was made for, and replaces an administrator's text only
\* if that was written after the look (_save, 257-262; seed_delivery_map, 73-79).
ContentIsKept ==
    [][\A u \in Units, l \in Lessons :
         lesson[u][l] \in Written =>
           /\ ~up => lesson'[u][l] = lesson[u][l]
           /\ lesson[u][l] = "admin" /\ lesson'[u][l] = "ai"
                => \E s \in Slots : <<u, l>> \in job[s].update
           /\ \A s \in Slots :
                <<u, l>> \in job'[s].update => <<u, l>> \in job[s].update]_vars

\* A reordering that is accepted, of a course nobody else has changed since it
\* was loaded, puts the unit where it was asked, or last, numbers the units from
\* 1 without a gap, and keeps the order of the others (reorder_native_resource).
ReorderIsExact ==
    [][\A s \in Slots :
         job[s].pc = "reorder" /\ job'[s].pc = "idle" /\ up' /\ Accepted(s)
           /\ job[s].seen = position =>
           LET here == {u \in Units : Exists(u)}
               n == Cardinality(here)
               others == here \ {job[s].item}
           IN  /\ {position'[u] : u \in here} = 1..n
               /\ position'[job[s].item] = IF job[s].to > n THEN n ELSE job[s].to
               /\ \A u, v \in others :
                    position[u] < position[v] => position'[u] < position'[v]]_vars

=============================================================================
