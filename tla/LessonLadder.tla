---------------------------- MODULE LessonLadder ----------------------------
(***************************************************************************)
(* What the academy promises a student about one course: the steps of its  *)
(* teacher are climbed one after the other, no completed step is lost, and *)
(* the certificate is given once, after a completed step and, where the    *)
(* course has an assessment, after it was passed.  Steps aside may be taken*)
(* at any time, and the first step of the course may be excused.  Mastery  *)
(* implements this as long as the lessons of the course stay as they are.  *)
(***************************************************************************)
EXTENDS Naturals

CONSTANTS Course,   \* the steps of the course's teacher in order
          Aside,    \* steps with other teachers
          Exam      \* the course has an assessment

VARIABLES opened,     \* steps the student has opened
          done,       \* steps the student has completed
          excused,    \* the first step of the course is not asked for
          examPassed,
          certified

ladder == <<opened, done, excused, examPassed, certified>>

Start ==
    /\ opened = {}
    /\ done = {}
    /\ excused = FALSE
    /\ examPassed = FALSE
    /\ certified = FALSE

Open(p) ==
    /\ Course[p] \notin opened
    /\ \A q \in 1..(p - 1) : Course[q] \in done \/ (q = 1 /\ excused)
    /\ opened' = opened \cup {Course[p]}
    /\ UNCHANGED <<done, excused, examPassed, certified>>

StepAside(k) ==
    /\ k \in Aside \ opened
    /\ opened' = opened \cup {k}
    /\ UNCHANGED <<done, excused, examPassed, certified>>

Excuse ==
    /\ excused' = TRUE
    /\ UNCHANGED <<opened, done, examPassed, certified>>

\* The certificate may come with the completed step, or later.
Award == certified' = certified \/ ((Exam => examPassed) /\ certified' = TRUE)

Complete(k) ==
    /\ k \in opened \ done
    /\ done' = done \cup {k}
    /\ Award
    /\ UNCHANGED <<opened, excused, examPassed>>

Certify ==
    /\ done # {}
    /\ Award
    /\ UNCHANGED <<opened, done, excused, examPassed>>

Pass ==
    /\ Exam
    /\ examPassed' = TRUE
    /\ UNCHANGED <<opened, done, excused, certified>>

Climb ==
    \/ \E p \in DOMAIN Course : Open(p)
    \/ \E k \in Aside : StepAside(k)
    \/ \E k \in opened : Complete(k)
    \/ Excuse
    \/ Certify
    \/ Pass

Spec == Start /\ [][Climb]_ladder
=============================================================================
