---- MODULE MCTools ----
EXTENDS CopilotTools
\* Bound: the teacher works on one row, the others are there for the batches.
OneRowTaught ==
    \A s \in Students : s # 1 =>
        /\ meta[s].status \in {"pending", "executing", "executed", "error"}
        /\ ~meta[s].teacherGrade /\ meta[s].grading = {}
        /\ notebook[s] = 1
        /\ ~results[s].adjusted
====
