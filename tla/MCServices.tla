------------------------------ MODULE MCServices ------------------------------
(***************************************************************************)
(* The services beside the submission server, and the persist lock for     *)
(* itself, checked in one go.  They share no state: a behaviour is one of  *)
(* any one of them, and the state space the union of theirs, not the       *)
(* product.                                                                *)
(***************************************************************************)
EXTENDS MCEvaluation, Calibration, CopilotThreads, DocsIndex, Executor, GradingPage, PersistLock,
        Plagiarism, Sessions

CONSTANT Services  \* those looked at

VARIABLE service   \* the one whose behaviour this is

serviceVars == <<pipelineVars, calibrationVars, threadVars, docsVars, executorVars, lockVars, plagiarismVars, sessionVars, gradingVars>>
vars == <<service, serviceVars>>

MCSubmitted == {<<"text", "broken", "needs">>, <<"broken", "broken">>, <<"needs", "broken", "needs">>}
Outcome(metrics, bounded, hadError) == [metrics |-> metrics, bounded |-> bounded, hadError |-> hadError]
MCOutcomes == <<Outcome("band", FALSE, FALSE), Outcome("outside", TRUE, FALSE), Outcome("none", TRUE, TRUE)>>
MCHanded == <<<<"a", "a", "b">>, <<"a">>, <<"a", "c", "text">>>>

Init ==
    /\ service \in Services
    /\ PipelineInit /\ CalibrationInit /\ ThreadsInit /\ DocsInit /\ ExecutorInit /\ LockInit /\ PlagiarismInit /\ SessionInit
    /\ GradingInit
    \* One initial state of each service that is not looked at.
    /\ service # "preEvaluation" => eval.facts = CHOOSE f \in Notebooks : TRUE
    /\ service # "calibration" => dimension = CHOOSE d \in Measured : TRUE
    /\ service # "grading" => ~display.known
    /\ service # "threads" => overlap = CHOOSE o \in Overlaps : TRUE

PipelineStep ==
    /\ service = "preEvaluation" /\ PipelineNext
    /\ UNCHANGED <<service, calibrationVars, threadVars, docsVars, executorVars, lockVars, plagiarismVars, sessionVars, gradingVars>>
CalibrationStep ==
    /\ service = "calibration" /\ CalibrationNext
    /\ UNCHANGED <<service, pipelineVars, threadVars, docsVars, executorVars, lockVars, plagiarismVars, sessionVars, gradingVars>>
ThreadsStep ==
    /\ service = "threads" /\ ThreadsNext
    /\ UNCHANGED <<service, pipelineVars, calibrationVars, docsVars, executorVars, lockVars, plagiarismVars, sessionVars, gradingVars>>
DocsStep ==
    /\ service = "docs" /\ DocsNext
    /\ UNCHANGED <<service, pipelineVars, calibrationVars, threadVars, executorVars, lockVars, plagiarismVars, sessionVars, gradingVars>>
ExecutorStep ==
    /\ service = "executor" /\ ExecutorNext
    /\ UNCHANGED <<service, pipelineVars, calibrationVars, threadVars, docsVars, lockVars, plagiarismVars, sessionVars, gradingVars>>
LockStep ==
    /\ service = "lock" /\ LockNext
    /\ UNCHANGED <<service, pipelineVars, calibrationVars, threadVars, docsVars, executorVars, plagiarismVars, sessionVars, gradingVars>>
PlagiarismStep ==
    /\ \/ service = "plagiarismServer" /\ ServerPart
       \/ service = "plagiarismPage" /\ PagePart
    /\ UNCHANGED <<service, pipelineVars, calibrationVars, threadVars, docsVars, executorVars, lockVars, sessionVars, gradingVars>>
SessionStep ==
    /\ service = "sessions" /\ SessionNext
    /\ UNCHANGED <<service, pipelineVars, calibrationVars, threadVars, docsVars, executorVars, lockVars, plagiarismVars, gradingVars>>

GradingStep ==
    /\ service = "grading" /\ GradingNext
    /\ UNCHANGED <<service, pipelineVars, calibrationVars, threadVars, docsVars, executorVars, lockVars, plagiarismVars, sessionVars>>

Next ==
    \/ PipelineStep \/ CalibrationStep \/ ThreadsStep \/ DocsStep
    \/ ExecutorStep \/ LockStep \/ PlagiarismStep \/ SessionStep \/ GradingStep

\* The fairness of the services, each while the behaviour is its own.
Fairness ==
    /\ WF_vars(PipelineStep /\ Evaluate)
    /\ WF_vars(DocsStep /\ (Download \/ Rebuild))
    /\ WF_vars(ExecutorStep /\ Serve)
    /\ WF_vars(LockStep /\ SectionsGoOn)

Spec == Init /\ [][Next]_vars /\ Fairness
=============================================================================
