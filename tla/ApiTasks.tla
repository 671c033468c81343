------------------------------ MODULE ApiTasks ------------------------------
(***************************************************************************)
(* The tasks of one API process: requests in progress and the lifecycle    *)
(* consumer.  A task is its next step and what it carries in memory; the   *)
(* modules JobDispatch, ApprovalRoute and JobLifecycle define the steps.   *)
(***************************************************************************)
EXTENDS JobStore

VARIABLES
    dispatch, \* per create or retry request: next step, job and device
    resolve,  \* per approval request: next step, approval and decision
    consumer  \* the lifecycle consumer: next step and the event it folds

taskVars == <<dispatch, resolve, consumer>>
=============================================================================
