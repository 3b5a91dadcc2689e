---------------------------- MODULE ApplyOutcome ----------------------------
(***************************************************************************)
(* What applyResources promises its caller migrateResources about the      *)
(* generic (non PV/PVC) objects, as MigrationController's ResourcesApplied *)
(* uses it: every object's Status.Resources entry starts InProgress and    *)
(* receives one verdict, Successful or Failed, that is never revised; the  *)
(* call returns nil only once every object has its verdict, or returns an  *)
(* error at any time, after which verdicts may still be written.           *)
(***************************************************************************)
CONSTANT Objs

VARIABLES res, outcome

Verdicts == {"Successful", "Failed"}

Init ==
    /\ res = [o \in Objs |-> "InProgress"]
    /\ outcome = "none"

(* updateResourceStatus for one object, once.                               *)
Decide(o) ==
    /\ res[o] = "InProgress"
    /\ outcome # "ok"
    /\ \E v \in Verdicts : res' = [res EXCEPT ![o] = v]
    /\ UNCHANGED outcome

(* parallelWorker returns nil: every object has a verdict.                  *)
Finish ==
    /\ outcome = "none"
    /\ \A o \in Objs : res[o] \in Verdicts
    /\ outcome' = "ok"
    /\ UNCHANGED res

(* parallelWorker returns a worker's error.                                 *)
Abort ==
    /\ outcome = "none"
    /\ outcome' = "error"
    /\ UNCHANGED res

Next == (\E o \in Objs : Decide(o)) \/ Finish \/ Abort

Spec == Init /\ [][Next]_<<res, outcome>>
=============================================================================
