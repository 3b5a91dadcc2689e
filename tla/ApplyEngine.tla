----------------------------- MODULE ApplyEngine -----------------------------
(***************************************************************************)
(* The generic-object phase of applyResources and parallelWorker in        *)
(* pkg/migration/controllers/migration.go.                                 *)
(*                                                                         *)
(* parallelWorker starts migrationMaxThreads worker goroutines and a       *)
(* dispatcher goroutine that sends the shuffled objects on the unbuffered  *)
(* objectChan; the calling goroutine (the coordinator) receives one value  *)
(* per object on the unbuffered errorChan and returns after numObjects nil *)
(* results, or at the first non-nil one, closing objectChan either way.    *)
(* A worker prepares an object (annotations, stash-as-ConfigMap), runs the *)
(* create loop against the destination with its Unauthorized retries,     *)
(* writes the object's verdict with updateResourceStatus and sends nil.    *)
(*                                                                         *)
(* Every object reaching a worker has already passed meta.Accessor        *)
(* (lines 1014 and 1156) and meta.TypeAccessor (line 1981), each of which  *)
(* returns from the caller on an error, and was collected as              *)
(* unstructured; so the error sends at 2331, 2335 and 2340 are never      *)
(* taken, nor is the coordinator's error return at 2519-2521.  The model  *)
(* leaves them out.                                                        *)
(*                                                                         *)
(* The shuffle is modelled by letting the dispatcher send any object not   *)
(* yet sent: nothing observes the order before the sends happen.  A send   *)
(* on an unbuffered channel is a rendezvous, so a send and its receive are *)
(* one step.  The destination's copy of an object is "absent", "old" (an  *)
(* earlier migration's, another hash) or "current" (this hash).           *)
(***************************************************************************)
EXTENDS Naturals, FiniteSets

CONSTANTS
    Objs,            \* the generic objects to apply
    Workers,         \* the worker goroutines (migrationMaxThreads)
    Stashed,         \* objects whose kind is applied as a stashed ConfigMap
    MaxApplyRetries, \* maxApplyRetries
    NoObj            \* a worker holding no object

ASSUME ApplyAssumption ==
    /\ IsFiniteSet(Objs) /\ IsFiniteSet(Workers)
    /\ Stashed \subseteq Objs
    /\ MaxApplyRetries \in Nat
    /\ NoObj \notin Objs

Phases == {"recv", "prep", "apply", "record", "send", "exited"}
Errs == {"none", "unauth", "other"}
DestStates == {"absent", "old", "current"}

VARIABLES
    pending,   \* objects the dispatcher has not sent yet
    closed,    \* objectChan is closed
    coord,     \* the coordinator: "recv", or returned nil ("done")
    received,  \* nil results the coordinator has received
    wph,       \* each worker's place in its loop body
    wobj,      \* the object a worker holds
    werr,      \* the worker's err variable
    retries,   \* the worker's Unauthorized retry count
    stashErr,  \* the worker's stashCMError (declared once per worker)
    res,       \* Status.Resources verdict of each object
    dest,      \* the destination cluster's copy of each object
    attempts   \* history: the Create calls made for each object

vars == <<pending, closed, coord, received, wph, wobj, werr, retries,
          stashErr, res, dest, attempts>>

workerVars == <<wph, wobj, werr, retries, stashErr>>

Init ==
    /\ pending = Objs
    /\ closed = FALSE
    /\ coord = "recv"
    /\ received = 0
    /\ wph = [w \in Workers |-> "recv"]
    /\ wobj = [w \in Workers |-> NoObj]
    /\ werr = [w \in Workers |-> "none"]
    /\ retries = [w \in Workers |-> 0]
    /\ stashErr = [w \in Workers |-> FALSE]
    /\ res = [o \in Objs |-> "InProgress"]
    /\ dest \in [Objs -> DestStates]
    /\ attempts = [o \in Objs |-> 0]

-----------------------------------------------------------------------------
(* Mutant: the dispatcher's loop does not advance past an object.          *)
DispatchedNotRemoved(p, o) == p

(* The dispatcher's range over the shuffled objects moves past o.           *)
Dispatched(p, o) == p \ {o}

(* for o := range objectChan, met by the dispatcher's objectChan <- o.      *)
Receive(w) ==
    /\ wph[w] = "recv" /\ ~closed
    /\ \E o \in pending :
         /\ pending' = Dispatched(pending, o)
         /\ wobj' = [wobj EXCEPT ![w] = o]
    /\ wph' = [wph EXCEPT ![w] = "prep"]
    /\ UNCHANGED <<closed, coord, received, werr, retries, stashErr, res, dest,
                   attempts>>

(* The range loop ends once objectChan is closed.                           *)
Exit(w) ==
    /\ wph[w] = "recv" /\ closed
    /\ wph' = [wph EXCEPT ![w] = "exited"]
    /\ UNCHANGED <<pending, closed, coord, received, wobj, werr, retries,
                   stashErr, res, dest, attempts>>

(* Mutant: retries is not reset for the next object.                      *)
ResetRetriesMissing(rt, w) == rt

(* retries := 0 at the top of each object's loop body.                     *)
ResetRetries(rt, w) == [rt EXCEPT ![w] = 0]

(* The loop body up to the create loop.  A stash-enabled object is         *)
(* converted with getStashedConfigMap, which may fail and set              *)
(* stashCMError; the flag is never reset, so every later object of this   *)
(* worker skips the create loop with the err left by hashstructure.Hash   *)
(* or by getStashedConfigMap.                                              *)
Prepare(w) ==
    /\ wph[w] = "prep"
    /\ \E cmFails \in BOOLEAN :
         LET failed == wobj[w] \in Stashed /\ cmFails
             skip   == stashErr[w] \/ failed
         IN /\ stashErr' = [stashErr EXCEPT ![w] = skip]
            /\ werr' = [werr EXCEPT ![w] = IF failed THEN "other" ELSE "none"]
            /\ retries' = ResetRetries(retries, w)
            /\ wph' = [wph EXCEPT ![w] = IF skip THEN "record" ELSE "apply"]
    /\ UNCHANGED <<pending, closed, coord, received, wobj, res, dest, attempts>>

(* One Create, and on AlreadyExists the default conflict resolution: skip  *)
(* when the destination's hash annotation equals this hash (the Get may    *)
(* fail and say unequal), else Delete, wait for the object to go, Create  *)
(* again.  Each pair is the resulting err and destination copy.  The      *)
(* ServiceAccount and Service resolvers are abstracted to the same        *)
(* outcomes.                                                              *)
CreateResults(cur) ==
    IF cur = "absent"
    THEN {<<"none", "current">>, <<"unauth", "absent">>, <<"other", "absent">>}
    ELSE {<<"unauth", cur>>, <<"other", cur>>,
          <<"none", "current">>, <<"unauth", "absent">>, <<"other", "absent">>}
         \cup (IF cur = "current" THEN {<<"none", cur>>} ELSE {})

(* Mutant: one Unauthorized retry too many.                                 *)
RetryAllowedOffByOne(r) == r <= MaxApplyRetries

RetryAllowed(r) == r < MaxApplyRetries

(* One iteration of the create loop, with its Unauthorized retry check.    *)
ApplyIteration(w) ==
    /\ wph[w] = "apply"
    /\ LET o == wobj[w] IN
       \E r \in CreateResults(dest[o]) :
         /\ dest' = [dest EXCEPT ![o] = r[2]]
         /\ attempts' = [attempts EXCEPT ![o] = @ + 1]
         /\ werr' = [werr EXCEPT ![w] = r[1]]
         /\ IF r[1] = "unauth" /\ RetryAllowed(retries[w])
            THEN /\ retries' = [retries EXCEPT ![w] = @ + 1]
                 /\ UNCHANGED wph
            ELSE /\ wph' = [wph EXCEPT ![w] = "record"]
                 /\ UNCHANGED retries
    /\ UNCHANGED <<pending, closed, coord, received, wobj, stashErr, res>>

(* Mutant: the verdict is not written.                                      *)
RecordVerdictDropped(w) ==
    /\ wph[w] = "record"
    /\ wph' = [wph EXCEPT ![w] = "send"]
    /\ UNCHANGED <<pending, closed, coord, received, wobj, werr, retries,
                   stashErr, res, dest, attempts>>

(* updateResourceStatus with Failed when err is set, else Successful.      *)
RecordVerdict(w) ==
    /\ wph[w] = "record"
    /\ res' = [res EXCEPT ![wobj[w]] =
                 IF werr[w] = "none" THEN "Successful" ELSE "Failed"]
    /\ wph' = [wph EXCEPT ![w] = "send"]
    /\ UNCHANGED <<pending, closed, coord, received, wobj, werr, retries,
                   stashErr, dest, attempts>>

(* errorChan <- nil, received by the coordinator's loop.                    *)
Deliver(w) ==
    /\ wph[w] = "send" /\ coord = "recv"
    /\ received' = received + 1
    /\ wph' = [wph EXCEPT ![w] = "recv"]
    /\ UNCHANGED <<pending, closed, coord, wobj, werr, retries, stashErr,
                   res, dest, attempts>>

ResultsNeeded == Cardinality(Objs)

(* Mutant: the loop ends without close(objectChan).                         *)
CoordFinishNoClose ==
    /\ coord = "recv" /\ received = ResultsNeeded
    /\ coord' = "done"
    /\ UNCHANGED <<pending, closed, received, workerVars, res, dest, attempts>>

(* numObjects nil results received: close(objectChan), return nil.         *)
CoordFinish ==
    /\ coord = "recv" /\ received = ResultsNeeded
    /\ coord' = "done" /\ closed' = TRUE
    /\ UNCHANGED <<pending, received, workerVars, res, dest, attempts>>

(* parallelWorker has returned: the reconcile goes on without the        *)
(* goroutines it leaves behind.                                            *)
CallerReturned ==
    /\ coord = "done"
    /\ UNCHANGED vars

WorkerStep(w) ==
    \/ Receive(w) \/ Exit(w) \/ Prepare(w) \/ ApplyIteration(w)
    \/ RecordVerdict(w) \/ Deliver(w)

Next ==
    \/ \E w \in Workers : WorkerStep(w)
    \/ CoordFinish
    \/ CallerReturned

(* The Go scheduler runs every runnable goroutine.                          *)
Fairness ==
    /\ \A w \in Workers : WF_vars(WorkerStep(w))
    /\ WF_vars(CoordFinish)

Spec == Init /\ [][Next]_vars /\ Fairness

-----------------------------------------------------------------------------
TypeOK ==
    /\ pending \subseteq Objs
    /\ closed \in BOOLEAN
    /\ coord \in {"recv", "done"}
    /\ received \in 0..Cardinality(Objs)
    /\ wph \in [Workers -> Phases]
    /\ wobj \in [Workers -> Objs \cup {NoObj}]
    /\ werr \in [Workers -> Errs]
    /\ retries \in [Workers -> 0..MaxApplyRetries]
    /\ stashErr \in [Workers -> BOOLEAN]
    /\ res \in [Objs -> {"InProgress", "Successful", "Failed"}]
    /\ dest \in [Objs -> DestStates]
    /\ attempts \in [Objs -> 0..MaxApplyRetries + 1]

(* When parallelWorker returns nil, every object has its verdict in        *)
(* Status.Resources and no worker is still between taking an object and   *)
(* reporting it: the count of nil results the coordinator waits for, the  *)
(* order "updateResourceStatus, then errorChan <- nil" in the worker, and *)
(* the single hand-off of each object on objectChan must all be right.    *)
ApplyResultsComplete ==
    coord = "done" =>
        /\ \A o \in Objs : res[o] # "InProgress"
        /\ \A w \in Workers : wph[w] \in {"recv", "exited"}

(* An object reported Successful is on the destination with this          *)
(* migration's content (created, recreated, or skipped on an equal hash).  *)
SuccessMeansApplied ==
    \A o \in Objs : res[o] = "Successful" => dest[o] = "current"

(* An object whose verdict is about to be written Failed for an           *)
(* Unauthorized error got the whole retry budget: maxApplyRetries retries  *)
(* after its first Create.  It takes the per-object reset of retries at    *)
(* the top of the loop body, the retries < maxApplyRetries check and the   *)
(* increment, over a worker's successive objects, to keep it.              *)
UnauthorizedBudget ==
    \A w \in Workers :
        wph[w] = "record" /\ werr[w] = "unauth" =>
            attempts[wobj[w]] = MaxApplyRetries + 1

(* parallelWorker tears the pool down: eventually it has returned, the     *)
(* dispatcher has sent everything and every worker goroutine has left its *)
(* range loop.                                                             *)
CleanShutdown ==
    <>(/\ coord = "done" /\ pending = {}
       /\ \A w \in Workers : wph[w] = "exited")

(* The engine implements the contract of ApplyOutcome, under the mapping   *)
(* of the coordinator's return to the outcome.                             *)
OutcomeOf == IF coord = "done" THEN "ok" ELSE "none"

AO == INSTANCE ApplyOutcome WITH outcome <- OutcomeOf

ApplyOutcomeRefined == AO!Spec
-----------------------------------------------------------------------------
(* The inductive invariant behind ApplyResultsComplete and the refinement: *)
(* each object is either still with the dispatcher, held by exactly one    *)
(* busy worker, or reported; while the coordinator waits, the results it  *)
(* has received, the objects not yet sent and the busy workers add up to  *)
(* numObjects.                                                             *)
BusyPhases == {"prep", "apply", "record", "send"}

Busy == {w \in Workers : wph[w] \in BusyPhases}

(* Every busy worker holds an object the dispatcher has sent.             *)
HeldSent == \A w \in Busy : wobj[w] \in Objs \ pending

(* No object is held by two busy workers.                                  *)
HeldOnce == \A w1, w2 \in Busy : w1 # w2 => wobj[w1] # wobj[w2]

(* A held object has its verdict exactly when its worker is sending nil.   *)
HeldVerdict == \A w \in Busy : (res[wobj[w]] = "InProgress") = (wph[w] # "send")

(* Objects not yet sent have no verdict.                                    *)
PendingOpen == \A o \in pending : res[o] = "InProgress"

(* An object without a verdict is still to be sent or held by a worker.     *)
OpenAccounted ==
    \A o \in Objs : res[o] = "InProgress" => o \in pending \/ \E w \in Busy : wobj[w] = o

(* While the coordinator waits, objectChan is open and the counts add up.   *)
CountWhileWaiting ==
    coord = "recv" =>
        /\ ~closed
        /\ received + Cardinality(pending) + Cardinality(Busy) = Cardinality(Objs)

(* Once parallelWorker has returned nil, nothing is left to send or held.  *)
DoneDrained == coord = "done" => closed /\ pending = {} /\ Busy = {}

(* An object's Create calls are counted from its worker's reset of        *)
(* retries: none before a worker takes it, and as many as retries + 1      *)
(* after each iteration; so a worker in the create loop has made retries   *)
(* calls for its object.                                                   *)
AttemptsCounted ==
    /\ \A o \in pending : attempts[o] = 0
    /\ \A w \in Workers : wph[w] = "prep" => attempts[wobj[w]] = 0
    /\ \A w \in Workers : wph[w] = "apply" => attempts[wobj[w]] = retries[w]

AInv ==
    /\ TypeOK /\ HeldSent /\ HeldOnce /\ HeldVerdict /\ PendingOpen
    /\ OpenAccounted /\ CountWhileWaiting /\ DoneDrained
    /\ AttemptsCounted /\ UnauthorizedBudget
=============================================================================
