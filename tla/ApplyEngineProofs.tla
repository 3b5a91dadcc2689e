------------------------- MODULE ApplyEngineProofs -------------------------
(***************************************************************************)
(* Proofs about the worker pool of applyResources / parallelWorker, for    *)
(* any finite sets of objects and workers and any retry budget allowed by  *)
(* ApplyAssumption.  The argument is a count: while the coordinator waits, *)
(* its received results, the objects not yet sent and the busy workers     *)
(* add up to numObjects (AInv); when the count reaches numObjects nothing  *)
(* is pending or held, so every object has its verdict.  AttemptsCounted  *)
(* ties each object's Create calls to its worker's retry counter.          *)
(***************************************************************************)
EXTENDS ApplyEngine, FiniteSetTheorems, TLAPS

(* The busy workers and the unsent objects are finite sets.                *)
LEMMA Finiteness ==
    ASSUME TypeOK
    PROVE  /\ IsFiniteSet(Busy) /\ IsFiniteSet(pending)
           /\ Cardinality(Busy) \in Nat /\ Cardinality(pending) \in Nat
<1>1. IsFiniteSet(Busy)
  BY ApplyAssumption, FS_Subset DEF Busy
<1>2. IsFiniteSet(pending)
  BY ApplyAssumption, FS_Subset DEF TypeOK
<1>. QED
  BY <1>1, <1>2, FS_CardinalityType

(* A worker's phase change adds it to or removes it from the busy set.     *)
LEMMA BusyUpdate ==
    ASSUME TypeOK, NEW w \in Workers, NEW p,
           wph' = [wph EXCEPT ![w] = p]
    PROVE  Busy' = IF p \in BusyPhases THEN Busy \cup {w} ELSE Busy \ {w}
BY DEF Busy, TypeOK

(* A step that leaves every worker's phase alone leaves the busy set.      *)
LEMMA BusyUnchanged ==
    ASSUME wph' = wph
    PROVE  Busy' = Busy
BY DEF Busy

-----------------------------------------------------------------------------
(* The initial state: nothing sent, nobody busy, nothing received, no     *)
(* Create call made.                                                       *)
LEMMA AInvInit == Init => AInv
<1> SUFFICES ASSUME Init PROVE AInv
  OBVIOUS
<1>1. Busy = {}
  BY DEF Init, Busy, BusyPhases
<1>2. TypeOK
  <2>1. Cardinality(Objs) \in Nat
    BY ApplyAssumption, FS_CardinalityType
  <2>2. received \in 0..Cardinality(Objs)
    BY <2>1 DEF Init
  <2>3. wph \in [Workers -> Phases] /\ wobj \in [Workers -> Objs \cup {NoObj}]
    BY DEF Init, Phases
  <2>4. werr \in [Workers -> Errs] /\ retries \in [Workers -> 0..MaxApplyRetries]
    BY ApplyAssumption DEF Init, Errs
  <2>5. stashErr \in [Workers -> BOOLEAN]
        /\ attempts \in [Objs -> 0..MaxApplyRetries + 1]
    BY ApplyAssumption DEF Init
  <2>. QED
    BY <2>2, <2>3, <2>4, <2>5 DEF Init, TypeOK
<1>3. CountWhileWaiting
  <2>1. Cardinality(Objs) \in Nat /\ Cardinality(Busy) = 0
    BY <1>1, ApplyAssumption, FS_CardinalityType, FS_EmptySet
  <2>. QED
    BY <2>1 DEF Init, CountWhileWaiting
<1>. QED
  BY <1>1, <1>2, <1>3 DEF Init, AInv, HeldSent, HeldOnce, HeldVerdict,
     PendingOpen, OpenAccounted, DoneDrained, AttemptsCounted,
     UnauthorizedBudget
-----------------------------------------------------------------------------
(* A worker takes an object from the dispatcher: one object fewer to send, *)
(* one busy worker more, and the object has had no Create call yet.        *)
LEMMA ReceiveStep ==
    ASSUME AInv, NEW w \in Workers, Receive(w)
    PROVE  AInv'
<1>. USE DEF AInv
<1>1. PICK o \in pending : pending' = pending \ {o} /\ wobj' = [wobj EXCEPT ![w] = o]
  BY DEF Receive, Dispatched
<1>2. w \notin Busy /\ Busy' = Busy \cup {w}
  BY BusyUpdate DEF Receive, Busy, BusyPhases, Phases
<1>3. o \in Objs /\ res[o] = "InProgress" /\ attempts[o] = 0
  BY DEF TypeOK, PendingOpen, AttemptsCounted
<1>4. TypeOK'
  BY <1>1, <1>3 DEF Receive, TypeOK, Phases
<1>5. \A x \in Busy : wobj[x] # o /\ x # w
  BY <1>2 DEF HeldSent
<1>6. HeldSent' /\ HeldOnce' /\ HeldVerdict'
  BY <1>1, <1>2, <1>3, <1>5 DEF Receive, HeldSent, HeldOnce, HeldVerdict, TypeOK
<1>7. PendingOpen' /\ OpenAccounted'
  BY <1>1, <1>2, <1>3 DEF Receive, PendingOpen, OpenAccounted, TypeOK
<1>8. CountWhileWaiting'
  <2>1. IsFiniteSet(Busy) /\ IsFiniteSet(pending)
    BY Finiteness
  <2>2. Cardinality(pending') = Cardinality(pending) - 1
    BY <1>1, <2>1, FS_RemoveElement
  <2>3. Cardinality(Busy') = Cardinality(Busy) + 1
    BY <1>2, <2>1, FS_AddElement
  <2>4. Cardinality(Busy) \in Nat /\ Cardinality(pending) \in Nat
    BY Finiteness
  <2>. QED
    BY <2>2, <2>3, <2>4 DEF Receive, CountWhileWaiting, TypeOK
<1>9. DoneDrained'
  BY DEF Receive, DoneDrained
<1>10. AttemptsCounted' /\ UnauthorizedBudget'
  BY <1>1, <1>3 DEF Receive, AttemptsCounted, UnauthorizedBudget, TypeOK
<1>. QED
  BY <1>4, <1>6, <1>7, <1>8, <1>9, <1>10

(* A worker leaves its range loop: it was not busy and stays not busy.     *)
LEMMA ExitStep ==
    ASSUME AInv, NEW w \in Workers, Exit(w)
    PROVE  AInv'
<1>. USE DEF AInv
<1>1. Busy' = Busy /\ w \notin Busy
  BY BusyUpdate DEF Exit, Busy, BusyPhases, Phases
<1>2. TypeOK'
  BY DEF Exit, TypeOK, Phases
<1>. QED
  BY <1>1, <1>2 DEF Exit, HeldSent, HeldOnce, HeldVerdict, PendingOpen,
     OpenAccounted, CountWhileWaiting, DoneDrained, AttemptsCounted,
     UnauthorizedBudget, TypeOK

(* Preparing an object keeps the worker busy with the same object; it     *)
(* enters the create loop with retries reset and no Create call made, or  *)
(* goes to the verdict with an err that is not Unauthorized.               *)
LEMMA PrepareStep ==
    ASSUME AInv, NEW w \in Workers, Prepare(w)
    PROVE  AInv'
<1>. USE DEF AInv
<1>1. wph[w] = "prep" /\ w \in Busy /\ attempts[wobj[w]] = 0
  BY DEF Prepare, Busy, BusyPhases, AttemptsCounted
<1>2. UNCHANGED <<pending, closed, coord, received, wobj, res, dest, attempts>>
  BY DEF Prepare
<1>3. PICK cmFails \in BOOLEAN :
        LET failed == wobj[w] \in Stashed /\ cmFails
            skip   == stashErr[w] \/ failed
        IN /\ stashErr' = [stashErr EXCEPT ![w] = skip]
           /\ werr' = [werr EXCEPT ![w] = IF failed THEN "other" ELSE "none"]
           /\ retries' = [retries EXCEPT ![w] = 0]
           /\ wph' = [wph EXCEPT ![w] = IF skip THEN "record" ELSE "apply"]
  BY DEF Prepare, ResetRetries
<1>4. Busy' = Busy
  BY <1>1, <1>3 DEF Busy, BusyPhases, TypeOK
<1>5. TypeOK'
  BY <1>2, <1>3, ApplyAssumption DEF TypeOK, Phases, Errs
<1>6. AttemptsCounted' /\ UnauthorizedBudget'
  BY <1>1, <1>2, <1>3 DEF AttemptsCounted, UnauthorizedBudget, TypeOK
<1>. QED
  BY <1>1, <1>2, <1>3, <1>4, <1>5, <1>6 DEF HeldSent, HeldOnce, HeldVerdict,
     PendingOpen, OpenAccounted, CountWhileWaiting, DoneDrained, TypeOK

(* Every outcome of a create-loop iteration is an err value and a state of *)
(* the destination's copy.                                                 *)
LEMMA CreateResultsType ==
    ASSUME NEW cur \in DestStates
    PROVE  CreateResults(cur) \subseteq Errs \X DestStates
BY DEF CreateResults, Errs, DestStates

(* An iteration of the create loop makes one Create call for the worker's *)
(* object.  It either retries, with retries and the call count both one   *)
(* higher, or leaves the loop; an Unauthorized err leaves it only once    *)
(* retries has reached maxApplyRetries, so the count is then the budget.  *)
LEMMA ApplyIterationStep ==
    ASSUME AInv, NEW w \in Workers, ApplyIteration(w)
    PROVE  AInv'
<1>. USE DEF AInv
<1>. DEFINE o == wobj[w]
<1>1. wph[w] = "apply" /\ w \in Busy /\ o \in Objs \ pending
      /\ attempts[o] = retries[w] /\ retries[w] \in 0..MaxApplyRetries
  BY DEF ApplyIteration, Busy, BusyPhases, HeldSent, AttemptsCounted, TypeOK
<1>2. PICK r \in CreateResults(dest[o]) :
        /\ dest' = [dest EXCEPT ![o] = r[2]]
        /\ attempts' = [attempts EXCEPT ![o] = @ + 1]
        /\ werr' = [werr EXCEPT ![w] = r[1]]
        /\ IF r[1] = "unauth" /\ RetryAllowed(retries[w])
           THEN /\ retries' = [retries EXCEPT ![w] = @ + 1]
                /\ UNCHANGED wph
           ELSE /\ wph' = [wph EXCEPT ![w] = "record"]
                /\ UNCHANGED retries
  BY DEF ApplyIteration
<1>3. r[1] \in Errs /\ r[2] \in DestStates
  BY <1>1, <1>2, CreateResultsType DEF TypeOK
<1>4. UNCHANGED <<pending, closed, coord, received, wobj, stashErr, res>>
  BY DEF ApplyIteration
<1>5. \A x \in Workers : x # w /\ wph[x] \in {"prep", "apply", "record"} => wobj[x] # o
  BY <1>1 DEF HeldOnce, Busy, BusyPhases
<1>6. attempts' \in [Objs -> 0..MaxApplyRetries + 1]
  BY <1>1, <1>2, ApplyAssumption DEF TypeOK
<1>7. CASE r[1] = "unauth" /\ RetryAllowed(retries[w])
  <2>1. retries' = [retries EXCEPT ![w] = @ + 1] /\ wph' = wph
    BY <1>2, <1>7
  <2>2. Busy' = Busy
    BY <2>1, BusyUnchanged
  <2>3. TypeOK'
    <3>1. retries' \in [Workers -> 0..MaxApplyRetries]
      BY <1>7, <2>1, ApplyAssumption DEF TypeOK, RetryAllowed
    <3>. QED
      BY <1>2, <1>3, <1>4, <1>6, <2>1, <3>1 DEF TypeOK
  <2>4. AttemptsCounted' /\ UnauthorizedBudget'
    BY <1>1, <1>2, <1>4, <1>5, <2>1 DEF AttemptsCounted, UnauthorizedBudget,
       TypeOK
  <2>. QED
    BY <1>4, <2>1, <2>2, <2>3, <2>4 DEF HeldSent, HeldOnce, HeldVerdict,
       PendingOpen, OpenAccounted, CountWhileWaiting, DoneDrained, TypeOK
<1>8. CASE ~(r[1] = "unauth" /\ RetryAllowed(retries[w]))
  <2>1. wph' = [wph EXCEPT ![w] = "record"] /\ retries' = retries
    BY <1>2, <1>8
  <2>2. Busy' = Busy
    BY <1>1, <2>1 DEF Busy, BusyPhases, TypeOK
  <2>3. TypeOK'
    BY <1>2, <1>3, <1>4, <1>6, <2>1 DEF TypeOK, Phases
  <2>4. r[1] = "unauth" => attempts'[o] = MaxApplyRetries + 1
    BY <1>1, <1>2, <1>8, ApplyAssumption DEF RetryAllowed, TypeOK
  <2>5. AttemptsCounted' /\ UnauthorizedBudget'
    BY <1>1, <1>2, <1>4, <1>5, <2>1, <2>4 DEF AttemptsCounted,
       UnauthorizedBudget, TypeOK
  <2>. QED
    BY <1>1, <1>4, <2>1, <2>2, <2>3, <2>5 DEF HeldSent, HeldOnce, HeldVerdict,
       PendingOpen, OpenAccounted, CountWhileWaiting, DoneDrained, TypeOK
<1>. QED
  BY <1>7, <1>8

(* Writing the verdict of the worker's own object: no other held object    *)
(* changes, since no object is held twice.                                 *)
LEMMA RecordVerdictStep ==
    ASSUME AInv, NEW w \in Workers, RecordVerdict(w)
    PROVE  AInv'
<1>. USE DEF AInv
<1>. DEFINE o == wobj[w]
<1>1. wph[w] = "record" /\ w \in Busy /\ o \in Objs \ pending
  BY DEF RecordVerdict, Busy, BusyPhases, HeldSent
<1>2. res' = [res EXCEPT ![o] = IF werr[w] = "none" THEN "Successful" ELSE "Failed"]
      /\ wph' = [wph EXCEPT ![w] = "send"]
      /\ UNCHANGED <<pending, closed, coord, received, wobj, werr, retries,
                     stashErr, dest, attempts>>
  BY DEF RecordVerdict
<1>3. Busy' = Busy
  BY <1>1, <1>2 DEF Busy, BusyPhases, TypeOK
<1>4. \A x \in Busy : x # w => wobj[x] # o
  BY <1>1 DEF HeldOnce
<1>5. TypeOK'
  BY <1>1, <1>2 DEF TypeOK, Phases
<1>6. HeldVerdict'
  BY <1>1, <1>2, <1>3, <1>4 DEF HeldVerdict, TypeOK
<1>7. PendingOpen' /\ OpenAccounted'
  BY <1>1, <1>2, <1>3 DEF PendingOpen, OpenAccounted, TypeOK
<1>8. AttemptsCounted' /\ UnauthorizedBudget'
  BY <1>1, <1>2 DEF AttemptsCounted, UnauthorizedBudget, TypeOK
<1>. QED
  BY <1>1, <1>2, <1>3, <1>5, <1>6, <1>7, <1>8 DEF HeldSent, HeldOnce,
     CountWhileWaiting, DoneDrained, TypeOK
(* The coordinator receives a nil result: one busy worker fewer, one       *)
(* received result more, and the reported object already has its verdict. *)
LEMMA DeliverStep ==
    ASSUME AInv, NEW w \in Workers, Deliver(w)
    PROVE  AInv'
<1>. USE DEF AInv
<1>1. wph[w] = "send" /\ w \in Busy /\ coord = "recv"
  BY DEF Deliver, Busy, BusyPhases
<1>2. res[wobj[w]] # "InProgress"
  BY <1>1 DEF HeldVerdict
<1>3. received' = received + 1 /\ wph' = [wph EXCEPT ![w] = "recv"]
      /\ UNCHANGED <<pending, closed, coord, wobj, werr, retries, stashErr,
                     res, dest, attempts>>
  BY DEF Deliver
<1>4. Busy' = Busy \ {w}
  BY <1>3 DEF Busy, BusyPhases, TypeOK
<1>5. /\ IsFiniteSet(Busy) /\ Cardinality(Busy) \in Nat /\ Cardinality(pending) \in Nat
      /\ Cardinality(Busy') = Cardinality(Busy) - 1
  BY <1>1, <1>4, Finiteness, FS_RemoveElement
<1>6. Cardinality(Busy) >= 1
  BY <1>1, <1>5, FS_EmptySet
<1>7. TypeOK'
  <2>1. received + 1 \in 0..Cardinality(Objs)
    BY <1>1, <1>5, <1>6 DEF CountWhileWaiting, TypeOK
  <2>. QED
    BY <1>3, <2>1 DEF TypeOK, Phases
<1>8. OpenAccounted'
  BY <1>2, <1>3, <1>4 DEF OpenAccounted, TypeOK
<1>9. CountWhileWaiting'
  BY <1>1, <1>3, <1>5 DEF CountWhileWaiting, TypeOK
<1>10. AttemptsCounted' /\ UnauthorizedBudget'
  BY <1>1, <1>3 DEF AttemptsCounted, UnauthorizedBudget, TypeOK
<1>. QED
  BY <1>3, <1>4, <1>7, <1>8, <1>9, <1>10 DEF HeldSent, HeldOnce, HeldVerdict,
     PendingOpen, DoneDrained, TypeOK

(* numObjects results received: by the count, nothing is left to send and  *)
(* no worker is busy.                                                      *)
LEMMA CoordFinishStep ==
    ASSUME AInv, CoordFinish
    PROVE  AInv'
<1>. USE DEF AInv
<1>1. coord = "recv" /\ received = Cardinality(Objs)
  BY DEF CoordFinish, ResultsNeeded
<1>2. coord' = "done" /\ closed' = TRUE
      /\ UNCHANGED <<pending, received, wph, wobj, werr, retries, stashErr,
                     res, dest, attempts>>
  BY DEF CoordFinish, workerVars
<1>3. Busy' = Busy
  BY <1>2, BusyUnchanged
<1>4. Cardinality(pending) = 0 /\ Cardinality(Busy) = 0
  <2>1. Cardinality(Busy) \in Nat /\ Cardinality(pending) \in Nat
    BY Finiteness
  <2>2. Cardinality(Objs) \in Nat
    BY ApplyAssumption, FS_CardinalityType
  <2>. QED
    BY <1>1, <2>1, <2>2 DEF CountWhileWaiting
<1>5. pending = {} /\ Busy = {}
  BY <1>4, Finiteness, FS_EmptySet
<1>. QED
  BY <1>2, <1>3, <1>5 DEF TypeOK, HeldSent, HeldOnce, HeldVerdict,
     PendingOpen, OpenAccounted, CountWhileWaiting, DoneDrained,
     AttemptsCounted, UnauthorizedBudget
(* A step that changes nothing keeps the invariant.                        *)
LEMMA StutterStep ==
    ASSUME AInv, UNCHANGED vars
    PROVE  AInv'
<1>1. Busy' = Busy
  BY BusyUnchanged DEF vars
<1>. QED
  BY <1>1 DEF vars, AInv, TypeOK, HeldSent, HeldOnce, HeldVerdict,
     PendingOpen, OpenAccounted, CountWhileWaiting, DoneDrained,
     AttemptsCounted, UnauthorizedBudget

(* AInv is inductive: every step of the pool or the coordinator keeps it.  *)
LEMMA AInvStep == AInv /\ [Next]_vars => AInv'
<1> SUFFICES ASSUME AInv, [Next]_vars PROVE AInv'
  OBVIOUS
<1>1. CASE \E w \in Workers : WorkerStep(w)
  <2>1. PICK w \in Workers : WorkerStep(w)
    BY <1>1
  <2>. QED
    BY <2>1, ReceiveStep, ExitStep, PrepareStep, ApplyIterationStep,
       RecordVerdictStep, DeliverStep DEF WorkerStep
<1>2. CASE CoordFinish
  BY <1>2, CoordFinishStep
<1>3. CASE CallerReturned \/ UNCHANGED vars
  BY <1>3, StutterStep DEF CallerReturned
<1>. QED
  BY <1>1, <1>2, <1>3 DEF Next

-----------------------------------------------------------------------------
(* Type correctness of the worker pool: every goroutine's program point,   *)
(* object, error and retry counter (bounded by maxApplyRetries), the shuffle *)
(* and the counters stay within their types in every reachable state.      *)
THEOREM ApplyTypeCorrect == Spec => []TypeOK
<1>1. Init => AInv
  BY AInvInit
<1>2. AInv /\ [Next]_vars => AInv'
  BY AInvStep
<1>3. AInv => TypeOK
  BY DEF AInv
<1>. QED
  BY <1>1, <1>2, <1>3, PTL DEF Spec

(* ApplyResultsComplete holds in every state: parallelWorker returns nil   *)
(* only after every object's verdict is written and every worker is back   *)
(* at its range loop.                                                      *)
THEOREM ApplyResultsCompleteHolds == Spec => []ApplyResultsComplete
<1>1. Init => AInv
  BY AInvInit
<1>2. AInv /\ [Next]_vars => AInv'
  BY AInvStep
<1>3. AInv => ApplyResultsComplete
  <2> SUFFICES ASSUME AInv, coord = "done"
               PROVE  /\ \A o \in Objs : res[o] # "InProgress"
                      /\ \A w \in Workers : wph[w] \in {"recv", "exited"}
    BY DEF ApplyResultsComplete
  <2>1. pending = {} /\ Busy = {}
    BY DEF AInv, DoneDrained
  <2>2. \A o \in Objs : res[o] # "InProgress"
    BY <2>1 DEF AInv, OpenAccounted
  <2>3. \A w \in Workers : wph[w] \in {"recv", "exited"}
    BY <2>1 DEF AInv, TypeOK, Busy, BusyPhases, Phases
  <2>. QED
    BY <2>2, <2>3
<1>. QED
  BY <1>1, <1>2, <1>3, PTL DEF Spec
(* An object recorded Failed for an Unauthorized error got the whole       *)
(* retry budget, maxApplyRetries retries after its first Create, whichever *)
(* worker took it and whatever that worker did before: for every number of *)
(* objects and workers and every maxApplyRetries.                           *)
THEOREM UnauthorizedBudgetHolds == Spec => []UnauthorizedBudget
<1>1. Init => AInv
  BY AInvInit
<1>2. AInv /\ [Next]_vars => AInv'
  BY AInvStep
<1>3. AInv => UnauthorizedBudget
  BY DEF AInv
<1>. QED
  BY <1>1, <1>2, <1>3, PTL DEF Spec
-----------------------------------------------------------------------------
(* Each step of the engine is a step of ApplyOutcome or leaves its state   *)
(* alone: a verdict is written once, for an object still InProgress and    *)
(* before a nil return; the nil return comes only when every verdict is    *)
(* written.                                                                *)
LEMMA RefinementStep ==
    ASSUME AInv, AInv', [Next]_vars
    PROVE  [AO!Next]_<<res, OutcomeOf>>
<1>. USE DEF AInv
<1>1. CASE \E w \in Workers : RecordVerdict(w)
  <2>1. PICK w \in Workers : RecordVerdict(w)
    BY <1>1
  <2>2. w \in Busy /\ wph[w] = "record" /\ wobj[w] \in Objs
    BY <2>1 DEF RecordVerdict, Busy, BusyPhases, HeldSent
  <2>3. res[wobj[w]] = "InProgress"
    BY <2>2 DEF HeldVerdict
  <2>4. coord # "done" /\ coord' = coord
    BY <2>1, <2>2 DEF DoneDrained, RecordVerdict
  <2>5. AO!Decide(wobj[w])
    BY <2>1, <2>3, <2>4 DEF AO!Decide, AO!Verdicts, RecordVerdict, OutcomeOf
  <2>. QED
    BY <2>2, <2>5 DEF AO!Next
<1>2. CASE CoordFinish
  <2>1. coord = "recv" /\ coord' = "done" /\ res' = res
    BY <1>2 DEF CoordFinish
  <2>2. \A o \in Objs : res'[o] \in AO!Verdicts
    BY <2>1 DEF DoneDrained, OpenAccounted, TypeOK, AO!Verdicts
  <2>3. AO!Finish
    BY <2>1, <2>2 DEF AO!Finish, OutcomeOf
  <2>. QED
    BY <2>3 DEF AO!Next
<1>3. CASE /\ ~\E w \in Workers : RecordVerdict(w)
           /\ ~CoordFinish
  <2>1. res' = res /\ coord' = coord
    BY <1>3 DEF Next, WorkerStep, Receive, Exit, Prepare, ApplyIteration,
       Deliver, CallerReturned, vars, workerVars
  <2>. QED
    BY <2>1 DEF OutcomeOf
<1>. QED
  BY <1>1, <1>2, <1>3

(* The engine implements ApplyOutcome: what MigrationController's          *)
(* ResourcesApplied assumes of applyResources holds of the worker pool.    *)
THEOREM ApplyOutcomeRefinement == Spec => ApplyOutcomeRefined
<1>1. Init => AO!Init
  BY DEF Init, AO!Init, OutcomeOf
<1>2. Spec => []AInv
  BY AInvInit, AInvStep, PTL DEF Spec
<1>3. AInv /\ AInv' /\ [Next]_vars => [AO!Next]_<<res, OutcomeOf>>
  BY RefinementStep
<1>. QED
  BY <1>1, <1>2, <1>3, PTL DEF Spec, ApplyOutcomeRefined, AO!Spec
=============================================================================
