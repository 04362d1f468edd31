------------------------ MODULE LifecycleDrainProofs ------------------------
(***************************************************************************)
(* Proofs about LifecycleDrain for any finite set of tasks and any set of  *)
(* requests: its types, the accounting of permits, the ownership of a      *)
(* drain, and that it implements ProtectedShutdown.                        *)
(***************************************************************************)
EXTENDS LifecycleDrain, FiniteSetTheorems, TLAPS

-----------------------------------------------------------------------------
(* Types. *)

\* active_permits counts the tasks between fetch_add and fetch_sub.
PermitCount == active_permits = Cardinality(Counted)

\* The counted tasks are finitely many.
LEMMA CountedFinite == IsFiniteSet(Counted) /\ Cardinality(Counted) \in Nat
  <1>1. Counted \subseteq Tasks
    BY DEF Counted
  <1>2. IsFiniteSet(Counted)
    BY <1>1, TasksFinite, FS_Subset
  <1> QED
    BY <1>2, FS_CardinalityType

\* Task steps keep the types (try_admit and release_permit); the counter
\* stays a natural number because a task that releases is counted.
LEMMA TaskStepKeepsCount ==
  ASSUME TypeOK, PermitCount, TaskNext
  PROVE  /\ active_permits' \in Nat
         /\ task' \in [Tasks -> TaskState]
         /\ PermitCount'
  <1> USE CountedFinite DEF TypeOK, PermitCount, TaskState
  <1>1. PICK t \in Tasks : \/ AdmitCheck(t)
                           \/ AdmitCount(t)
                           \/ AdmitRecheck(t)
                           \/ ReleasePermit(t)
                           \/ NotifyOne(t)
    BY DEF TaskNext
  <1>2. CASE AdmitCheck(t)
    <2>1. Counted' = Counted
      BY <1>2 DEF AdmitCheck, Counted
    <2> QED
      BY <1>2, <2>1 DEF AdmitCheck
  <1>3. CASE AdmitCount(t)
    <2>1. Counted' = Counted \cup {t} /\ t \notin Counted
      BY <1>3 DEF AdmitCount, Counted
    <2>2. Cardinality(Counted') = Cardinality(Counted) + 1
      BY <2>1, FS_AddElement
    <2> QED
      BY <1>3, <2>2 DEF AdmitCount
  <1>4. CASE AdmitRecheck(t)
    <2>1. Counted' = Counted
      BY <1>4 DEF AdmitRecheck, Counted
    <2> QED
      BY <1>4, <2>1 DEF AdmitRecheck
  <1>5. CASE ReleasePermit(t)
    <2>1. Counted' = Counted \ {t} /\ t \in Counted
      BY <1>5 DEF ReleasePermit, Counted
    <2>2. Cardinality(Counted') = Cardinality(Counted) - 1
      BY <2>1, FS_RemoveElement
    <2>3. Cardinality(Counted') \in Nat
      BY <2>1, FS_RemoveElement, FS_CardinalityType
    <2> QED
      BY <1>5, <2>2, <2>3 DEF ReleasePermit
  <1>6. CASE NotifyOne(t)
    <2>1. Counted' = Counted
      BY <1>6 DEF NotifyOne, Counted
    <2> QED
      BY <1>6, <2>1 DEF NotifyOne
  <1> QED
    BY <1>1, <1>2, <1>3, <1>4, <1>5, <1>6

\* Every other step leaves the tasks and the counter alone.
LEMMA OtherStepsKeepTasks ==
  ASSUME NEW r \in Requests, RequestNext(r)
  PROVE  UNCHANGED <<active_permits, task>>
  BY DEF RequestNext, RequestStep, LockControl, ValidateLease, BeginDraining, InitialSnapshot,
         FinalSnapshot, Snapshot, StopBridge, DrainCheck, DrainWake, DrainTimeout,
         DrainTimedOut, FenceLease, RequestShutdown, CommitShutdown, Deadline,
         DeadlineCancel, RestoreBridge, Return, Abandon, DropGuard, admissionVars

\* Leaving a request keeps the types of what it leaves behind.
LEMMA LeaveTypes ==
  ASSUME TypeOK, NEW r \in Requests, Leave(r)
  PROVE  /\ request' \in [Requests -> RequestState]
         /\ lifecycle_control' \in Requests \cup {NoRequest}
         /\ options' \in [Requests -> Options]
  <1>1. NoOptions \in Options
    BY DEF NoOptions, Options
  <1>2. "idle" \in RequestState
    BY DEF RequestState
  <1> QED
    BY <1>1, <1>2 DEF TypeOK, Leave, Goto

\* A request step keeps the types (the handlers of src/web/manage.rs).
LEMMA RequestStepTypes ==
  ASSUME TypeOK, NEW r \in Requests, RequestNext(r)
  PROVE  TypeOK'
  <1> USE DEF TypeOK, RequestState, DrainSteps, RestoreSteps, LifecycleAdmissionState,
              OpStage, admissionVars, bridgeVars, requestVars, Goto, CancelAndRestore,
              begin_draining, commit_shutdown, cancel_draining
  <1>1. CASE LockControl(r)
    BY <1>1 DEF LockControl, Options
  <1>2. CASE ValidateLease(r)
    BY <1>2, LeaveTypes DEF ValidateLease
  <1>3. CASE BeginDraining(r)
    BY <1>3, LeaveTypes DEF BeginDraining
  <1>4. CASE InitialSnapshot(r)
    BY <1>4 DEF InitialSnapshot, Snapshot
  <1>5. CASE FinalSnapshot(r)
    BY <1>5 DEF FinalSnapshot, Snapshot
  <1>6. CASE StopBridge(r)
    BY <1>6 DEF StopBridge
  <1>7. CASE DrainCheck(r)
    BY <1>7 DEF DrainCheck
  <1>8. CASE DrainWake(r)
    BY <1>8 DEF DrainWake
  <1>9. CASE DrainTimeout(r)
    BY <1>9 DEF DrainTimeout
  <1>10. CASE DrainTimedOut(r)
    BY <1>10 DEF DrainTimedOut
  <1>11. CASE FenceLease(r)
    BY <1>11 DEF FenceLease
  <1>12. CASE RequestShutdown(r)
    BY <1>12 DEF RequestShutdown
  <1>13. CASE CommitShutdown(r)
    BY <1>13 DEF CommitShutdown
  <1>14. CASE Deadline(r)
    BY <1>14 DEF Deadline, Options
  <1>15. CASE DeadlineCancel(r)
    BY <1>15 DEF DeadlineCancel
  <1>16. CASE RestoreBridge(r)
    BY <1>16 DEF RestoreBridge
  <1>17. CASE Return(r) \/ Abandon(r)
    <2>1. DropGuard(r)
      BY <1>17 DEF Return, Abandon
    <2>2. bridge_ops' \in [OpStage -> Nat]
      BY <2>1 DEF DropGuard
    <2> QED
      BY <2>1, <2>2, LeaveTypes DEF DropGuard
  <1> QED
    BY <1>1, <1>2, <1>3, <1>4, <1>5, <1>6, <1>7, <1>8, <1>9, <1>10, <1>11, <1>12,
       <1>13, <1>14, <1>15, <1>16, <1>17 DEF RequestNext, RequestStep

\* A bridge step keeps the types (start_bridge_task and its callers).
LEMMA BridgeStepTypes ==
  ASSUME TypeOK, BridgeNext
  PROVE  TypeOK'
  <1> USE DEF TypeOK, OpStage, admissionVars, requestVars, Op, EndOp
  <1>1. CASE StartReadsState
    BY <1>1 DEF StartReadsState
  <1>2. CASE StartReadsConfig
    BY <1>2 DEF StartReadsConfig
  <1>3. CASE StartSpawns
    BY <1>3 DEF StartSpawns
  <1>4. CASE ApiStop
    <2>1. /\ bridge_ops["stop"] > 0
          /\ bridge_ops' = [bridge_ops EXCEPT !["stop"] = bridge_ops["stop"] - 1]
      BY <1>4, Zenon DEF ApiStop
    <2>2. bridge_ops' \in [OpStage -> Nat]
      BY <2>1
    <2>3. bridge' \in BOOLEAN
      BY <1>4, Zenon DEF ApiStop
    <2> QED
      BY <1>4, <2>2, <2>3 DEF ApiStop
  <1>5. ASSUME NEW enable \in BOOLEAN, ApiCall(enable)
        PROVE  TypeOK'
    BY <1>5 DEF ApiCall
  <1> QED
    BY <1>1, <1>2, <1>3, <1>4, <1>5 DEF BridgeNext

\* TypeOK and the permit accounting are inductive together.
TypeInv == TypeOK /\ PermitCount

\* LifecycleAdmission::new starts with no permit.
LEMMA TypeInvInit == Init => TypeInv
  <1> SUFFICES ASSUME Init PROVE TypeInv
    OBVIOUS
  <1>1. TypeOK
    BY DEF Init, AdmissionInit, TypeOK, LifecycleAdmissionState, TaskState, RequestState,
           Options, NoOptions, OpStage
  <1>2. Counted = {}
    BY DEF Init, AdmissionInit, Counted
  <1>3. PermitCount
    BY <1>2, FS_EmptySet DEF Init, AdmissionInit, PermitCount
  <1> QED
    BY <1>1, <1>3 DEF TypeInv

\* Types and accounting survive every step.
LEMMA TypeInvStep == TypeInv /\ [Next]_vars => TypeInv'
  <1> SUFFICES ASSUME TypeInv, [Next]_vars PROVE TypeInv'
    OBVIOUS
  <1> USE DEF TypeInv
  <1>1. CASE TaskNext /\ UNCHANGED <<requestVars, shutdown_tx, bridgeVars>>
    <2>1. state' = state /\ drained' \in BOOLEAN
      BY <1>1 DEF TaskNext, AdmitCheck, AdmitCount, AdmitRecheck, ReleasePermit, NotifyOne,
                  TypeOK
    <2>2. UNCHANGED <<lifecycle_control, request, options, shutdown_tx, bridge,
                      bridge_enabled, bridge_ops, api_calls>>
      BY <1>1 DEF requestVars, bridgeVars
    <2> QED
      BY <1>1, <2>1, <2>2, TaskStepKeepsCount DEF TypeOK
  <1>2. ASSUME NEW r \in Requests, RequestNext(r)
        PROVE  TypeInv'
    <2>1. PermitCount'
      BY <1>2, OtherStepsKeepTasks DEF PermitCount, Counted
    <2> QED
      BY <1>2, <2>1, RequestStepTypes
  <1>3. CASE BridgeNext
    <2>1. UNCHANGED <<active_permits, task>>
      BY <1>3 DEF BridgeNext, StartReadsState, StartReadsConfig, StartSpawns, ApiStop,
                  ApiCall, admissionVars
    <2>2. PermitCount'
      BY <2>1 DEF PermitCount, Counted
    <2> QED
      BY <1>3, <2>2, BridgeStepTypes
  <1>4. CASE UNCHANGED vars
    BY <1>4 DEF vars, admissionVars, requestVars, bridgeVars, TypeOK, PermitCount, Counted
  <1> QED
    BY <1>1, <1>2, <1>3, <1>4 DEF Next

\* Every reachable state is well typed; in particular active_permits never
\* underflows, for any finite set of tasks (release_permit, try_admit).
THEOREM TypeCorrect == Spec => []TypeOK
  <1>1. TypeInv => TypeOK
    BY DEF TypeInv
  <1> QED
    BY <1>1, TypeInvInit, TypeInvStep, PTL DEF Spec

\* active_permits counts exactly the tasks between fetch_add and fetch_sub.
THEOREM PermitsCorrect == Spec => []PermitCount
  <1>1. TypeInv => PermitCount
    BY DEF TypeInv
  <1> QED
    BY <1>1, TypeInvInit, TypeInvStep, PTL DEF Spec

-----------------------------------------------------------------------------
(* Ownership of a drain. *)

\* lifecycle_control serialises the requests.
OneOwner == \A r \in Requests : request[r] # "idle" => lifecycle_control = r

\* Where the owner is tells what the state is.
StateOfStep ==
    \A r \in Requests :
        /\ request[r] \in DrainSteps \cup {"commit"} => state = "Draining"
        /\ request[r] \in RestoreSteps => state = "Active"
        /\ request[r] = "return" => state # "Draining"

\* From the moment wait_for_drain returned no permit is outstanding.
DrainedSteps ==
    \A r \in Requests :
        request[r] \in {"final", "fence", "signal", "commit"} => Admitted = {}

\* The signal is followed by the commit and by nothing else.
SignalThenCommit ==
    shutdown_tx = "sent" =>
        state = "ShutdownCommitted" \/ \E r \in Requests : request[r] = "commit"

\* The inductive invariant.
OwnerInv == OneOwner /\ StateOfStep /\ DrainHasOwner /\ SignalThenCommit
DrainInv == OwnerInv /\ DrainedSteps /\ NoWorkAfterCommit /\ NoLostWakeup

\* The handlers of src/web/manage.rs keep lifecycle_control, the step and the
\* lifecycle state in agreement.
LEMMA OwnerRequestStep ==
  ASSUME TypeOK, OwnerInv, NEW r \in Requests, RequestNext(r)
  PROVE  OwnerInv'
  <1> USE NoRequestAssumption
      DEF TypeOK, OwnerInv, OneOwner, StateOfStep, DrainHasOwner, SignalThenCommit,
          DrainSteps, RestoreSteps, RequestState, LifecycleAdmissionState, admissionVars,
          Goto, Leave, CancelAndRestore, begin_draining, commit_shutdown, cancel_draining
  <1>1. CASE LockControl(r)
    BY <1>1 DEF LockControl
  <1>2. CASE ValidateLease(r)
    BY <1>2 DEF ValidateLease
  <1>3. CASE BeginDraining(r)
    BY <1>3 DEF BeginDraining
  <1>4. CASE InitialSnapshot(r)
    BY <1>4 DEF InitialSnapshot, Snapshot
  <1>5. CASE FinalSnapshot(r)
    BY <1>5 DEF FinalSnapshot, Snapshot
  <1>6. CASE StopBridge(r)
    BY <1>6 DEF StopBridge
  <1>7. CASE DrainCheck(r)
    BY <1>7 DEF DrainCheck
  <1>8. CASE DrainWake(r)
    BY <1>8 DEF DrainWake
  <1>9. CASE DrainTimeout(r)
    BY <1>9 DEF DrainTimeout
  <1>10. CASE DrainTimedOut(r)
    BY <1>10 DEF DrainTimedOut
  <1>11. CASE FenceLease(r)
    BY <1>11 DEF FenceLease
  <1>12. CASE RequestShutdown(r)
    BY <1>12 DEF RequestShutdown
  <1>13. CASE CommitShutdown(r)
    BY <1>13 DEF CommitShutdown
  <1>14. CASE Deadline(r)
    BY <1>14 DEF Deadline, Suspended
  <1>15. CASE DeadlineCancel(r)
    BY <1>15 DEF DeadlineCancel
  <1>16. CASE RestoreBridge(r)
    BY <1>16 DEF RestoreBridge
  <1>17. CASE Return(r) \/ Abandon(r)
    BY <1>17 DEF Return, Abandon, DropGuard, Suspended
  <1> QED
    BY <1>1, <1>2, <1>3, <1>4, <1>5, <1>6, <1>7, <1>8, <1>9, <1>10, <1>11, <1>12,
       <1>13, <1>14, <1>15, <1>16, <1>17 DEF RequestNext, RequestStep

\* When the counter is zero no task holds a permit.
LEMMA ZeroMeansDrained ==
  ASSUME PermitCount, active_permits = 0
  PROVE  Counted = {} /\ Admitted = {}
  <1>1. Counted = {}
    BY CountedFinite, FS_EmptySet DEF PermitCount
  <1> QED
    BY <1>1 DEF Counted, Admitted

\* A request commits only after it saw the counter at zero, and parks only when
\* it did not.
LEMMA DrainRequestStep ==
  ASSUME TypeInv, DrainInv, NEW r \in Requests, RequestNext(r)
  PROVE  DrainInv'
  <1> USE DEF TypeInv, DrainInv
  <1>1. OwnerInv'
    BY OwnerRequestStep
  <1>2. UNCHANGED <<active_permits, task>> /\ Admitted' = Admitted
    BY OtherStepsKeepTasks DEF Admitted
  <1>3. \A q \in Requests : q # r => request'[q] = "idle" /\ request[q] = "idle"
    BY <1>1 DEF RequestNext, RequestStep, LockControl, ValidateLease, BeginDraining,
                InitialSnapshot, FinalSnapshot, Snapshot, StopBridge, DrainCheck, DrainWake,
                DrainTimeout, DrainTimedOut, FenceLease, RequestShutdown, CommitShutdown,
                Deadline, DeadlineCancel, RestoreBridge, Return, Abandon, DropGuard,
                CancelAndRestore, Goto, Leave, OwnerInv, OneOwner, TypeOK, Suspended,
                DrainSteps
  <1>4. DrainedSteps'
    <2>1. CASE DrainCheck(r)
      BY <1>2, <1>3, <2>1, ZeroMeansDrained DEF DrainedSteps, DrainCheck, Goto, TypeOK
    <2>2. CASE ~DrainCheck(r)
      BY <1>2, <1>3, <2>2
         DEF DrainedSteps, RequestNext, RequestStep, LockControl, ValidateLease, BeginDraining,
             InitialSnapshot, FinalSnapshot, Snapshot, StopBridge, DrainWake,
             DrainTimeout, DrainTimedOut, FenceLease, RequestShutdown, CommitShutdown,
             Deadline, DeadlineCancel, RestoreBridge, Return, Abandon, DropGuard,
             CancelAndRestore, Goto, Leave, TypeOK
    <2> QED
      BY <2>1, <2>2
  <1>5. NoWorkAfterCommit'
    <2>1. CASE CommitShutdown(r)
      BY <1>2, <2>1 DEF CommitShutdown, DrainedSteps, NoWorkAfterCommit
    <2>2. CASE ~CommitShutdown(r)
      <3>1. state' = "ShutdownCommitted" => state = "ShutdownCommitted"
        BY <2>2
           DEF RequestNext, RequestStep, LockControl, ValidateLease, BeginDraining,
               InitialSnapshot, FinalSnapshot, Snapshot, StopBridge, DrainCheck, DrainWake,
               DrainTimeout, DrainTimedOut, FenceLease, RequestShutdown, Deadline,
               DeadlineCancel, RestoreBridge, Return, Abandon, DropGuard, CancelAndRestore,
               begin_draining, cancel_draining, admissionVars
      <3> QED
        BY <1>2, <3>1 DEF NoWorkAfterCommit
    <2> QED
      BY <2>1, <2>2
  <1>6. NoLostWakeup'
    <2>1. CASE request'[r] = "parked"
      <3>1. DrainCheck(r) /\ active_permits # 0
        BY <2>1
           DEF RequestNext, RequestStep, LockControl, ValidateLease, BeginDraining,
               InitialSnapshot, FinalSnapshot, Snapshot, StopBridge, DrainCheck, DrainWake,
               DrainTimeout, DrainTimedOut, FenceLease, RequestShutdown, CommitShutdown,
               Deadline, DeadlineCancel, RestoreBridge, Return, Abandon, DropGuard,
               CancelAndRestore, Goto, Leave, TypeOK
      <3> QED
        BY <1>2, <1>3, <3>1 DEF NoLostWakeup
    <2>2. CASE request'[r] # "parked"
      BY <1>3, <2>2 DEF NoLostWakeup
    <2> QED
      BY <2>1, <2>2
  <1> QED
    BY <1>1, <1>4, <1>5, <1>6

\* Tasks move between the counter and the wake-up; they cannot enter once the
\* gate is closed.
LEMMA DrainTaskStep ==
  ASSUME TypeInv, DrainInv, TaskNext, UNCHANGED <<requestVars, shutdown_tx, bridgeVars>>
  PROVE  DrainInv'
  <1> USE DEF TypeInv, DrainInv
  <1>1. UNCHANGED <<state, lifecycle_control, request, shutdown_tx>>
    BY DEF TaskNext, AdmitCheck, AdmitCount, AdmitRecheck, ReleasePermit, NotifyOne,
           requestVars
  <1>2. OwnerInv'
    BY <1>1 DEF OwnerInv, OneOwner, StateOfStep, DrainHasOwner, SignalThenCommit
  <1>3. state # "Active" => Admitted' \subseteq Admitted
    BY DEF TaskNext, AdmitCheck, AdmitCount, AdmitRecheck, ReleasePermit, NotifyOne,
           Admitted, TypeOK
  <1>4. DrainedSteps' /\ NoWorkAfterCommit'
    BY <1>1, <1>3 DEF DrainedSteps, NoWorkAfterCommit, OwnerInv, StateOfStep, DrainSteps
  <1>5. NoLostWakeup'
    <2>1. PICK t \in Tasks : \/ AdmitCheck(t)
                             \/ AdmitCount(t)
                             \/ AdmitRecheck(t)
                             \/ ReleasePermit(t)
                             \/ NotifyOne(t)
      BY DEF TaskNext
    <2>2. CASE AdmitCheck(t) \/ AdmitRecheck(t)
      BY <1>1, <2>2 DEF AdmitCheck, AdmitRecheck, NoLostWakeup, TypeOK
    <2>3. CASE AdmitCount(t)
      BY <2>3 DEF AdmitCount, NoLostWakeup, TypeOK
    <2>4. CASE ReleasePermit(t)
      <3>1. active_permits' = 0 => task'[t] = "last"
        BY <2>4 DEF ReleasePermit, TypeOK
      <3>2. active_permits' = 0 => \E u \in Tasks : task'[u] = "last"
        BY <3>1
      <3> QED
        BY <3>2, Zenon DEF NoLostWakeup
    <2>5. CASE NotifyOne(t)
      BY <2>5, Zenon DEF NotifyOne, NoLostWakeup
    <2> QED
      BY <2>1, <2>2, <2>3, <2>4, <2>5
  <1> QED
    BY <1>2, <1>4, <1>5

\* The invariant holds before the first request.
LEMMA DrainInvInit == Init => DrainInv
  BY NoRequestAssumption
     DEF Init, AdmissionInit, DrainInv, OwnerInv, OneOwner, StateOfStep, DrainHasOwner,
         SignalThenCommit, DrainedSteps, NoWorkAfterCommit, NoLostWakeup, Admitted,
         DrainSteps, RestoreSteps

\* The invariant survives every step.
LEMMA DrainInvStep == TypeInv /\ DrainInv /\ [Next]_vars => DrainInv'
  <1> SUFFICES ASSUME TypeInv, DrainInv, [Next]_vars PROVE DrainInv'
    OBVIOUS
  <1>1. CASE TaskNext /\ UNCHANGED <<requestVars, shutdown_tx, bridgeVars>>
    BY <1>1, DrainTaskStep
  <1>2. ASSUME NEW r \in Requests, RequestNext(r)
        PROVE  DrainInv'
    BY <1>2, DrainRequestStep
  <1>3. CASE BridgeNext \/ UNCHANGED vars
    <2>1. UNCHANGED <<state, active_permits, drained, task, lifecycle_control, request,
                      shutdown_tx>>
      BY <1>3 DEF BridgeNext, StartReadsState, StartReadsConfig, StartSpawns, ApiStop,
                  ApiCall, vars, admissionVars, requestVars
    <2> QED
      BY <2>1 DEF DrainInv, OwnerInv, OneOwner, StateOfStep, DrainHasOwner,
                  SignalThenCommit, DrainedSteps, NoWorkAfterCommit, NoLostWakeup, Admitted
  <1> QED
    BY <1>1, <1>2, <1>3 DEF Next

\* The inductive invariant holds in every reachable state.
THEOREM InvCorrect == Spec => [](TypeInv /\ DrainInv)
  BY TypeInvInit, TypeInvStep, DrainInvInit, DrainInvStep, PTL DEF Spec

\* No permit is outstanding after the commit, for any number of tasks and
\* requests (try_admit against drain_until_shutdown).
THEOREM CommitIsSafe == Spec => []NoWorkAfterCommit
  <1>1. DrainInv => NoWorkAfterCommit
    BY DEF DrainInv
  <1> QED
    BY <1>1, InvCorrect, PTL

\* A draining gate always has the request that closed it behind it
\* (DrainingGuard).
THEOREM DrainIsOwned == Spec => []DrainHasOwner
  <1>1. DrainInv => DrainHasOwner
    BY DEF DrainInv, OwnerInv
  <1> QED
    BY <1>1, InvCorrect, PTL

\* The gate stays closed after the signal (request_shutdown, commit_shutdown).
THEOREM SignalIsFinal == Spec => []SignalKeepsGateClosed
  <1>1. DrainInv => SignalKeepsGateClosed
    BY DEF DrainInv, OwnerInv, SignalThenCommit, StateOfStep, SignalKeepsGateClosed
  <1> QED
    BY <1>1, InvCorrect, PTL

\* wait_for_drain never sleeps through the last release_permit.
THEOREM WakeupIsNotLost == Spec => []NoLostWakeup
  <1>1. DrainInv => NoLostWakeup
    BY DEF DrainInv
  <1> QED
    BY <1>1, InvCorrect, PTL

-----------------------------------------------------------------------------
(* Refinement. *)

\* The initial gate is the abstract one.
LEMMA GateInitRefines == Init => Gate!GateInit
  BY DEF Init, AdmissionInit, Gate!GateInit, Admitted

\* A task step is an Admit, a Finish or a stutter of the abstract gate.
LEMMA GateTaskStep ==
  ASSUME TypeOK, TaskNext
  PROVE  [Gate!GateNext]_Gate!gateVars
  <1> USE DEF TypeOK
  <1>1. state' = state
    BY DEF TaskNext, AdmitCheck, AdmitCount, AdmitRecheck, ReleasePermit, NotifyOne
  <1>2. PICK t \in Tasks : \/ AdmitCheck(t)
                           \/ AdmitCount(t)
                           \/ AdmitRecheck(t)
                           \/ ReleasePermit(t)
                           \/ NotifyOne(t)
    BY DEF TaskNext
  <1>3. CASE AdmitCheck(t) \/ AdmitCount(t) \/ NotifyOne(t)
    <2>1. Admitted' = Admitted
      BY <1>3 DEF AdmitCheck, AdmitCount, NotifyOne, Admitted
    <2> QED
      BY <1>1, <2>1 DEF Gate!gateVars
  <1>4. CASE AdmitRecheck(t)
    <2>1. CASE state = "Active"
      <3>1. Admitted' = Admitted \cup {t} /\ t \notin Admitted
        BY <1>4, <2>1 DEF AdmitRecheck, Admitted
      <3>2. Gate!Admit(t)
        BY <1>1, <2>1, <3>1 DEF Gate!Admit
      <3> QED
        BY <3>2 DEF Gate!GateNext
    <2>2. CASE state # "Active"
      <3>1. Admitted' = Admitted
        BY <1>4, <2>2 DEF AdmitRecheck, Admitted
      <3> QED
        BY <1>1, <3>1 DEF Gate!gateVars
    <2> QED
      BY <2>1, <2>2
  <1>5. CASE ReleasePermit(t)
    <2>1. CASE task[t] = "admitted"
      <3>1. Admitted' = Admitted \ {t} /\ t \in Admitted
        BY <1>5, <2>1 DEF ReleasePermit, Admitted
      <3>2. Gate!Finish(t)
        BY <1>1, <3>1 DEF Gate!Finish
      <3> QED
        BY <3>2 DEF Gate!GateNext
    <2>2. CASE task[t] # "admitted"
      <3>1. Admitted' = Admitted
        BY <1>5, <2>2 DEF ReleasePermit, Admitted
      <3> QED
        BY <1>1, <3>1 DEF Gate!gateVars
    <2> QED
      BY <2>1, <2>2
  <1> QED
    BY <1>2, <1>3, <1>4, <1>5

\* A request step is a Close, a Reopen, a Stop or a stutter; it is a Stop only
\* when no permit is outstanding.
LEMMA GateRequestStep ==
  ASSUME TypeOK, DrainInv, NEW r \in Requests, RequestNext(r)
  PROVE  [Gate!GateNext]_Gate!gateVars
  <1>1. Admitted' = Admitted
    BY OtherStepsKeepTasks DEF Admitted
  <1>2. \/ state' = state
        \/ state = "Active" /\ state' = "Draining"
        \/ state = "Draining" /\ state' = "Active"
        \/ state = "Draining" /\ state' = "ShutdownCommitted" /\ CommitShutdown(r)
    BY DEF RequestNext, RequestStep, LockControl, ValidateLease, BeginDraining,
           InitialSnapshot, FinalSnapshot, Snapshot, StopBridge, DrainCheck, DrainWake,
           DrainTimeout, DrainTimedOut, FenceLease, RequestShutdown, CommitShutdown,
           Deadline, DeadlineCancel, RestoreBridge, Return, Abandon, DropGuard,
           CancelAndRestore, begin_draining, cancel_draining, commit_shutdown, admissionVars
  <1>3. CommitShutdown(r) => Admitted = {}
    BY DEF CommitShutdown, DrainInv, DrainedSteps
  <1> QED
    BY <1>1, <1>2, <1>3
       DEF Gate!GateNext, Gate!gateVars, Gate!Close, Gate!Reopen, Gate!Stop

\* The gate of src/app_state.rs, driven by the requests of src/web/manage.rs,
\* implements ProtectedShutdown.
THEOREM GateRefinement == Spec => GateSpec
  <1>1. TypeInv /\ DrainInv /\ [Next]_vars => [Gate!GateNext]_Gate!gateVars
    <2> SUFFICES ASSUME TypeInv, DrainInv, [Next]_vars
                 PROVE  [Gate!GateNext]_Gate!gateVars
      OBVIOUS
    <2>1. CASE TaskNext
      BY <2>1, GateTaskStep DEF TypeInv
    <2>2. ASSUME NEW r \in Requests, RequestNext(r)
          PROVE  [Gate!GateNext]_Gate!gateVars
      BY <2>2, GateRequestStep DEF TypeInv
    <2>3. CASE BridgeNext \/ UNCHANGED vars
      <3>1. UNCHANGED <<state, task>>
        BY <2>3 DEF BridgeNext, StartReadsState, StartReadsConfig, StartSpawns, ApiStop,
                    ApiCall, vars, admissionVars
      <3> QED
        BY <3>1 DEF Gate!gateVars, Admitted
    <2> QED
      BY <2>1, <2>2, <2>3 DEF Next
  <1> QED
    BY <1>1, GateInitRefines, InvCorrect, PTL DEF Spec, GateSpec, Gate!GateSpec
=============================================================================
