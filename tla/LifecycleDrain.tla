--------------------------- MODULE LifecycleDrain ---------------------------
(***************************************************************************)
(* The lifecycle requests of src/web/manage.rs (shutdown, and restart,     *)
(* which also has to present a management lease) against the admission     *)
(* gate, the one-shot shutdown signal and the IM bridge task.  A request   *)
(* holds the lifecycle_control mutex from start to end; its future may be  *)
(* dropped at any await, and a deadline runs over the whole drain.         *)
(*                                                                         *)
(* The outcome of a snapshot (protected work items or none) and of a lease *)
(* validation is the environment's choice here; module ManagementLease     *)
(* models the lease itself.                                                *)
(***************************************************************************)
EXTENDS LifecycleAdmission

CONSTANTS Requests,     \* handlers of /shutdown and /lifecycle/restart
          NoRequest,    \* lifecycle_control is free
          MaxApiCalls,  \* bound: bridge API calls in a behaviour
          MaxPending    \* bound: bridge operations under way at a time

ASSUME NoRequestAssumption == NoRequest \notin Requests
ASSUME BoundsAssumption == MaxApiCalls \in Nat /\ MaxPending \in Nat

VARIABLES lifecycle_control,  \* owner of the tokio mutex
          request,            \* where each request is
          options,            \* what each request asked for
          shutdown_tx,        \* "armed", "sent" or "lost"
          bridge,             \* the bridge task is running
          bridge_enabled,     \* config.bridge.enabled and an account configured
          bridge_ops,         \* start/stop calls under way, by stage
          api_calls           \* bridge API calls so far

bridgeVars == <<bridge, bridge_enabled, bridge_ops, api_calls>>
requestVars == <<lifecycle_control, request, options>>
vars == <<admissionVars, requestVars, shutdown_tx, bridgeVars>>

\* lease     restart only: first validation of the lease
\* begin     about to call begin_draining
\* initial   first snapshot                  stop      stop the bridge
\* check     head of the wait_for_drain loop parked    awaiting `drained'
\* timedOut  the wait timed out              final     second snapshot
\* fence     restart only: lease lock and second validation
\* signal    request_shutdown                commit    commit_shutdown
\* overdue   the deadline has passed
\* rState, rConfig, rTask   start_bridge_task, called to restore the bridge
\* return    the guard and the mutex are about to be dropped
DrainSteps == {"initial", "stop", "check", "parked", "timedOut", "final",
               "fence", "signal"}
RestoreSteps == {"rState", "rConfig", "rTask"}
RequestState == {"idle", "lease", "begin", "commit", "overdue", "return"}
                  \cup DrainSteps \cup RestoreSteps

\* Mutant: an await between the shutdown signal and its commit.
SuspendedAtCommit == DrainSteps \cup {"rConfig", "rTask", "overdue", "commit"}

\* Steps before which the request's future may be suspended, and dropped.
\* start_bridge_task reads the state with no await since the cancel.
Suspended == DrainSteps \cup {"rConfig", "rTask", "overdue"}

\* What a request asked for, and whether its deadline has passed.
Options == [force : BOOLEAN, restart : BOOLEAN, late : BOOLEAN]
NoOptions == [force |-> FALSE, restart |-> FALSE, late |-> FALSE]

\* Stages of start_bridge_task, and the stop that ends the disable API.
OpStage == {"state", "config", "task", "stop"}
Pending == bridge_ops["state"] + bridge_ops["config"] + bridge_ops["task"]
             + bridge_ops["stop"]

Init == /\ AdmissionInit
        /\ lifecycle_control = NoRequest
        /\ request = [r \in Requests |-> "idle"]
        /\ options = [r \in Requests |-> NoOptions]
        /\ shutdown_tx = "armed"
        /\ bridge_enabled \in BOOLEAN
        /\ bridge = bridge_enabled
        /\ bridge_ops = [s \in OpStage |-> 0]
        /\ api_calls = 0

-----------------------------------------------------------------------------
Goto(r, step) == request' = [request EXCEPT ![r] = step]

\* The request returns to its caller without a DrainingGuard.
Leave(r) == /\ Goto(r, "idle")
            /\ lifecycle_control' = NoRequest
            /\ options' = [options EXCEPT ![r] = NoOptions]

\* request_shutdown_with_drain and request_restart_with_drain
LockControl(r) ==
    /\ request[r] = "idle"
    /\ lifecycle_control = NoRequest
    /\ lifecycle_control' = r
    /\ \E force, restart \in BOOLEAN :
         /\ options' = [options EXCEPT ![r] =
                          [force |-> force, restart |-> restart, late |-> FALSE]]
         /\ Goto(r, IF restart THEN "lease" ELSE "begin")
    /\ UNCHANGED <<admissionVars, shutdown_tx, bridgeVars>>

\* The first validation of a restart's lease; a rejected, or dropped, request
\* has not touched the gate.
ValidateLease(r) ==
    /\ request[r] = "lease"
    /\ \/ Goto(r, "begin") /\ UNCHANGED <<lifecycle_control, options>>
       \/ Leave(r)
    /\ UNCHANGED <<admissionVars, shutdown_tx, bridgeVars>>

\* request_shutdown_with_drain_inner; AlreadyInProgress if the CAS fails.
BeginDraining(r) ==
    /\ request[r] = "begin"
    /\ \/ /\ begin_draining
          /\ Goto(r, "initial")
          /\ UNCHANGED <<lifecycle_control, options>>
       \/ /\ state # "Active"
          /\ Leave(r)
          /\ UNCHANGED state
    /\ UNCHANGED <<active_permits, drained, task, shutdown_tx, bridgeVars>>

\* cancel_draining_and_restore_bridge, up to its first await
CancelAndRestore(r) ==
    /\ cancel_draining
    /\ Goto(r, IF state = "Draining" THEN "rState" ELSE "return")

\* A snapshot: protected work items end an unforced drain.
Snapshot(r, here, next) ==
    /\ request[r] = here
    /\ \/ Goto(r, next) /\ UNCHANGED state
       \/ ~options[r].force /\ CancelAndRestore(r)
    /\ UNCHANGED <<active_permits, drained, task, lifecycle_control, options,
                   shutdown_tx, bridgeVars>>

InitialSnapshot(r) == Snapshot(r, "initial", "stop")

FinalSnapshot(r) ==
    Snapshot(r, "final", IF options[r].restart THEN "fence" ELSE "signal")

\* stop_bridge_for_lifecycle_shutdown
StopBridge(r) ==
    /\ request[r] = "stop"
    /\ bridge' = FALSE
    /\ Goto(r, "check")
    /\ UNCHANGED <<admissionVars, lifecycle_control, options, shutdown_tx,
                   bridge_enabled, bridge_ops, api_calls>>

-----------------------------------------------------------------------------
\* wait_for_drain: one turn of the loop
DrainCheck(r) ==
    /\ request[r] = "check"
    /\ Goto(r, IF active_permits = 0 THEN "final" ELSE "parked")
    /\ UNCHANGED <<admissionVars, lifecycle_control, options, shutdown_tx, bridgeVars>>

\* notified.await: takes the stored notification
DrainWake(r) ==
    /\ request[r] = "parked"
    /\ drained
    /\ drained' = FALSE
    /\ Goto(r, "check")
    /\ UNCHANGED <<state, active_permits, task, lifecycle_control, options,
                   shutdown_tx, bridgeVars>>

\* Mutant: the caller does not fail closed when the wait times out.
DrainTimeoutProceeds(r) ==
    /\ request[r] = "parked"
    /\ Goto(r, "final")
    /\ UNCHANGED <<admissionVars, lifecycle_control, options, shutdown_tx, bridgeVars>>

\* Mutant: wait_for_drain without a time limit.
DrainTimeoutNever(r) == FALSE /\ UNCHANGED vars

\* wait_for_drain_with_timeout gives up
DrainTimeout(r) ==
    /\ request[r] = "parked"
    /\ Goto(r, "timedOut")
    /\ UNCHANGED <<admissionVars, lifecycle_control, options, shutdown_tx, bridgeVars>>

DrainTimedOut(r) ==
    /\ request[r] = "timedOut"
    /\ CancelAndRestore(r)
    /\ UNCHANGED <<active_permits, drained, task, lifecycle_control, options,
                   shutdown_tx, bridgeVars>>

\* acquire_validated_lifecycle_lease_lock before the shutdown signal
FenceLease(r) ==
    /\ request[r] = "fence"
    /\ \/ Goto(r, "signal") /\ UNCHANGED state
       \/ CancelAndRestore(r)
    /\ UNCHANGED <<active_permits, drained, task, lifecycle_control, options,
                   shutdown_tx, bridgeVars>>

\* AppState::request_shutdown: the sender is taken once; the send fails when
\* the receiver is gone.
RequestShutdown(r) ==
    /\ request[r] = "signal"
    /\ \/ /\ shutdown_tx = "armed"
          /\ shutdown_tx' = "sent"
          /\ Goto(r, "commit")
          /\ UNCHANGED state
       \/ /\ shutdown_tx' = IF shutdown_tx = "armed" THEN "lost" ELSE shutdown_tx
          /\ CancelAndRestore(r)
    /\ UNCHANGED <<active_permits, drained, task, lifecycle_control, options, bridgeVars>>

CommitShutdown(r) ==
    /\ request[r] = "commit"
    /\ commit_shutdown
    /\ Goto(r, "return")
    /\ UNCHANGED <<active_permits, drained, task, lifecycle_control, options,
                   shutdown_tx, bridgeVars>>

\* tokio::time::timeout(LIFECYCLE_DRAIN_DEADLINE, ..) fires
Deadline(r) ==
    /\ request[r] \in Suspended
    /\ ~options[r].late
    /\ options' = [options EXCEPT ![r].late = TRUE]
    /\ Goto(r, "overdue")
    /\ UNCHANGED <<admissionVars, lifecycle_control, shutdown_tx, bridgeVars>>

DeadlineCancel(r) ==
    /\ request[r] = "overdue"
    /\ CancelAndRestore(r)
    /\ UNCHANGED <<active_permits, drained, task, lifecycle_control, options,
                   shutdown_tx, bridgeVars>>

\* start_bridge_task called by the request itself
RestoreBridge(r) ==
    /\ \/ /\ request[r] = "rState"
          /\ Goto(r, IF state = "Active" THEN "rConfig" ELSE "return")
          /\ UNCHANGED bridge
       \/ /\ request[r] = "rConfig"
          /\ Goto(r, IF bridge_enabled THEN "rTask" ELSE "return")
          /\ UNCHANGED bridge
       \/ /\ request[r] = "rTask"
          /\ bridge' = TRUE
          /\ Goto(r, "return")
    /\ UNCHANGED <<admissionVars, lifecycle_control, options, shutdown_tx,
                   bridge_enabled, bridge_ops, api_calls>>

\* DrainingGuard::drop, then the mutex guard: a drain that nobody ended is
\* called off and the bridge start is handed to a detached task.
DropGuard(r) ==
    /\ cancel_draining
    /\ bridge_ops' = IF state = "Draining"
                     THEN [bridge_ops EXCEPT !["state"] = @ + 1] ELSE bridge_ops
    /\ Leave(r)
    /\ UNCHANGED <<active_permits, drained, task, shutdown_tx, bridge,
                   bridge_enabled, api_calls>>

Return(r) == request[r] = "return" /\ DropGuard(r)

\* Mutant: no DrainingGuard.
AbandonUnguarded(r) ==
    /\ request[r] \in Suspended
    /\ Leave(r)
    /\ UNCHANGED <<admissionVars, shutdown_tx, bridgeVars>>

\* The caller disconnects and the request's future is dropped at an await.
Abandon(r) ==
    /\ request[r] \in Suspended
    /\ Pending < MaxPending
    /\ DropGuard(r)

-----------------------------------------------------------------------------
\* start_bridge_task, called by a detached restore or by an API handler.
Op(from, to) == bridge_ops' = [bridge_ops EXCEPT ![from] = @ - 1, ![to] = @ + 1]
EndOp(from) == bridge_ops' = [bridge_ops EXCEPT ![from] = @ - 1]

StartReadsState ==
    /\ bridge_ops["state"] > 0
    /\ IF state = "Active" THEN Op("state", "config") ELSE EndOp("state")
    /\ UNCHANGED <<admissionVars, requestVars, shutdown_tx, bridge,
                   bridge_enabled, api_calls>>

StartReadsConfig ==
    /\ bridge_ops["config"] > 0
    /\ IF bridge_enabled THEN Op("config", "task") ELSE EndOp("config")
    /\ UNCHANGED <<admissionVars, requestVars, shutdown_tx, bridge,
                   bridge_enabled, api_calls>>

StartSpawns ==
    /\ bridge_ops["task"] > 0
    /\ EndOp("task")
    /\ bridge' = TRUE
    /\ UNCHANGED <<admissionVars, requestVars, shutdown_tx, bridge_enabled, api_calls>>

\* start_bridge and stop_bridge of src/web/im_api.rs: the config is saved
\* first, the task is started or stopped afterwards.
ApiCall(enable) ==
    /\ api_calls < MaxApiCalls
    /\ Pending < MaxPending
    /\ api_calls' = api_calls + 1
    /\ bridge_enabled' = enable
    /\ bridge_ops' = [bridge_ops EXCEPT ![IF enable THEN "state" ELSE "stop"] = @ + 1]
    /\ UNCHANGED <<admissionVars, requestVars, shutdown_tx, bridge>>

ApiStop ==
    /\ bridge_ops["stop"] > 0
    /\ EndOp("stop")
    /\ bridge' = FALSE
    /\ UNCHANGED <<admissionVars, requestVars, shutdown_tx, bridge_enabled, api_calls>>

BridgeNext == \/ StartReadsState
              \/ StartReadsConfig
              \/ StartSpawns
              \/ ApiStop
              \/ \E enable \in BOOLEAN : ApiCall(enable)

-----------------------------------------------------------------------------
\* What the runtime keeps running once a request holds lifecycle_control.
RequestStep(r) == \/ ValidateLease(r)
                  \/ BeginDraining(r)
                  \/ InitialSnapshot(r)
                  \/ StopBridge(r)
                  \/ DrainCheck(r)
                  \/ DrainWake(r)
                  \/ DrainTimeout(r)
                  \/ DrainTimedOut(r)
                  \/ FinalSnapshot(r)
                  \/ FenceLease(r)
                  \/ RequestShutdown(r)
                  \/ CommitShutdown(r)
                  \/ DeadlineCancel(r)
                  \/ RestoreBridge(r)
                  \/ Return(r)

RequestNext(r) == LockControl(r) \/ RequestStep(r) \/ Deadline(r) \/ Abandon(r)

Next == \/ TaskNext /\ UNCHANGED <<requestVars, shutdown_tx, bridgeVars>>
        \/ \E r \in Requests : RequestNext(r)
        \/ BridgeNext

Spec == Init /\ [][Next]_vars

\* The runtime polls a woken future and fires its timers.  Nothing obliges a
\* task to give a permit back, or a client to wait for its answer.
Fairness == /\ \A r \in Requests : WF_vars(RequestStep(r))
            /\ \A t \in Tasks : WF_vars(NotifyOne(t) /\ UNCHANGED <<requestVars, shutdown_tx, bridgeVars>>)

FairSpec == Spec /\ Fairness

-----------------------------------------------------------------------------
\* Every variable stays in its domain.
TypeOK == /\ state \in LifecycleAdmissionState
          /\ active_permits \in Nat
          /\ drained \in BOOLEAN
          /\ task \in [Tasks -> TaskState]
          /\ lifecycle_control \in Requests \cup {NoRequest}
          /\ request \in [Requests -> RequestState]
          /\ options \in [Requests -> Options]
          /\ shutdown_tx \in {"armed", "sent", "lost"}
          /\ bridge \in BOOLEAN
          /\ bridge_enabled \in BOOLEAN
          /\ bridge_ops \in [OpStage -> Nat]
          /\ api_calls \in Nat

\* No permit is outstanding once a shutdown is committed: a task that raced
\* with begin_draining either was counted before the drain saw zero, or is
\* refused by the second read of try_admit.
NoWorkAfterCommit == state = "ShutdownCommitted" => Admitted = {}

\* The daemon is never left draining without an owner: whenever the gate is
\* closed and not committed, the request that closed it still holds
\* lifecycle_control and is at a step from which its guard will run.
DrainHasOwner ==
    state = "Draining" =>
        /\ lifecycle_control \in Requests
        /\ request[lifecycle_control] \in DrainSteps \cup {"commit", "overdue"}

\* Once the shutdown signal is sent the gate is never open again, although
\* drain_until_shutdown ignores the result of commit_shutdown.
SignalKeepsGateClosed == shutdown_tx = "sent" => state # "Active"

\* No lost wake-up: a request parked with no permit outstanding has a stored
\* notification, or the releasing task is about to store one.
NoLostWakeup ==
    \A r \in Requests :
        request[r] = "parked" /\ active_permits = 0
            => drained \/ \E t \in Tasks : task[t] = "last"

\* The gate implements the promise of ProtectedShutdown.
Gate == INSTANCE ProtectedShutdown
          WITH phase <- CASE state = "Active" -> "serving"
                          [] state = "Draining" -> "closed"
                          [] OTHER -> "stopped",
               work <- Admitted
GateSpec == Gate!GateSpec

\* A drain ends, by commit or by reopening the gate, even when a permit is
\* never given back and whoever asked for it goes away; and a request that got
\* hold of lifecycle_control gives it back, so that a stuck permit cannot lock
\* out the lease operations queued behind the mutex.
DrainEnds ==
    /\ (state = "Draining") ~> (state # "Draining")
    /\ \A r \in Requests : (lifecycle_control = r) ~> (lifecycle_control # r)

=============================================================================
