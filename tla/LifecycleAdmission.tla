------------------------- MODULE LifecycleAdmission -------------------------
(***************************************************************************)
(* LifecycleAdmission of src/app_state.rs: an atomic state, an atomic      *)
(* permit counter and a tokio Notify.  Tasks run on several runtime        *)
(* threads, so every atomic operation of try_admit and release_permit is a *)
(* step of its own.                                                        *)
(***************************************************************************)
EXTENDS Naturals, FiniteSets

CONSTANT Tasks      \* the protected work that asks for permits

ASSUME TasksFinite == IsFiniteSet(Tasks)

VARIABLES state,            \* AtomicU8
          active_permits,   \* AtomicUsize
          drained,          \* Notify: a stored notify_one
          task              \* where each task is

admissionVars == <<state, active_permits, drained, task>>

LifecycleAdmissionState == {"Active", "Draining", "ShutdownCommitted"}

\* idle      outside try_admit, no permit
\* checked   the first read of the state saw Active
\* counted   the counter has been incremented, the second read is still due
\* refused   the second read did not see Active, release_permit is due
\* admitted  holds a LifecycleAdmissionPermit
\* last      its fetch_sub returned 1, notify_one is due
TaskState == {"idle", "checked", "counted", "refused", "admitted", "last"}

\* Tasks the counter accounts for.
Counted == {t \in Tasks : task[t] \in {"counted", "refused", "admitted"}}

\* Tasks holding a permit.
Admitted == {t \in Tasks : task[t] = "admitted"}

\* LifecycleAdmission::new
AdmissionInit == /\ state = "Active"
                 /\ active_permits = 0
                 /\ drained = FALSE
                 /\ task = [t \in Tasks |-> "idle"]

-----------------------------------------------------------------------------
\* try_admit, the first read.  A task that does not see Active returns None
\* and nothing changes.
AdmitCheck(t) == /\ task[t] = "idle"
                 /\ state = "Active"
                 /\ task' = [task EXCEPT ![t] = "checked"]
                 /\ UNCHANGED <<state, active_permits, drained>>

\* try_admit, fetch_add
AdmitCount(t) == /\ task[t] = "checked"
                 /\ active_permits' = active_permits + 1
                 /\ task' = [task EXCEPT ![t] = "counted"]
                 /\ UNCHANGED <<state, drained>>

\* Mutant: no second read of the state.
AdmitUnchecked(t) == /\ task[t] = "counted"
                     /\ task' = [task EXCEPT ![t] = "admitted"]
                     /\ UNCHANGED <<state, active_permits, drained>>

\* try_admit, the second read
AdmitRecheck(t) == /\ task[t] = "counted"
                   /\ task' = [task EXCEPT ![t] =
                                 IF state = "Active" THEN "admitted" ELSE "refused"]
                   /\ UNCHANGED <<state, active_permits, drained>>

\* Mutant: the value fetch_sub returned is compared with 0.
ReleaseOffByOne(t) == /\ task[t] \in {"refused", "admitted"}
                      /\ active_permits' = active_permits - 1
                      /\ task' = [task EXCEPT ![t] =
                                    IF active_permits = 0 THEN "last" ELSE "idle"]
                      /\ UNCHANGED <<state, drained>>

\* release_permit, fetch_sub: on the refused path of try_admit, or when a
\* permit is dropped.
ReleasePermit(t) == /\ task[t] \in {"refused", "admitted"}
                    /\ active_permits' = active_permits - 1
                    /\ task' = [task EXCEPT ![t] =
                                  IF active_permits = 1 THEN "last" ELSE "idle"]
                    /\ UNCHANGED <<state, drained>>

\* release_permit, notify_one: wakes the waiter, or is stored until one comes.
NotifyOne(t) == /\ task[t] = "last"
                /\ drained' = TRUE
                /\ task' = [task EXCEPT ![t] = "idle"]
                /\ UNCHANGED <<state, active_permits>>

TaskNext == \E t \in Tasks : \/ AdmitCheck(t)
                             \/ AdmitCount(t)
                             \/ AdmitRecheck(t)
                             \/ ReleasePermit(t)
                             \/ NotifyOne(t)

-----------------------------------------------------------------------------
\* The compare-exchanges of the lifecycle requests; each states what the
\* caller sees and what it leaves in `state'.
begin_draining == state = "Active" /\ state' = "Draining"

commit_shutdown == state' = IF state = "Draining" THEN "ShutdownCommitted" ELSE state

cancel_draining == state' = IF state = "Draining" THEN "Active" ELSE state
=============================================================================
