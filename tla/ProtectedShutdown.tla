------------------------- MODULE ProtectedShutdown -------------------------
(***************************************************************************)
(* What the lifecycle gate promises, without counters, flags or wake-ups:  *)
(* work enters only while the daemon serves, a drain may be called off,    *)
(* and the daemon stops only when the gate is closed and no admitted work  *)
(* is left.  A daemon that has stopped stays stopped.                      *)
(***************************************************************************)
CONSTANT Tasks

VARIABLES phase,   \* "serving", "closed" or "stopped"
          work     \* tasks holding a permit

gateVars == <<phase, work>>

GateInit == phase = "serving" /\ work = {}

\* A task obtains a permit.
Admit(t) == /\ phase = "serving"
            /\ t \notin work
            /\ work' = work \cup {t}
            /\ UNCHANGED phase

\* A task drops its permit, whatever the daemon is doing.
Finish(t) == /\ t \in work
             /\ work' = work \ {t}
             /\ UNCHANGED phase

Close == /\ phase = "serving"
         /\ phase' = "closed"
         /\ UNCHANGED work

Reopen == /\ phase = "closed"
          /\ phase' = "serving"
          /\ UNCHANGED work

Stop == /\ phase = "closed"
        /\ work = {}
        /\ phase' = "stopped"
        /\ UNCHANGED work

GateNext == \/ \E t \in Tasks : Admit(t) \/ Finish(t)
            \/ Close
            \/ Reopen
            \/ Stop

GateSpec == GateInit /\ [][GateNext]_gateVars
=============================================================================
