-------------------------- MODULE ManagementLease --------------------------
(***************************************************************************)
(* The management lease and credential of src/web/manage.rs: one control   *)
(* file shared by every installation of the GUI, changed by transactions   *)
(* under an exclusive file lock.  In the daemon a handler also holds the   *)
(* lifecycle_control mutex, but its transaction runs on a blocking thread: *)
(* when the client disconnects the mutex is released and the transaction   *)
(* still runs, with a clock value read before it waited for the file lock. *)
(*                                                                         *)
(* The drain of a restart is one phase here (module LifecycleDrain opens   *)
(* it up); what matters is that time passes in it, with lifecycle_control  *)
(* held.                                                                   *)
(***************************************************************************)
EXTENDS Naturals, FiniteSets

CONSTANTS Installations,  \* installation ids
          RequestIds,     \* client-chosen ids of takeovers and rotations
          Operations,     \* bound: the API calls that clients make
          Handlers,       \* request handlers of the daemon
          NoHandler,
          LeaseDuration,  \* MANAGEMENT_LEASE_DURATION_MS, in ticks
          DrainTimeout,   \* LIFECYCLE_DRAIN_TIMEOUT, in ticks
          MaxGeneration,  \* u64::MAX of the two generation counters
          MaxTime,        \* bound on the clock
          MaxInstance     \* bound on daemon restarts

ASSUME LeaseAssumption ==
    /\ NoHandler \notin Handlers
    /\ LeaseDuration \in Nat \ {0}
    /\ DrainTimeout \in Nat
    /\ MaxGeneration \in Nat \ {0}
    /\ MaxTime \in Nat
    /\ MaxInstance \in Nat \ {0}

VARIABLES now,                \* wall clock
          instance,           \* daemon_instance_id of the running daemon
          stopping,           \* the daemon has committed to shutting down
          control,            \* the control file
          lifecycle_control,  \* handler holding the daemon's mutex
          file_lock,          \* restart holding the control lock across its commit
          handler,            \* handlers, and transactions that outlive theirs
          issued,             \* history: every lease ever written, without expiry
          rotations,          \* history: rotations carried out per request id
          intents             \* what each request id was first used for

vars == <<now, instance, stopping, control, lifecycle_control, file_lock, handler,
          issued, rotations, intents>>

None == [none |-> TRUE]

Generation == 1..MaxGeneration
ControlLease == [installation : Installations, daemon : 1..MaxInstance,
                 generation : Generation, expires : Nat]

\* What a takeover or a rotation names: the generations its client observed.
Intent == [kind : {"takeover", "rotate"} \cap Operations, installation : Installations,
           leaseGeneration : Generation, tokenGeneration : Generation]
RotationRecord == [id : RequestIds, intent : Intent, generation : Generation]

\* blocking   its transaction runs on a blocking thread, the handler awaits it
\* detached   its client is gone, the transaction has not run yet
\* drain, fence, commit   the phases of a restart
Phase == {"idle", "blocking", "detached", "drain", "fence", "commit"}

Idle == [phase |-> "idle"]

\* ensure_management_token on first use
NewControlFile == [tokenGeneration |-> 1, lease |-> None, leaseGeneration |-> 0,
                   rotation |-> None]

Init == /\ now = 0
        /\ instance = 1
        /\ stopping = FALSE
        /\ control = NewControlFile
        /\ lifecycle_control = NoHandler
        /\ file_lock = NoHandler
        /\ handler = [h \in Handlers |-> Idle]
        /\ issued = {}
        /\ rotations = [id \in RequestIds |-> 0]
        /\ intents = [id \in RequestIds |-> None]

-----------------------------------------------------------------------------
HasLease == control.lease # None
LiveAt(t) == HasLease /\ control.lease.expires > t
HeldBy(i) == HasLease /\ control.lease.installation = i
                      /\ control.lease.daemon = instance

\* checked_generation: fails at the top of the range.
CanGrow(g) == g < MaxGeneration

NewLease(i, g, t) == [installation |-> i, daemon |-> instance, generation |-> g,
                      expires |-> t + LeaseDuration]

\* write_control_file_unlocked: temporary file, fsync, atomic replacement.
Write(c) == /\ control' = c
            /\ issued' = IF c.lease = None THEN issued
                         ELSE issued \cup {[installation |-> c.lease.installation,
                                            daemon |-> c.lease.daemon,
                                            generation |-> c.lease.generation]}

Refuse == UNCHANGED <<control, issued, rotations>>

\* Mutant: a claim reuses the last generation after a lapse.
ClaimReusesGeneration(i, t) ==
    IF LiveAt(t) /\ control.lease.installation # i THEN Refuse
    ELSE LET g == IF control.leaseGeneration = 0 THEN 1 ELSE control.leaseGeneration
         IN Write([control EXCEPT !.lease = NewLease(i, g, t), !.leaseGeneration = g])
            /\ UNCHANGED rotations

\* update_lifecycle_lease, LeaseOperation::Claim
Claim(i, t) ==
    \/ /\ LiveAt(t)
       /\ control.lease.installation = i
       /\ control.lease.daemon = instance
       /\ Write([control EXCEPT !.lease = NewLease(i, control.lease.generation, t)])
       /\ UNCHANGED rotations
    \/ /\ LiveAt(t) => control.lease.installation = i /\ control.lease.daemon # instance
       /\ CanGrow(control.leaseGeneration)
       /\ LET g == control.leaseGeneration + 1
          IN Write([control EXCEPT !.lease = NewLease(i, g, t), !.leaseGeneration = g])
       /\ UNCHANGED rotations
    \/ /\ \/ LiveAt(t) /\ control.lease.installation # i
          \/ ~CanGrow(control.leaseGeneration) /\ ~(LiveAt(t) /\ HeldBy(i))
       /\ Refuse

\* LeaseOperation::Renew
Renew(i, t) ==
    IF LiveAt(t) /\ HeldBy(i)
    THEN /\ Write([control EXCEPT !.lease.expires = t + LeaseDuration])
         /\ UNCHANGED rotations
    ELSE Refuse

\* LeaseOperation::Release, of a lease that may have expired
Release(i) ==
    IF HeldBy(i)
    THEN Write([control EXCEPT !.lease = None]) /\ UNCHANGED rotations
    ELSE Refuse

\* credential_rotation_replay found this very request as the last rotation.
Replays(id) == /\ control.rotation # None
               /\ control.rotation.id = id

\* Mutant: the new token keeps the generation of the old one.
RotatedKeepsGeneration(c, id, intent) ==
    [c EXCEPT !.rotation = [id |-> id, intent |-> intent, generation |-> c.tokenGeneration]]

\* The new token, its generation and the record that makes retries idempotent.
Rotated(c, id, intent) ==
    [c EXCEPT !.tokenGeneration = @ + 1,
              !.rotation = [id |-> id, intent |-> intent,
                            generation |-> c.tokenGeneration + 1]]

CountRotation(id) == rotations' = [rotations EXCEPT ![id] = @ + 1]

\* rotate_management_credential_transaction.  A replay answers from the record
\* and a conflict refuses; neither writes.
Rotate(id, intent, t) ==
    IF /\ ~Replays(id)
       /\ control.tokenGeneration = intent.tokenGeneration
       /\ LiveAt(t)
       /\ HeldBy(intent.installation)
       /\ control.lease.generation = intent.leaseGeneration
       /\ CanGrow(control.tokenGeneration)
    THEN Write(Rotated(control, id, intent)) /\ CountRotation(id)
    ELSE Refuse

\* Mutant: the observed generations are not compared.
TakeoverUnfenced(id, intent, t) ==
    IF /\ ~Replays(id)
       /\ LiveAt(t)
       /\ control.lease.installation # intent.installation
       /\ CanGrow(control.leaseGeneration)
       /\ CanGrow(control.tokenGeneration)
    THEN LET g == control.leaseGeneration + 1
         IN /\ Write([Rotated(control, id, intent) EXCEPT
                        !.lease = NewLease(intent.installation, g, t),
                        !.leaseGeneration = g])
            /\ CountRotation(id)
    ELSE Refuse

\* The generation a takeover goes beyond.
Newest == IF control.lease.generation > control.leaseGeneration
          THEN control.lease.generation ELSE control.leaseGeneration

\* takeover_lifecycle_lease_transaction
Takeover(id, intent, t) ==
    IF /\ ~Replays(id)
       /\ control.tokenGeneration = intent.tokenGeneration
       /\ LiveAt(t)
       /\ control.lease.installation # intent.installation
       /\ control.lease.generation = intent.leaseGeneration
       /\ CanGrow(Newest)
       /\ CanGrow(control.tokenGeneration)
    THEN LET g == Newest + 1
         IN /\ Write([Rotated(control, id, intent) EXCEPT
                        !.lease = NewLease(intent.installation, g, t),
                        !.leaseGeneration = g])
            /\ CountRotation(id)
    ELSE Refuse

-----------------------------------------------------------------------------
SetHandler(h, rec) == handler' = [handler EXCEPT ![h] = rec]

\* The handler of a lease operation gets lifecycle_control and spawns its
\* blocking transaction.
Start(h, call) ==
    /\ handler[h] = Idle
    /\ lifecycle_control = NoHandler
    /\ lifecycle_control' = h
    /\ SetHandler(h, [phase |-> "blocking", start |-> now, call |-> call])
    /\ UNCHANGED <<now, instance, stopping, control, file_lock, issued, rotations>>

\* lifecycle_lease_operation: claim, renew or release
LeaseOperation(h) ==
    /\ \E i \in Installations, op \in {"claim", "renew", "release"} \cap Operations :
         Start(h, [op |-> op, installation |-> i])
    /\ UNCHANGED intents

\* A client has read the lease in the daemon's status: its holder rotates the
\* credential, anyone else takes over, and both name the generations they saw.
Observed(i) == [kind |-> IF control.lease.installation = i THEN "rotate" ELSE "takeover",
                installation |-> i,
                leaseGeneration |-> control.lease.generation,
                tokenGeneration |-> control.tokenGeneration]

\* takeover_lifecycle_lease and rotate_management_credential under a new
\* request id, or a repetition, however late, of a call whose answer was lost
CredentialOperation(h) ==
    \E id \in RequestIds :
        \E intent \in IF intents[id] # None THEN {intents[id]}
                      ELSE {Observed(i) : i \in IF HasLease THEN Installations ELSE {}} :
            /\ intent.kind \in Operations
            /\ intents' = [intents EXCEPT ![id] = intent]
            /\ Start(h, [op |-> intent.kind, id |-> id, intent |-> intent])

Transaction(c, t) ==
    CASE c.op = "claim"    -> Claim(c.installation, t)
      [] c.op = "renew"    -> Renew(c.installation, t)
      [] c.op = "release"  -> Release(c.installation)
      [] c.op = "rotate"   -> Rotate(c.id, c.intent, t)
      [] c.op = "takeover" -> Takeover(c.id, c.intent, t)

\* The transaction, which has read the clock somewhere between its spawning and
\* now, gets the file lock, reads, decides, writes and unlocks; an attached
\* handler then answers and releases lifecycle_control.
RunTransaction(h) ==
    /\ handler[h].phase \in {"blocking", "detached"}
    /\ file_lock = NoHandler
    /\ \/ \E t \in handler[h].start..now : Transaction(handler[h].call, t)
       \/ Refuse  \* an I/O error before the file was replaced
    /\ SetHandler(h, Idle)
    /\ lifecycle_control' = IF lifecycle_control = h THEN NoHandler ELSE lifecycle_control
    /\ UNCHANGED <<now, instance, stopping, file_lock, intents>>

\* The client disconnects: its future, and the mutex, are dropped; a running
\* transaction is not.  A restart that held the file lock closes the file.
Disconnect(h) ==
    /\ handler[h].phase \in {"blocking", "drain", "fence", "commit"}
    /\ SetHandler(h, IF handler[h].phase = "blocking"
                     THEN [handler[h] EXCEPT !.phase = "detached"] ELSE Idle)
    /\ lifecycle_control' = NoHandler
    /\ file_lock' = IF file_lock = h THEN NoHandler ELSE file_lock
    /\ UNCHANGED <<now, instance, stopping, control, issued, rotations, intents>>

-----------------------------------------------------------------------------
\* validate_active_lifecycle_lease, under the file lock and with a clock read
\* after it was acquired
ValidLease(c) == /\ LiveAt(now)
                 /\ HeldBy(c.installation)
                 /\ c.named > 0 => control.lease.generation = c.named

\* request_restart_with_drain: validate, then drain with lifecycle_control held.
\* A restart may name the generation it believes it holds (0: none named); one
\* that fails the validation, or finds the daemon stopping, changes nothing.
BeginRestart(h) ==
    /\ "restart" \in Operations
    /\ handler[h] = Idle
    /\ lifecycle_control = NoHandler
    /\ file_lock = NoHandler
    /\ ~stopping
    /\ \E i \in Installations, g \in 0..MaxGeneration :
         LET call == [installation |-> i, named |-> g]
         IN /\ ValidLease(call)
            /\ SetHandler(h, [phase |-> "drain", since |-> now, call |-> call])
    /\ lifecycle_control' = h
    /\ UNCHANGED <<now, instance, stopping, control, file_lock, issued, rotations, intents>>

\* The drain finishes, or is given up, within DrainTimeout.
EndDrain(h) ==
    /\ handler[h].phase = "drain"
    /\ \/ /\ SetHandler(h, [handler[h] EXCEPT !.phase = "fence"])
          /\ UNCHANGED lifecycle_control
       \/ SetHandler(h, Idle) /\ lifecycle_control' = NoHandler
    /\ UNCHANGED <<now, instance, stopping, control, file_lock, issued, rotations, intents>>

\* Mutant: the file lock is released after the second validation.
FenceUnlocked(h) ==
    /\ handler[h].phase = "fence"
    /\ file_lock = NoHandler
    /\ IF ValidLease(handler[h].call)
       THEN SetHandler(h, [handler[h] EXCEPT !.phase = "commit"]) /\ UNCHANGED lifecycle_control
       ELSE SetHandler(h, Idle) /\ lifecycle_control' = NoHandler
    /\ UNCHANGED <<now, instance, stopping, control, file_lock, issued, rotations, intents>>

\* acquire_validated_lifecycle_lease_lock before the shutdown signal
Fence(h) ==
    /\ handler[h].phase = "fence"
    /\ file_lock = NoHandler
    /\ IF ValidLease(handler[h].call)
       THEN /\ file_lock' = h
            /\ SetHandler(h, [handler[h] EXCEPT !.phase = "commit"])
            /\ UNCHANGED lifecycle_control
       ELSE /\ SetHandler(h, Idle)
            /\ lifecycle_control' = NoHandler
            /\ UNCHANGED file_lock
    /\ UNCHANGED <<now, instance, stopping, control, issued, rotations, intents>>

\* request_shutdown and commit_shutdown; the lock is released afterwards
Commit(h) ==
    /\ handler[h].phase = "commit"
    /\ stopping' = TRUE
    /\ file_lock' = NoHandler
    /\ lifecycle_control' = NoHandler
    /\ SetHandler(h, Idle)
    /\ UNCHANGED <<now, instance, control, issued, rotations, intents>>

\* The process ends, after a commit or by a crash, and a new instance starts:
\* the locks and whatever had not been written are gone.
NewInstance ==
    /\ instance < MaxInstance
    /\ instance' = instance + 1
    /\ stopping' = FALSE
    /\ lifecycle_control' = NoHandler
    /\ file_lock' = NoHandler
    /\ handler' = [h \in Handlers |-> Idle]
    /\ UNCHANGED <<now, control, issued, rotations, intents>>

\* Time passes; a drain is given up once DrainTimeout is over.
Tick ==
    /\ now < MaxTime
    /\ \A h \in Handlers : handler[h].phase = "drain" => now - handler[h].since < DrainTimeout
    /\ now' = now + 1
    /\ UNCHANGED <<instance, stopping, control, lifecycle_control, file_lock, handler,
                   issued, rotations, intents>>

Next == \/ \E h \in Handlers : \/ LeaseOperation(h)
                               \/ CredentialOperation(h)
                               \/ RunTransaction(h)
                               \/ Disconnect(h)
                               \/ BeginRestart(h)
                               \/ EndDrain(h)
                               \/ Fence(h)
                               \/ Commit(h)
        \/ NewInstance
        \/ Tick

Spec == Init /\ [][Next]_vars

-----------------------------------------------------------------------------
\* Every variable stays in its domain; the control file is one that
\* read_control_file_unlocked accepts.
TypeOK == /\ now \in 0..MaxTime
          /\ instance \in 1..MaxInstance
          /\ stopping \in BOOLEAN
          /\ control.tokenGeneration \in Generation
          /\ control.lease \in ControlLease \cup {None}
          /\ control.leaseGeneration \in 0..MaxGeneration
          /\ control.rotation \in RotationRecord \cup {None}
          /\ control.rotation # None => control.rotation.generation <= control.tokenGeneration
          /\ lifecycle_control \in Handlers \cup {NoHandler}
          /\ file_lock \in Handlers \cup {NoHandler}
          /\ \A h \in Handlers : handler[h].phase \in Phase

\* A lease generation is a fencing token: no two (installation, daemon
\* instance) pairs are ever given the same one, across expiry, release,
\* takeover and restart.
GenerationNamesHolder ==
    \A a, b \in issued : a.generation = b.generation => a = b

\* The control file stays one that the daemon can read, generations end at their
\* maximum, and each names one holder.
LeaseInv == TypeOK /\ GenerationNamesHolder

\* However often a takeover or rotation is repeated after a lost answer, its
\* request id changes the credential at most once.
RotatesOnce == \A id \in RequestIds : rotations[id] <= 1

\* From its second validation to its commit a restart's lease stays with the
\* installation that asked for it, whatever transactions are still running.
CommitIsFenced ==
    \A h \in Handlers :
        handler[h].phase = "commit" =>
            /\ HeldBy(handler[h].call.installation)
            /\ handler[h].call.named > 0 => control.lease.generation = handler[h].call.named

\* A live lease changes hands only by a takeover that named its generation
\* and the credential it saw.
LiveLeaseIsKept ==
    [][LiveAt(now) /\ control'.lease # None
         /\ control'.lease.installation # control.lease.installation
       => LET i == control'.rotation.intent
          IN /\ i.kind = "takeover"
             /\ i.leaseGeneration = control.lease.generation
             /\ i.tokenGeneration = control.tokenGeneration]_vars
=============================================================================
