----------------------- MODULE ManagementLeaseProofs -----------------------
(* Proofs about ManagementLease: for any installations, request ids, handlers
   and durations, and for generations of any width. *)
EXTENDS ManagementLease, TLAPS

USE LeaseAssumption

ControlFile == [tokenGeneration : Generation, lease : ControlLease \cup {None},
                leaseGeneration : 0..MaxGeneration, rotation : RotationRecord \cup {None}]

\* A lease without its expiry, as the history keeps it.
Holder(l) == [installation |-> l.installation, daemon |-> l.daemon, generation |-> l.generation]
Holders == [installation : Installations, daemon : 1..MaxInstance, generation : Generation]

LeaseCall == [op : {"claim", "renew", "release"}, installation : Installations]
CredentialCall == [op : {"takeover", "rotate"}, id : RequestIds, intent : Intent]
RestartCall == [installation : Installations, named : 0..MaxGeneration]

HandlerState == {Idle} \cup [phase : {"blocking", "detached"}, start : Nat,
                             call : LeaseCall \cup CredentialCall]
                       \cup [phase : {"drain", "fence", "commit"}, since : Nat, call : RestartCall]

\* The lease in the file, and every lease ever issued, is at or below the
\* generation counter: the next generation is new.
GenerationsBelow ==
    /\ \A a \in issued : a.generation <= control.leaseGeneration
    /\ control.lease # None => Holder(control.lease) \in issued

\* A request id that has rotated the credential named an older one than there is
\* now, so that its repetition is refused even when the record of it is gone.
RotatedIsPast ==
    \A id \in RequestIds :
        rotations[id] > 0 => /\ intents[id] # None
                             /\ intents[id].tokenGeneration < control.tokenGeneration

\* The control file and its history: what only transactions change.
ControlInv ==
    /\ control \in ControlFile
    /\ control.rotation # None => control.rotation.generation <= control.tokenGeneration
    /\ issued \subseteq Holders
    /\ rotations \in [RequestIds -> Nat]
    /\ GenerationsBelow
    /\ GenerationNamesHolder
    /\ RotatedIsPast
    /\ RotatesOnce

\* A transaction carries the intent its request id was first used for, and has
\* read the clock at the earliest when it was spawned.
CallsKnown ==
    \A h \in Handlers :
        handler[h].phase \in {"blocking", "detached"} =>
            /\ handler[h].start <= now
            /\ handler[h].call.op \in {"takeover", "rotate"} =>
                 /\ handler[h].call.op = handler[h].call.intent.kind
                 /\ handler[h].call.intent = intents[handler[h].call.id]

\* A restart between its second validation and its commit holds the file lock.
CommitHoldsLock == \A h \in Handlers : handler[h].phase = "commit" => file_lock = h

\* The daemon and its handlers.
DaemonInv ==
    /\ now \in 0..MaxTime
    /\ instance \in 1..MaxInstance
    /\ stopping \in BOOLEAN
    /\ lifecycle_control \in Handlers \cup {NoHandler}
    /\ file_lock \in Handlers \cup {NoHandler}
    /\ handler \in [Handlers -> HandlerState]
    /\ intents \in [RequestIds -> Intent \cup {None}]
    /\ CallsKnown
    /\ CommitHoldsLock

IInv == ControlInv /\ DaemonInv /\ CommitIsFenced

-----------------------------------------------------------------------------
LEMMA InitInv == Init => IInv
  <1> SUFFICES ASSUME Init PROVE IInv
    OBVIOUS
  <1> USE DEF Init
  <1>1. ControlInv
    BY DEF ControlInv, ControlFile, NewControlFile, Generation, GenerationsBelow,
           GenerationNamesHolder, RotatedIsPast, RotatesOnce
  <1>2. handler \in [Handlers -> HandlerState] /\ intents \in [RequestIds -> Intent \cup {None}]
    BY DEF HandlerState
  <1>3. CallsKnown /\ CommitHoldsLock /\ CommitIsFenced
    BY DEF CallsKnown, CommitHoldsLock, CommitIsFenced, Idle
  <1>4. now \in 0..MaxTime /\ instance \in 1..MaxInstance
    OBVIOUS
  <1>5. DaemonInv
    BY <1>2, <1>3, <1>4, Zenon DEF DaemonInv
  <1> QED BY <1>1, <1>3, <1>5 DEF IInv

\* Writing a lease that is the holder's own, or under a new generation, keeps
\* generations apart.
LEMMA WriteKeeps ==
    ASSUME ControlInv, NEW c \in ControlFile, Write(c),
           rotations' = rotations, intents' = intents,
           c.tokenGeneration = control.tokenGeneration, c.rotation = control.rotation,
           control.leaseGeneration <= c.leaseGeneration,
           c.lease # None =>
              /\ c.lease.generation <= c.leaseGeneration
              /\ \/ Holder(c.lease) \in issued
                 \/ c.lease.generation > control.leaseGeneration
    PROVE  ControlInv'
  <1>1. control' = c /\ issued' = IF c.lease = None THEN issued ELSE issued \cup {Holder(c.lease)}
    BY DEF Write, Holder
  <1>2. c.lease # None => Holder(c.lease) \in Holders
    BY DEF ControlFile, ControlLease, Holders, Holder
  <1> QED
    BY <1>1, <1>2 DEF ControlInv, ControlFile, GenerationsBelow, GenerationNamesHolder, RotatedIsPast,
           RotatesOnce, Holders, Holder, Generation

\* A rotation names the current credential and replaces it, possibly together
\* with the lease.
LEMMA RotationKeeps ==
    ASSUME ControlInv, NEW c \in ControlFile, Write(c), intents' = intents,
           intents \in [RequestIds -> Intent \cup {None}],
           NEW id \in RequestIds, NEW intent \in Intent, CountRotation(id),
           intents[id] = intent, intent # None,
           control.tokenGeneration = intent.tokenGeneration,
           c.tokenGeneration = control.tokenGeneration + 1,
           c.rotation # None => c.rotation.generation = c.tokenGeneration,
           control.leaseGeneration <= c.leaseGeneration,
           c.lease # None =>
              /\ c.lease.generation <= c.leaseGeneration
              /\ \/ Holder(c.lease) \in issued
                 \/ c.lease.generation > control.leaseGeneration
    PROVE  ControlInv'
  <1>1. control' = c /\ issued' = IF c.lease = None THEN issued ELSE issued \cup {Holder(c.lease)}
    BY DEF Write, Holder
  <1>2. c.lease # None => Holder(c.lease) \in Holders
    BY DEF ControlFile, ControlLease, Holders, Holder
  <1>3. issued' \subseteq Holders /\ GenerationsBelow' /\ GenerationNamesHolder'
    BY <1>1, <1>2 DEF ControlInv, ControlFile, GenerationsBelow, GenerationNamesHolder, Holders, Holder,
                      Generation
  <1>4. control.tokenGeneration \in Nat /\ c.tokenGeneration \in Nat
    BY DEF ControlInv, ControlFile, Generation
  <1>5. rotations[id] = 0
    BY <1>4 DEF ControlInv, RotatedIsPast
  <1>6. rotations' \in [RequestIds -> Nat] /\ RotatesOnce'
    BY <1>5 DEF CountRotation, ControlInv, RotatesOnce
  <1>7. RotatedIsPast'
    <2> SUFFICES ASSUME NEW j \in RequestIds, rotations'[j] > 0
                 PROVE  intents[j] # None /\ intents[j].tokenGeneration < c.tokenGeneration
      BY <1>1 DEF RotatedIsPast
    <2>1. CASE j = id
      BY <2>1, <1>4
    <2>2. CASE j # id
      <3>1. rotations[j] > 0
        BY <2>2 DEF CountRotation, ControlInv
      <3>2. intents[j] # None /\ intents[j].tokenGeneration < control.tokenGeneration
            /\ intents[j].tokenGeneration \in Nat
        BY <3>1 DEF ControlInv, RotatedIsPast, Intent, Generation
      <3> QED BY <3>2, <1>4
    <2> QED BY <2>1, <2>2
  <1>8. control' \in ControlFile
        /\ (control'.rotation # None => control'.rotation.generation <= control'.tokenGeneration)
    BY <1>1, <1>4
  <1> QED BY <1>3, <1>6, <1>7, <1>8 DEF ControlInv

LEMMA NewLeaseType ==
    ASSUME instance \in 1..MaxInstance, NEW i \in Installations, NEW g \in Generation, NEW t \in Nat
    PROVE  NewLease(i, g, t) \in ControlLease /\ NewLease(i, g, t).generation = g
  BY DEF NewLease, ControlLease

LEMMA ClaimKeeps ==
    ASSUME ControlInv, instance \in 1..MaxInstance, intents' = intents,
           NEW i \in Installations, NEW t \in Nat, Claim(i, t)
    PROVE  ControlInv'
  <1>1. control \in ControlFile
    BY DEF ControlInv
  <1>2. CASE /\ LiveAt(t) /\ control.lease.installation = i /\ control.lease.daemon = instance
             /\ Write([control EXCEPT !.lease = NewLease(i, control.lease.generation, t)])
             /\ UNCHANGED rotations
    <2> DEFINE c == [control EXCEPT !.lease = NewLease(i, control.lease.generation, t)]
    <2>1. control.lease \in ControlLease /\ Holder(control.lease) \in issued
      BY <1>1, <1>2 DEF LiveAt, HasLease, ControlFile, ControlInv, GenerationsBelow
    <2>2. control.lease.generation \in Generation /\ control.lease.generation <= control.leaseGeneration
      BY <2>1 DEF ControlLease, ControlInv, GenerationsBelow, Holder
    <2>3. c \in ControlFile /\ c.lease = NewLease(i, control.lease.generation, t)
          /\ c.tokenGeneration = control.tokenGeneration /\ c.rotation = control.rotation
          /\ c.leaseGeneration = control.leaseGeneration
      BY <1>1, <2>2, NewLeaseType DEF ControlFile
    <2>4. Holder(c.lease) = Holder(control.lease)
      BY <1>2, <2>3 DEF NewLease, Holder
    <2>5. c.lease.generation <= c.leaseGeneration /\ control.leaseGeneration <= c.leaseGeneration
      BY <1>1, <2>2, <2>3, NewLeaseType DEF ControlFile
    <2>6. Write(c) /\ rotations' = rotations
      BY <1>2
    <2> HIDE DEF c
    <2> QED BY <2>1, <2>3, <2>4, <2>5, <2>6, WriteKeeps
  <1>3. CASE /\ CanGrow(control.leaseGeneration)
             /\ Write([control EXCEPT !.lease = NewLease(i, control.leaseGeneration + 1, t),
                                      !.leaseGeneration = control.leaseGeneration + 1])
             /\ UNCHANGED rotations
    <2> DEFINE g == control.leaseGeneration + 1
               c == [control EXCEPT !.lease = NewLease(i, g, t), !.leaseGeneration = g]
    <2>1. g \in Generation /\ g \in 0..MaxGeneration /\ control.leaseGeneration < g
      BY <1>1, <1>3 DEF ControlFile, CanGrow, Generation
    <2>2. Write(c) /\ rotations' = rotations
      BY <1>3
    <2> HIDE DEF g
    <2>3. c \in ControlFile /\ c.lease = NewLease(i, g, t) /\ c.leaseGeneration = g
          /\ c.tokenGeneration = control.tokenGeneration /\ c.rotation = control.rotation
      BY <1>1, <2>1, NewLeaseType DEF ControlFile
    <2>4. /\ control.leaseGeneration <= c.leaseGeneration
          /\ c.lease.generation <= c.leaseGeneration
          /\ c.lease.generation > control.leaseGeneration
      BY <1>1, <2>1, <2>3, NewLeaseType DEF ControlFile, Generation
    <2> HIDE DEF c
    <2> QED BY <2>2, <2>3, <2>4, WriteKeeps
  <1>4. CASE Refuse
    BY <1>4 DEF Refuse, ControlInv, GenerationsBelow, GenerationNamesHolder, RotatedIsPast, RotatesOnce
  <1> QED BY <1>2, <1>3, <1>4, Zenon DEF Claim

LEMMA RenewKeeps ==
    ASSUME ControlInv, instance \in 1..MaxInstance, intents' = intents,
           NEW i \in Installations, NEW t \in Nat, Renew(i, t)
    PROVE  ControlInv'
  <1>1. control \in ControlFile
    BY DEF ControlInv
  <1>2. CASE LiveAt(t) /\ HeldBy(i)
    <2> DEFINE c == [control EXCEPT !.lease.expires = t + LeaseDuration]
    <2>1. control.lease \in ControlLease /\ Holder(control.lease) \in issued
      BY <1>1, <1>2 DEF LiveAt, HasLease, ControlFile, ControlInv, GenerationsBelow
    <2>2. control.lease.generation \in Generation /\ control.lease.generation <= control.leaseGeneration
      BY <2>1 DEF ControlLease, ControlInv, GenerationsBelow, Holder
    <2>3. c.lease = [control.lease EXCEPT !.expires = t + LeaseDuration]
          /\ c.lease \in ControlLease /\ Holder(c.lease) = Holder(control.lease)
      BY <1>1, <2>1 DEF ControlFile, ControlLease, Holder
    <2>4. c \in ControlFile
          /\ c.tokenGeneration = control.tokenGeneration /\ c.rotation = control.rotation
          /\ c.leaseGeneration = control.leaseGeneration
          /\ c.lease.generation = control.lease.generation
      BY <1>1, <2>1, <2>3 DEF ControlFile, ControlLease
    <2>5. control.leaseGeneration <= c.leaseGeneration
      BY <1>1, <2>4 DEF ControlFile
    <2>6. Write(c) /\ rotations' = rotations
      BY <1>2 DEF Renew
    <2> HIDE DEF c
    <2> QED BY <2>1, <2>2, <2>3, <2>4, <2>5, <2>6, WriteKeeps
  <1>3. CASE Refuse
    BY <1>3 DEF Refuse, ControlInv, GenerationsBelow, GenerationNamesHolder, RotatedIsPast, RotatesOnce
  <1> QED BY <1>2, <1>3 DEF Renew

LEMMA ReleaseKeeps ==
    ASSUME ControlInv, intents' = intents, NEW i \in Installations, Release(i)
    PROVE  ControlInv'
  <1>1. control \in ControlFile
    BY DEF ControlInv
  <1>2. CASE HeldBy(i)
    <2> DEFINE c == [control EXCEPT !.lease = None]
    <2>1. c \in ControlFile /\ c.lease = None
          /\ c.tokenGeneration = control.tokenGeneration /\ c.rotation = control.rotation
          /\ c.leaseGeneration = control.leaseGeneration
      BY <1>1 DEF ControlFile
    <2>2. control.leaseGeneration <= c.leaseGeneration
      BY <1>1, <2>1 DEF ControlFile
    <2>3. Write(c) /\ rotations' = rotations
      BY <1>2 DEF Release
    <2> HIDE DEF c
    <2> QED BY <2>1, <2>2, <2>3, WriteKeeps
  <1>3. CASE Refuse
    BY <1>3 DEF Refuse, ControlInv, GenerationsBelow, GenerationNamesHolder, RotatedIsPast, RotatesOnce
  <1> QED BY <1>2, <1>3 DEF Release

\* A value that is there is not None.
LEMMA SomeIntent == \A intent \in Intent : intent # None
  <1> SUFFICES ASSUME NEW intent \in Intent, intent = None PROVE FALSE
    OBVIOUS
  <1>1. "kind" \in DOMAIN intent
    BY DEF Intent
  <1>2. DOMAIN intent = {"none"}
    BY DEF None
  <1> QED BY <1>1, <1>2

\* What a rotation writes beside the lease.
LEMMA RotatedFile ==
    ASSUME NEW c \in ControlFile, NEW id \in RequestIds, NEW intent \in Intent,
           CanGrow(c.tokenGeneration)
    PROVE  LET r == Rotated(c, id, intent)
           IN /\ r \in ControlFile
              /\ r.tokenGeneration = c.tokenGeneration + 1
              /\ r.rotation.generation = r.tokenGeneration
              /\ r.rotation.intent = intent
              /\ r.lease = c.lease /\ r.leaseGeneration = c.leaseGeneration
  <1>1. c.tokenGeneration + 1 \in Generation
    BY DEF ControlFile, CanGrow, Generation
  <1>2. [id |-> id, intent |-> intent, generation |-> c.tokenGeneration + 1] \in RotationRecord
    BY <1>1 DEF RotationRecord
  <1> QED BY <1>1, <1>2 DEF Rotated, ControlFile

LEMMA RotateKeeps ==
    ASSUME ControlInv, intents \in [RequestIds -> Intent \cup {None}], intents' = intents,
           NEW id \in RequestIds, NEW intent \in Intent, intents[id] = intent,
           NEW t \in Nat, Rotate(id, intent, t)
    PROVE  ControlInv'
  <1>1. control \in ControlFile
    BY DEF ControlInv
  <1>2. CASE Refuse
    BY <1>2 DEF Refuse, ControlInv, GenerationsBelow, GenerationNamesHolder, RotatedIsPast, RotatesOnce
  <1>3. CASE ~Refuse
    <2> DEFINE c == Rotated(control, id, intent)
    <2>1. /\ control.tokenGeneration = intent.tokenGeneration
          /\ LiveAt(t) /\ CanGrow(control.tokenGeneration)
          /\ Write(c) /\ CountRotation(id)
      BY <1>3 DEF Rotate
    <2>2. Holder(control.lease) \in issued
      BY <2>1 DEF LiveAt, HasLease, ControlInv, GenerationsBelow
    <2>3. control.lease.generation <= control.leaseGeneration
      BY <2>2 DEF ControlInv, GenerationsBelow, Holder
    <2>4. /\ c \in ControlFile /\ c.tokenGeneration = control.tokenGeneration + 1
          /\ c.rotation.generation = c.tokenGeneration
          /\ c.lease = control.lease /\ c.leaseGeneration = control.leaseGeneration
      BY <1>1, <2>1, RotatedFile
    <2>5. control.leaseGeneration <= c.leaseGeneration
      BY <1>1, <2>4 DEF ControlFile
    <2> HIDE DEF c
    <2> QED BY <2>1, <2>2, <2>3, <2>4, <2>5, SomeIntent, RotationKeeps
  <1> QED BY <1>2, <1>3

LEMMA TakeoverKeeps ==
    ASSUME ControlInv, instance \in 1..MaxInstance,
           intents \in [RequestIds -> Intent \cup {None}], intents' = intents,
           NEW id \in RequestIds, NEW intent \in Intent, intents[id] = intent,
           NEW t \in Nat, Takeover(id, intent, t)
    PROVE  ControlInv'
  <1>1. control \in ControlFile
    BY DEF ControlInv
  <1>2. CASE Refuse
    BY <1>2 DEF Refuse, ControlInv, GenerationsBelow, GenerationNamesHolder, RotatedIsPast, RotatesOnce
  <1>3. CASE ~Refuse
    <2> DEFINE r == Rotated(control, id, intent)
               g == Newest + 1
               c == [r EXCEPT !.lease = NewLease(intent.installation, g, t), !.leaseGeneration = g]
    <2>1. /\ control.tokenGeneration = intent.tokenGeneration
          /\ LiveAt(t) /\ CanGrow(control.tokenGeneration) /\ CanGrow(Newest)
          /\ Write(c) /\ CountRotation(id)
      BY <1>3 DEF Takeover
    <2>2. control.lease \in ControlLease
      BY <1>1, <2>1 DEF LiveAt, HasLease, ControlFile
    <2>3. g \in Generation /\ g \in 0..MaxGeneration /\ control.leaseGeneration < g
      BY <1>1, <2>1, <2>2 DEF Newest, ControlFile, ControlLease, CanGrow, Generation
    <2>4. intent.installation \in Installations
      BY DEF Intent
    <2>5. /\ r \in ControlFile /\ r.tokenGeneration = control.tokenGeneration + 1
          /\ r.rotation.generation = r.tokenGeneration
      BY <1>1, <2>1, RotatedFile
    <2> HIDE DEF r, g
    <2>6. NewLease(intent.installation, g, t) \in ControlLease
          /\ NewLease(intent.installation, g, t).generation = g
      BY <2>3, <2>4, NewLeaseType
    <2>7. /\ c \in ControlFile /\ c.tokenGeneration = r.tokenGeneration /\ c.rotation = r.rotation
          /\ c.lease = NewLease(intent.installation, g, t) /\ c.leaseGeneration = g
      BY <2>3, <2>5, <2>6 DEF ControlFile
    <2>8. /\ control.leaseGeneration <= c.leaseGeneration
          /\ c.lease.generation <= c.leaseGeneration
          /\ c.lease.generation > control.leaseGeneration
      BY <1>1, <2>3, <2>6, <2>7 DEF ControlFile
    <2> HIDE DEF c
    <2> QED BY <2>1, <2>5, <2>7, <2>8, SomeIntent, RotationKeeps
  <1> QED BY <1>2, <1>3

-----------------------------------------------------------------------------
\* A transaction is a call of one of the five kinds.
LEMMA CallKinds ==
    ASSUME NEW call \in LeaseCall \cup CredentialCall, NEW t, Transaction(call, t)
    PROVE  \/ call.installation \in Installations /\ Claim(call.installation, t)
           \/ call.installation \in Installations /\ Renew(call.installation, t)
           \/ call.installation \in Installations /\ Release(call.installation)
           \/ /\ call.op = "rotate" /\ call.id \in RequestIds /\ call.intent \in Intent
              /\ Rotate(call.id, call.intent, t)
           \/ /\ call.op = "takeover" /\ call.id \in RequestIds /\ call.intent \in Intent
              /\ Takeover(call.id, call.intent, t)
  BY DEF Transaction, LeaseCall, CredentialCall

LEMMA RunTransactionKeeps ==
    ASSUME IInv, NEW h \in Handlers, RunTransaction(h)
    PROVE  ControlInv'
  <1>0. /\ ControlInv /\ instance \in 1..MaxInstance /\ intents' = intents
        /\ intents \in [RequestIds -> Intent \cup {None}] /\ now \in Nat
    BY DEF IInv, DaemonInv, RunTransaction
  <1>1. /\ handler[h].start \in Nat /\ handler[h].call \in LeaseCall \cup CredentialCall
        /\ handler[h].phase \in {"blocking", "detached"}
    BY DEF IInv, DaemonInv, HandlerState, RunTransaction, Idle
  <1>2. CASE Refuse
    BY <1>0, <1>2 DEF Refuse, ControlInv, GenerationsBelow, GenerationNamesHolder, RotatedIsPast, RotatesOnce
  <1>3. ASSUME NEW t \in handler[h].start..now, Transaction(handler[h].call, t)
        PROVE  ControlInv'
    <2>1. t \in Nat
      BY <1>0, <1>1
    <2>2. handler[h].call.op \in {"takeover", "rotate"} =>
             handler[h].call.intent = intents[handler[h].call.id]
      BY <1>1 DEF IInv, DaemonInv, CallsKnown
    <2>3. ASSUME handler[h].call.installation \in Installations,
                 \/ Claim(handler[h].call.installation, t)
                 \/ Renew(handler[h].call.installation, t)
                 \/ Release(handler[h].call.installation)
          PROVE  ControlInv'
      BY <1>0, <2>1, <2>3, ClaimKeeps, RenewKeeps, ReleaseKeeps
    <2>4. ASSUME handler[h].call.op \in {"takeover", "rotate"},
                 handler[h].call.id \in RequestIds, handler[h].call.intent \in Intent,
                 \/ Rotate(handler[h].call.id, handler[h].call.intent, t)
                 \/ Takeover(handler[h].call.id, handler[h].call.intent, t)
          PROVE  ControlInv'
      BY <1>0, <2>1, <2>2, <2>4, RotateKeeps, TakeoverKeeps
    <2> QED BY <1>1, <1>3, <2>3, <2>4, CallKinds
  <1> QED BY <1>2, <1>3 DEF RunTransaction

\* A step that leaves the control file alone leaves its invariant alone.
LEMMA ControlStays ==
    ASSUME ControlInv, UNCHANGED <<control, issued, rotations, intents>>
    PROVE  ControlInv'
  BY DEF ControlInv, GenerationsBelow, GenerationNamesHolder, RotatedIsPast, RotatesOnce

\* A handler that starts: what the step of one handler does to the rest of the
\* invariant, when no restart is at its commit or this is the one.
LEMMA HandlerStep ==
    ASSUME IInv, NEW h \in Handlers, NEW rec \in HandlerState, SetHandler(h, rec),
           UNCHANGED <<now, instance>>, stopping' \in BOOLEAN,
           lifecycle_control' \in Handlers \cup {NoHandler},
           file_lock' \in Handlers \cup {NoHandler},
           intents' \in [RequestIds -> Intent \cup {None}],
           \A id \in RequestIds : intents[id] # None => intents'[id] = intents[id],
           rec.phase \in {"blocking", "detached"} =>
               /\ rec.start <= now
               /\ rec.call.op \in {"takeover", "rotate"} =>
                    /\ rec.call.op = rec.call.intent.kind
                    /\ rec.call.intent = intents'[rec.call.id],
           rec.phase = "commit" => file_lock' = h,
           file_lock' # file_lock => file_lock \in {h, NoHandler}
    PROVE  DaemonInv'
  <1>1. handler' = [handler EXCEPT ![h] = rec] /\ handler \in [Handlers -> HandlerState]
    BY DEF SetHandler, IInv, DaemonInv
  <1>2. CallsKnown'
    <2> SUFFICES ASSUME NEW k \in Handlers, handler'[k].phase \in {"blocking", "detached"}
                 PROVE  /\ handler'[k].start <= now
                        /\ handler'[k].call.op \in {"takeover", "rotate"} =>
                             /\ handler'[k].call.op = handler'[k].call.intent.kind
                             /\ handler'[k].call.intent = intents'[handler'[k].call.id]
      BY DEF CallsKnown
    <2>1. CASE k = h
      BY <1>1, <2>1
    <2>2. CASE k # h
      <3>1. handler'[k] = handler[k]
        BY <1>1, <2>2
      <3>2. /\ handler[k].start <= now
            /\ handler[k].call.op \in {"takeover", "rotate"} =>
                 /\ handler[k].call.op = handler[k].call.intent.kind
                 /\ handler[k].call.intent = intents[handler[k].call.id]
        BY <3>1 DEF IInv, DaemonInv, CallsKnown
      <3>3. handler[k].call \in LeaseCall \cup CredentialCall
        BY <1>1, <3>1 DEF HandlerState, Idle
      <3>4. ASSUME handler[k].call.op \in {"takeover", "rotate"}
            PROVE  intents'[handler[k].call.id] = intents[handler[k].call.id]
        <4>1. handler[k].call.id \in RequestIds /\ handler[k].call.intent \in Intent
          BY <3>3, <3>4 DEF LeaseCall, CredentialCall
        <4> QED BY <3>2, <3>4, <4>1, SomeIntent
      <3> QED BY <3>1, <3>2, <3>4
    <2> QED BY <2>1, <2>2
  <1>3. CommitHoldsLock'
    BY <1>1 DEF CommitHoldsLock, IInv, DaemonInv
  <1>4. handler' \in [Handlers -> HandlerState]
    BY <1>1
  <1> QED BY <1>2, <1>3, <1>4, Zenon DEF IInv, DaemonInv

\* A restart at its commit keeps what it has validated as long as neither the
\* file nor the instance changes.
LEMMA FenceStays ==
    ASSUME IInv, NEW h \in Handlers, NEW rec \in HandlerState, SetHandler(h, rec),
           UNCHANGED <<control, instance>>,
           rec.phase = "commit" =>
               /\ HeldBy(rec.call.installation)
               /\ rec.call.named > 0 => control.lease.generation = rec.call.named
    PROVE  CommitIsFenced'
  <1>1. handler' = [handler EXCEPT ![h] = rec] /\ handler \in [Handlers -> HandlerState]
    BY DEF SetHandler, IInv, DaemonInv
  <1>2. \A i : HeldBy(i)' <=> HeldBy(i)
    BY DEF HeldBy, HasLease
  <1>3. \A k \in Handlers : handler'[k] = IF k = h THEN rec ELSE handler[k]
    BY <1>1
  <1> SUFFICES ASSUME NEW k \in Handlers, handler'[k].phase = "commit"
               PROVE  /\ HeldBy(handler'[k].call.installation)
                      /\ handler'[k].call.named > 0 => control.lease.generation = handler'[k].call.named
    BY <1>2 DEF CommitIsFenced
  <1>4. CASE k = h
    BY <1>3, <1>4
  <1>5. CASE k # h
    BY <1>3, <1>5 DEF IInv, CommitIsFenced
  <1> QED BY <1>4, <1>5

LEMMA IdleState == Idle \in HandlerState /\ Idle.phase = "idle"
  BY DEF HandlerState, Idle

LEMMA StartStep ==
    ASSUME IInv, NEW h \in Handlers, NEW call \in LeaseCall \cup CredentialCall, Start(h, call),
           intents' \in [RequestIds -> Intent \cup {None}],
           \A id \in RequestIds : intents[id] # None => intents'[id] = intents[id],
           call.op \in {"takeover", "rotate"} =>
               call.op = call.intent.kind /\ call.intent = intents'[call.id]
    PROVE  IInv'
  <1> DEFINE rec == [phase |-> "blocking", start |-> now, call |-> call]
  <1>1. now \in Nat /\ stopping \in BOOLEAN /\ file_lock \in Handlers \cup {NoHandler}
    BY DEF IInv, DaemonInv
  <1>2. rec \in HandlerState /\ rec.phase = "blocking" /\ rec.start = now /\ rec.call = call
    BY <1>1 DEF HandlerState
  <1>3. /\ SetHandler(h, rec) /\ lifecycle_control' = h
        /\ UNCHANGED <<now, instance, stopping, control, file_lock, issued, rotations>>
    BY DEF Start
  <1>4. now <= now
    BY <1>1
  <1> HIDE DEF rec
  <1>5. DaemonInv'
    BY <1>1, <1>2, <1>3, <1>4, HandlerStep
  <1>6. CommitIsFenced'
    BY <1>2, <1>3, FenceStays
  <1>7. ControlInv'
    BY <1>3 DEF IInv, ControlInv, GenerationsBelow, GenerationNamesHolder, RotatedIsPast, RotatesOnce
  <1> QED BY <1>5, <1>6, <1>7 DEF IInv

\* What a client observes of a lease that is there, and what may be repeated.
LEMMA ObservedIntent ==
    ASSUME ControlInv, HasLease, NEW i \in Installations, Observed(i).kind \in Operations
    PROVE  Observed(i) \in Intent
  <1>1. control.lease \in ControlLease /\ control.tokenGeneration \in Generation
    BY DEF HasLease, ControlInv, ControlFile
  <1> QED BY <1>1 DEF Observed, Intent, ControlLease

LEMMA CredentialStep ==
    ASSUME IInv, NEW h \in Handlers, CredentialOperation(h)
    PROVE  IInv'
  <1>1. PICK id \in RequestIds :
           \E intent \in IF intents[id] # None THEN {intents[id]}
                         ELSE {Observed(i) : i \in IF HasLease THEN Installations ELSE {}} :
            /\ intent.kind \in Operations
            /\ intents' = [intents EXCEPT ![id] = intent]
            /\ Start(h, [op |-> intent.kind, id |-> id, intent |-> intent])
    BY DEF CredentialOperation
  <1>2. PICK intent : /\ \/ intents[id] # None /\ intent = intents[id]
                         \/ /\ intents[id] = None /\ HasLease
                            /\ \E i \in Installations : intent = Observed(i)
                      /\ intent.kind \in Operations
                      /\ intents' = [intents EXCEPT ![id] = intent]
                      /\ Start(h, [op |-> intent.kind, id |-> id, intent |-> intent])
    BY <1>1
  <1>3. intents \in [RequestIds -> Intent \cup {None}] /\ ControlInv
    BY DEF IInv, DaemonInv
  <1>4. intent \in Intent
    BY <1>2, <1>3, ObservedIntent
  <1> DEFINE call == [op |-> intent.kind, id |-> id, intent |-> intent]
  <1>5. call \in CredentialCall /\ call.op = intent.kind /\ call.id = id /\ call.intent = intent
    BY <1>4 DEF CredentialCall, Intent
  <1>6. intents' \in [RequestIds -> Intent \cup {None}] /\ intents'[id] = intent
        /\ \A j \in RequestIds : intents[j] # None => intents'[j] = intents[j]
    BY <1>2, <1>3, <1>4
  <1>7. Start(h, call)
    BY <1>2
  <1> HIDE DEF call
  <1> QED BY <1>5, <1>6, <1>7, StartStep

LEMMA LeaseOperationStep ==
    ASSUME IInv, NEW h \in Handlers, LeaseOperation(h)
    PROVE  IInv'
  <1>1. PICK i \in Installations, op \in {"claim", "renew", "release"} :
           Start(h, [op |-> op, installation |-> i])
    BY DEF LeaseOperation
  <1>2. intents' = intents /\ intents \in [RequestIds -> Intent \cup {None}]
    BY DEF LeaseOperation, IInv, DaemonInv
  <1> DEFINE call == [op |-> op, installation |-> i]
  <1>3. call \in LeaseCall /\ call.op \notin {"takeover", "rotate"}
    BY DEF LeaseCall
  <1>4. Start(h, call)
    BY <1>1
  <1> HIDE DEF call
  <1> QED BY <1>2, <1>3, <1>4, StartStep

\* A step of a handler that leaves the control file and the instance alone.
LEMMA QuietStep ==
    ASSUME IInv, NEW h \in Handlers, NEW rec \in HandlerState, SetHandler(h, rec),
           UNCHANGED <<now, instance, control, issued, rotations, intents>>,
           stopping' \in BOOLEAN,
           lifecycle_control' \in Handlers \cup {NoHandler},
           file_lock' \in Handlers \cup {NoHandler},
           rec.phase \in {"blocking", "detached"} =>
               /\ handler[h].phase \in {"blocking", "detached"}
               /\ rec.start = handler[h].start /\ rec.call = handler[h].call,
           rec.phase = "commit" =>
               /\ file_lock' = h
               /\ HeldBy(rec.call.installation)
               /\ rec.call.named > 0 => control.lease.generation = rec.call.named,
           file_lock' # file_lock => file_lock \in {h, NoHandler}
    PROVE  IInv'
  <1>1. ControlInv'
    BY ControlStays DEF IInv
  <1>2. CommitIsFenced'
    BY FenceStays
  <1>3. intents \in [RequestIds -> Intent \cup {None}]
    BY DEF IInv, DaemonInv
  <1>4. rec.phase \in {"blocking", "detached"} =>
           /\ rec.start <= now
           /\ rec.call.op \in {"takeover", "rotate"} =>
                /\ rec.call.op = rec.call.intent.kind
                /\ rec.call.intent = intents'[rec.call.id]
    BY DEF IInv, DaemonInv, CallsKnown
  <1>5. DaemonInv'
    BY <1>3, <1>4, HandlerStep
  <1> QED BY <1>1, <1>2, <1>5 DEF IInv

LEMMA StepInv == IInv /\ [Next]_vars => IInv'
  <1> SUFFICES ASSUME IInv, [Next]_vars PROVE IInv'
    OBVIOUS
  <1> USE IdleState
  <1>0. /\ stopping \in BOOLEAN /\ lifecycle_control \in Handlers \cup {NoHandler}
        /\ file_lock \in Handlers \cup {NoHandler} /\ handler \in [Handlers -> HandlerState]
        /\ now \in Nat
    BY DEF IInv, DaemonInv
  <1>1. ASSUME NEW h \in Handlers, RunTransaction(h) PROVE IInv'
    <2>1. ControlInv'
      BY <1>1, RunTransactionKeeps
    <2>2. /\ SetHandler(h, Idle) /\ lifecycle_control' \in Handlers \cup {NoHandler}
          /\ file_lock = NoHandler /\ UNCHANGED <<now, instance, stopping, file_lock, intents>>
      BY <1>0, <1>1 DEF RunTransaction
    <2>3. intents \in [RequestIds -> Intent \cup {None}]
      BY DEF IInv, DaemonInv
    <2>4. DaemonInv'
      BY <1>0, <2>2, <2>3, HandlerStep
    <2>5. \A k \in Handlers : handler'[k].phase # "commit"
      BY <1>0, <2>2 DEF SetHandler, IInv, DaemonInv, CommitHoldsLock
    <2> QED BY <2>1, <2>4, <2>5 DEF IInv, CommitIsFenced
  <1>2. ASSUME NEW h \in Handlers, Disconnect(h) PROVE IInv'
    <2> DEFINE rec == IF handler[h].phase = "blocking" THEN [handler[h] EXCEPT !.phase = "detached"]
                      ELSE Idle
    <2>1. /\ SetHandler(h, rec) /\ lifecycle_control' = NoHandler
          /\ file_lock' = (IF file_lock = h THEN NoHandler ELSE file_lock)
          /\ UNCHANGED <<now, instance, stopping, control, issued, rotations, intents>>
      BY <1>2 DEF Disconnect
    <2>2. CASE handler[h].phase = "blocking"
      <3>1. rec = [handler[h] EXCEPT !.phase = "detached"]
        BY <2>2
      <3>2. rec \in HandlerState /\ rec.phase = "detached"
            /\ rec.start = handler[h].start /\ rec.call = handler[h].call
        BY <1>0, <2>2, <3>1 DEF HandlerState, Idle
      <3> HIDE DEF rec
      <3> QED BY <1>0, <2>1, <2>2, <3>2, QuietStep
    <2>3. CASE handler[h].phase # "blocking"
      BY <1>0, <2>1, <2>3, QuietStep
    <2> QED BY <2>2, <2>3
  <1>3. ASSUME NEW h \in Handlers, BeginRestart(h) PROVE IInv'
    <2>1. PICK i \in Installations, g \in 0..MaxGeneration :
            SetHandler(h, [phase |-> "drain", since |-> now,
                           call |-> [installation |-> i, named |-> g]])
      BY <1>3 DEF BeginRestart
    <2> DEFINE rec == [phase |-> "drain", since |-> now, call |-> [installation |-> i, named |-> g]]
    <2>2. rec \in HandlerState /\ rec.phase = "drain"
      BY <1>0 DEF HandlerState, RestartCall
    <2>3. SetHandler(h, rec)
      BY <2>1
    <2> HIDE DEF rec
    <2> QED BY <1>0, <1>3, <2>2, <2>3, QuietStep DEF BeginRestart
  <1>4. ASSUME NEW h \in Handlers, EndDrain(h) PROVE IInv'
    <2> DEFINE rec == [handler[h] EXCEPT !.phase = "fence"]
    <2>1. rec \in HandlerState /\ rec.phase = "fence"
      BY <1>0, <1>4 DEF EndDrain, HandlerState, Idle
    <2>2. SetHandler(h, rec) \/ SetHandler(h, Idle)
      BY <1>4 DEF EndDrain
    <2>3. /\ lifecycle_control' \in Handlers \cup {NoHandler}
          /\ UNCHANGED <<now, instance, stopping, control, file_lock, issued, rotations, intents>>
      BY <1>0, <1>4 DEF EndDrain
    <2> HIDE DEF rec
    <2> QED BY <1>0, <2>1, <2>2, <2>3, QuietStep
  <1>5. ASSUME NEW h \in Handlers, Fence(h) PROVE IInv'
    <2> DEFINE rec == [handler[h] EXCEPT !.phase = "commit"]
    <2>1. rec \in HandlerState /\ rec.phase = "commit" /\ rec.call = handler[h].call
      BY <1>0, <1>5 DEF Fence, HandlerState, Idle
    <2>2. /\ file_lock = NoHandler
          /\ UNCHANGED <<now, instance, stopping, control, issued, rotations, intents>>
      BY <1>5 DEF Fence
    <2>3. CASE ValidLease(handler[h].call)
      <3>1. SetHandler(h, rec) /\ file_lock' = h /\ UNCHANGED lifecycle_control
        BY <1>5, <2>3 DEF Fence
      <3>2. HeldBy(rec.call.installation)
            /\ (rec.call.named > 0 => control.lease.generation = rec.call.named)
        BY <2>1, <2>3 DEF ValidLease
      <3> HIDE DEF rec
      <3> QED BY <1>0, <2>1, <2>2, <3>1, <3>2, QuietStep
    <2>4. CASE ~ValidLease(handler[h].call)
      BY <1>0, <1>5, <2>2, <2>4, QuietStep DEF Fence
    <2> QED BY <2>3, <2>4
  <1>6. ASSUME NEW h \in Handlers, Commit(h) PROVE IInv'
    <2>1. file_lock = h
      BY <1>6 DEF Commit, IInv, DaemonInv, CommitHoldsLock
    <2> QED BY <1>0, <1>6, <2>1, QuietStep DEF Commit
  <1>7. CASE NewInstance
    <2>1. ControlInv'
      BY <1>7, ControlStays DEF NewInstance, IInv
    <2>2. \A h \in Handlers : handler'[h] = Idle
      BY <1>7 DEF NewInstance
    <2>3. CallsKnown' /\ CommitHoldsLock' /\ CommitIsFenced'
      BY <2>2 DEF CallsKnown, CommitHoldsLock, CommitIsFenced
    <2>4. instance' \in 1..MaxInstance
      BY <1>7 DEF NewInstance, IInv, DaemonInv
    <2>5. handler' \in [Handlers -> HandlerState]
      BY <1>7 DEF NewInstance
    <2>6. DaemonInv'
      BY <1>7, <2>3, <2>4, <2>5, Zenon DEF NewInstance, IInv, DaemonInv
    <2> QED BY <2>1, <2>3, <2>6 DEF IInv
  <1>8. CASE Tick
    <2>1. ControlInv'
      BY <1>8, ControlStays DEF Tick, IInv
    <2>2. now' \in 0..MaxTime /\ now' = now + 1
      BY <1>8 DEF Tick, IInv, DaemonInv
    <2>3. CallsKnown'
      <3> SUFFICES ASSUME NEW h \in Handlers, handler[h].phase \in {"blocking", "detached"}
                   PROVE  /\ handler[h].start <= now'
                          /\ handler[h].call.op \in {"takeover", "rotate"} =>
                               /\ handler[h].call.op = handler[h].call.intent.kind
                               /\ handler[h].call.intent = intents[handler[h].call.id]
        BY <1>8 DEF Tick, CallsKnown
      <3>1. handler[h].start \in Nat
        BY <1>0 DEF HandlerState, Idle
      <3>2. /\ handler[h].start <= now
            /\ handler[h].call.op \in {"takeover", "rotate"} =>
                 /\ handler[h].call.op = handler[h].call.intent.kind
                 /\ handler[h].call.intent = intents[handler[h].call.id]
        BY DEF IInv, DaemonInv, CallsKnown
      <3>3. handler[h].start <= now'
        BY <1>0, <2>2, <3>1, <3>2
      <3> QED BY <3>2, <3>3
    <2>4. CommitHoldsLock' /\ CommitIsFenced'
      BY <1>8 DEF Tick, IInv, DaemonInv, CommitHoldsLock, CommitIsFenced, HeldBy, HasLease
    <2>5. DaemonInv'
      BY <1>8, <2>2, <2>3, <2>4, Zenon DEF Tick, IInv, DaemonInv
    <2> QED BY <2>1, <2>4, <2>5 DEF IInv
  <1>9. CASE UNCHANGED vars
    <2>1. ControlInv'
      BY <1>9, ControlStays DEF vars, IInv
    <2>2. DaemonInv' /\ CommitIsFenced'
      BY <1>9 DEF vars, IInv, DaemonInv, CallsKnown, CommitHoldsLock, CommitIsFenced, HeldBy, HasLease
    <2> QED BY <2>1, <2>2 DEF IInv
  <1> QED BY <1>1, <1>2, <1>3, <1>4, <1>5, <1>6, <1>7, <1>8, <1>9, LeaseOperationStep, CredentialStep
          DEF Next

-----------------------------------------------------------------------------
\* The inductive invariant holds of every behaviour.
THEOREM InvCorrect == Spec => []IInv
  BY InitInv, StepInv, PTL DEF Spec

\* The control file stays one that read_control_file_unlocked accepts, and a lease
\* generation names one installation of one daemon instance for ever, across
\* expiry, release, takeover, restart and transactions that outlive their handler.
THEOREM LeaseCorrect == Spec => []LeaseInv
  <1>1. IInv => LeaseInv
    <2> SUFFICES ASSUME IInv PROVE LeaseInv
      OBVIOUS
    <2>1. /\ control.tokenGeneration \in Generation
          /\ control.lease \in ControlLease \cup {None}
          /\ control.leaseGeneration \in 0..MaxGeneration
          /\ control.rotation \in RotationRecord \cup {None}
          /\ (control.rotation # None => control.rotation.generation <= control.tokenGeneration)
      BY DEF IInv, ControlInv, ControlFile
    <2>2. \A h \in Handlers : handler[h].phase \in Phase
      BY DEF IInv, DaemonInv, HandlerState, Idle, Phase
    <2>3. GenerationNamesHolder
      BY DEF IInv, ControlInv
    <2>4. TypeOK
      BY <2>1, <2>2, Zenon DEF IInv, DaemonInv, TypeOK
    <2> QED BY <2>3, <2>4 DEF LeaseInv
  <1> QED BY <1>1, InvCorrect, PTL

\* acquire_validated_lifecycle_lease_lock is a fence: from the second validation
\* of a restart to its commit the lease stays the requester's.
THEOREM CommitFenced == Spec => []CommitIsFenced
  BY InvCorrect, PTL DEF IInv

\* credential_rotation_replay and the observed generations make takeovers and
\* rotations idempotent: a request id changes the credential at most once, also
\* when later rotations have replaced the record of it.
THEOREM RotationOnce == Spec => []RotatesOnce
  BY InvCorrect, PTL DEF IInv, ControlInv

\* A live lease is taken from its holder only by takeover_lifecycle_lease, and
\* only when the request named the lease generation and the credential that are
\* still current.
THEOREM LeaseKept == Spec => LiveLeaseIsKept
  <1> DEFINE Taken == LiveAt(now) /\ control'.lease # None
                        /\ control'.lease.installation # control.lease.installation
             Fenced == LET i == control'.rotation.intent
                       IN /\ i.kind = "takeover"
                          /\ i.leaseGeneration = control.lease.generation
                          /\ i.tokenGeneration = control.tokenGeneration
  <1>1. IInv /\ [Next]_vars => [Taken => Fenced]_vars
    <2> SUFFICES ASSUME IInv, [Next]_vars, Taken PROVE Fenced
      OBVIOUS
    <2>0. control \in ControlFile /\ now \in Nat /\ control.lease \in ControlLease
      BY DEF IInv, ControlInv, DaemonInv, ControlFile, LiveAt, HasLease
    <2>1. control' # control
      OBVIOUS
    <2>2. PICK h \in Handlers : RunTransaction(h)
      BY <2>1 DEF Next, LeaseOperation, CredentialOperation, Start, Disconnect, BeginRestart,
                  EndDrain, Fence, Commit, NewInstance, Tick, vars
    <2>3. /\ handler[h].start \in Nat /\ handler[h].call \in LeaseCall \cup CredentialCall
          /\ handler[h].phase \in {"blocking", "detached"}
      BY <2>2 DEF IInv, DaemonInv, HandlerState, RunTransaction, Idle
    <2>4. PICK t \in handler[h].start..now : Transaction(handler[h].call, t)
      BY <2>1, <2>2 DEF RunTransaction, Refuse
    <2>5. LiveAt(t)
      BY <2>0, <2>3, <2>4 DEF LiveAt, ControlLease
    <2>6. ASSUME NEW i \in Installations, Claim(i, t) PROVE FALSE
      <3>1. control.lease.installation = i
        BY <2>1, <2>5, <2>6, Zenon DEF Claim, Refuse
      <3>2. PICK g : \/ control' = [control EXCEPT !.lease = NewLease(i, g, t)]
                     \/ control' = [control EXCEPT !.lease = NewLease(i, g, t), !.leaseGeneration = g]
        BY <2>1, <2>6, Zenon DEF Claim, Write, Refuse
      <3>3. control'.lease = NewLease(i, g, t)
        BY <2>0, <3>2 DEF ControlFile
      <3>4. control'.lease.installation = i
        BY <3>3 DEF NewLease
      <3> QED BY <3>1, <3>4
    <2>7. ASSUME NEW i \in Installations, Renew(i, t) PROVE FALSE
      <3>1. control' = [control EXCEPT !.lease.expires = t + LeaseDuration]
        BY <2>1, <2>7 DEF Renew, Write, Refuse
      <3>2. control'.lease.installation = control.lease.installation
        BY <2>0, <3>1 DEF ControlFile, ControlLease
      <3> QED BY <3>2
    <2>8. ASSUME NEW i \in Installations, Release(i) PROVE FALSE
      BY <2>0, <2>1, <2>8 DEF Release, Write, Refuse, ControlFile
    <2>9. ASSUME NEW id \in RequestIds, NEW intent \in Intent, Rotate(id, intent, t) PROVE FALSE
      <3>1. control' = Rotated(control, id, intent) /\ CanGrow(control.tokenGeneration)
        BY <2>1, <2>9 DEF Rotate, Write, Refuse
      <3> QED BY <2>0, <3>1, RotatedFile
    <2>10. ASSUME handler[h].call.op = "takeover", handler[h].call.id \in RequestIds,
                  handler[h].call.intent \in Intent,
                  Takeover(handler[h].call.id, handler[h].call.intent, t)
           PROVE  Fenced
      <3> DEFINE id == handler[h].call.id
                 intent == handler[h].call.intent
                 r == Rotated(control, id, intent)
                 l == NewLease(intent.installation, Newest + 1, t)
      <3>1. /\ control' = [r EXCEPT !.lease = l, !.leaseGeneration = Newest + 1]
            /\ CanGrow(control.tokenGeneration)
            /\ control.tokenGeneration = intent.tokenGeneration
            /\ control.lease.generation = intent.leaseGeneration
        BY <2>1, <2>10 DEF Takeover, Write, Refuse
      <3>2. r \in ControlFile /\ r.rotation.intent = intent
        BY <2>0, <2>10, <3>1, RotatedFile
      <3> HIDE DEF r, l
      <3>3. control'.rotation = r.rotation
        BY <3>1, <3>2 DEF ControlFile
      <3>4. intent.kind = "takeover"
        BY <2>3, <2>10 DEF IInv, DaemonInv, CallsKnown
      <3> QED BY <3>1, <3>2, <3>3, <3>4
    <2> HIDE DEF Fenced
    <2> QED BY <2>3, <2>4, <2>6, <2>7, <2>8, <2>9, <2>10, CallKinds
  <1> QED BY <1>1, InvCorrect, PTL DEF Spec, LiveLeaseIsKept
=============================================================================
