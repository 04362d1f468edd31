------------------------ MODULE RemoteSessionProofs ------------------------
(* Proofs about the two components of a remote-control connection, which share no
   state: RemoteSession, for any clients, callers and recovery tasks, and any
   number of connections and of clients forgotten by the app-server; and, at the
   end, ServerEnvelopes, for every set of messages and every capacity. *)
EXTENDS RemoteSession, ServerEnvelopes, FiniteSetTheorems, SequenceTheorems, TLAPS

USE SessionAssumption

Phases == CallerPhase \cup RecoveryPhase \cup OpenerPhase
Reply == {"none", "ok", "closed", "reinitialized"}
TaskType == [phase : Phases, client : Clients, epoch : 0..MaxEpoch, drawn : Nat, reply : Reply,
             retried : BOOLEAN, left : SUBSET Clients]
ClientType == [initialized : BOOLEAN, recovering : BOOLEAN, pending : SUBSET RequestId]
EnvelopeType == {m \in [type : {"initialize", "request"}, client : Clients, id : RequestId] :
                   m.type = m.id.method}
PongType == [type : {"pong"}, client : Clients]

-----------------------------------------------------------------------------
(* The inductive invariant, by what it is about *)

MiscInv == /\ epoch \in 0..MaxEpoch /\ opened \in 0..MaxEpoch
           /\ closing \in BOOLEAN /\ admitting \in BOOLEAN
           /\ known \in [Clients -> BOOLEAN] /\ forgets \in 0..MaxForgets

\* Nothing of a connection outlives it.
QueueInv == /\ toServer \in Seq(EnvelopeType) /\ work \in Seq(EnvelopeType \cup PongType)
            /\ ~Open => work = <<>>

ClientInv == client \in [Clients -> ClientType] /\ \A c \in Clients : IsFiniteSet(client[c].pending)

\* Only a request is answered.
WorkerInv == worker \in WorkerState /\ (worker.step = "answer" => worker.id.method = "request")

InKind(a, p) == /\ a \in Callers => p \in CallerPhase
                /\ a \in RecoveryTasks => p \in RecoveryPhase
                /\ a = Opener => p \in OpenerPhase

\* A caller has sent its request, or is about to.
HasRequest(r) == r.phase \in {"send", "await"}

\* A reply is there only for a request.
Fits(a, r) == InKind(a, r.phase) /\ (a \in Callers /\ r.reply # "none" => HasRequest(r))

TaskInv == proc \in [Initializers -> TaskType] /\ \A a \in Initializers : Fits(a, proc[a])

\* A request without a reply is one of the open connection.
RepliedWithConnection ==
    \A a \in Callers : HasRequest(proc[a]) /\ proc[a].reply = "none" => OnConnection(a)

Finished == {"done", "failed", "aborted"}

\* The worker does not hold an id that is still to be drawn.
AnswerIsDrawn ==
    worker.step = "answer" =>
        \A a \in Callers : worker.id.owner = a /\ proc[a].phase \notin Finished =>
                              worker.id.n <= proc[a].drawn

\* PendingIsAwaited, caller by caller
Held(a) == worker.step = "answer" /\ worker.id = IdOf(a, "request")
Waits(a) == HasRequest(proc[a]) /\ proc[a].reply = "none" /\ ~Held(a)
RequestsOf(a, ids) == {id \in ids : id.owner = a /\ id.method = "request"}
Requests(c, a) == RequestsOf(a, client[c].pending)
Awaited(a) == \A c \in Clients :
                 Requests(c, a) = IF Waits(a) /\ proc[a].client = c
                                  THEN {IdOf(a, "request")} ELSE {}
PendingInv == \A a \in Callers : proc[a].phase # "aborted" => Awaited(a)

IInv == /\ MiscInv /\ QueueInv /\ ClientInv /\ WorkerInv /\ TaskInv
        /\ RepliedWithConnection /\ AnswerIsDrawn /\ PendingInv

-----------------------------------------------------------------------------
LEMMA Kinds ==
    /\ Callers \subseteq Initializers /\ RecoveryTasks \subseteq Initializers /\ Opener \in Initializers
    /\ \A a \in Initializers : a \in Callers \/ a \in RecoveryTasks \/ a = Opener
    /\ \A a \in Callers : a \notin RecoveryTasks /\ a # Opener
    /\ \A t \in RecoveryTasks : t \notin Callers /\ t # Opener
    /\ Opener \notin Callers /\ Opener \notin RecoveryTasks
BY Zenon DEF Initializers

LEMMA InvCorrectParts == IInv => SessionInv
<1> SUFFICES ASSUME IInv PROVE SessionInv
  OBVIOUS
<1>1. TypeOK
  <2>1. \A c \in Clients : /\ client[c].initialized \in BOOLEAN
                           /\ client[c].recovering \in BOOLEAN
                           /\ client[c].pending \subseteq RequestId
    BY Zenon DEF IInv, ClientInv, ClientType
  <2>2. /\ \A a \in Callers : proc[a].phase \in CallerPhase
        /\ \A t \in RecoveryTasks : proc[t].phase \in RecoveryPhase
        /\ proc[Opener].phase \in OpenerPhase
    BY Kinds, Zenon DEF IInv, TaskInv, Fits, InKind
  <2> QED
    BY <2>1, <2>2, Zenon DEF IInv, MiscInv, WorkerInv, TypeOK
<1>2. PendingIsAwaited
  <2>1. ASSUME NEW a \in {b \in Callers : proc[b].phase # "aborted"}, NEW c \in Clients
        PROVE  {id \in client[c].pending : id.owner = a /\ id.method = "request"}
                  = IF /\ proc[a].phase \in {"send", "await"} /\ proc[a].reply = "none"
                       /\ proc[a].client = c
                       /\ ~(worker.step = "answer" /\ worker.id = IdOf(a, "request"))
                    THEN {IdOf(a, "request")} ELSE {}
    <3>1. Requests(c, a) = IF Waits(a) /\ proc[a].client = c THEN {IdOf(a, "request")} ELSE {}
      BY Zenon DEF IInv, PendingInv, Awaited
    <3> QED
      BY <3>1, Zenon DEF Requests, RequestsOf, Waits, HasRequest, Held
  <2> QED
    BY <2>1, Zenon DEF PendingIsAwaited
<1> QED
  BY <1>1, <1>2 DEF SessionInv

LEMMA InitInv == Init => IInv
<1> SUFFICES ASSUME Init PROVE IInv
  OBVIOUS
<1>1. NewClient \in ClientType /\ NewClient.pending = {}
  BY DEF NewClient, ClientType
<1>2. Task("idle") \in TaskType /\ Task("idle").phase = "idle" /\ Task("idle").reply = "none"
  BY DEF Task, TaskType, Phases, CallerPhase, Reply
<1>3. \A a \in Initializers : proc[a] = Task("idle")
  BY Zenon DEF Init
<1>4. \A c \in Clients : client[c] = NewClient
  BY Zenon DEF Init
<1>5. MiscInv
  <2>1. 0 \in 0..MaxEpoch /\ 0 \in 0..MaxForgets
    BY SMT
  <2> QED
    BY <2>1, Zenon DEF Init, MiscInv
<1>6. QueueInv
  BY DEF Init, QueueInv
<1>7. ClientInv
  <2>1. client \in [Clients -> ClientType]
    BY <1>1, Zenon DEF Init
  <2> QED
    BY <1>1, <1>4, <2>1, FS_EmptySet, Zenon DEF ClientInv
<1>8. worker.step # "answer" /\ WorkerInv
  BY DEF Init, WorkerInv, Idle, WorkerState
<1>9. TaskInv
  <2>1. proc \in [Initializers -> TaskType]
    BY <1>2, Zenon DEF Init
  <2>2. ASSUME NEW a \in Initializers PROVE Fits(a, proc[a])
    BY <1>2, <1>3, Zenon DEF Fits, InKind, CallerPhase, RecoveryPhase, OpenerPhase
  <2> QED
    BY <2>1, <2>2, Zenon DEF TaskInv
<1>10. \A a \in Callers : ~HasRequest(proc[a])
  BY <1>2, <1>3, Kinds, Zenon DEF HasRequest
<1>11. PendingInv
  <2>1. ASSUME NEW a \in Callers, NEW c \in Clients PROVE Requests(c, a) = {} /\ ~Waits(a)
    BY <1>1, <1>4, <1>10, Zenon DEF Requests, RequestsOf, Waits
  <2> QED
    BY <2>1, Zenon DEF PendingInv, Awaited
<1> QED
  BY <1>5, <1>6, <1>7, <1>8, <1>9, <1>10, <1>11, Zenon DEF IInv, RepliedWithConnection, AnswerIsDrawn

-----------------------------------------------------------------------------
(* What a task becomes *)

At(r, p) == [r EXCEPT !.phase = p]
For(r, c, p) == [r EXCEPT !.client = c, !.phase = p]
On(r, e, p) == [r EXCEPT !.epoch = e, !.phase = p]
Drawing(r, n, p) == [r EXCEPT !.drawn = n, !.phase = p]
Sending(r, n, e) == [r EXCEPT !.drawn = n, !.epoch = e, !.phase = "send"]
Retrying(r) == [r EXCEPT !.retried = TRUE, !.reply = "none", !.phase = "waitRetry"]
Replied(r, x) == [r EXCEPT !.reply = x]
Recovering(r, c, e) == [r EXCEPT !.phase = "reset", !.client = c, !.epoch = e]
Looking(r, l, c, p) == [r EXCEPT !.left = l, !.client = c, !.phase = p]
Opening(e, d, l) == [Task("open") EXCEPT !.epoch = e, !.drawn = d, !.left = l]
Ending(d) == [Task("idle") EXCEPT !.drawn = d]
Ended(a, p) == IF a \in Callers THEN Task(p) ELSE [Task(p) EXCEPT !.drawn = proc[a].drawn]

LEMMA TaskFields ==
    ASSUME NEW r \in TaskType
    PROVE  /\ r.phase \in Phases /\ r.client \in Clients /\ r.epoch \in 0..MaxEpoch
           /\ r.drawn \in Nat /\ r.reply \in Reply /\ r.retried \in BOOLEAN
           /\ r.left \in SUBSET Clients
BY Zenon DEF TaskType

LEMMA AtTask ==
    ASSUME NEW r \in TaskType, NEW p \in Phases
    PROVE  /\ At(r, p) \in TaskType /\ At(r, p).phase = p /\ At(r, p).client = r.client
           /\ At(r, p).epoch = r.epoch /\ At(r, p).drawn = r.drawn /\ At(r, p).reply = r.reply
<1>1. At(r, p) \in TaskType
  BY Zenon DEF At, TaskType
<1> QED
  BY <1>1, Zenon DEF At, TaskType

LEMMA ForTask ==
    ASSUME NEW r \in TaskType, NEW c \in Clients, NEW p \in Phases
    PROVE  /\ For(r, c, p) \in TaskType /\ For(r, c, p).phase = p
           /\ For(r, c, p).drawn = r.drawn /\ For(r, c, p).reply = r.reply
<1>1. For(r, c, p) \in TaskType
  BY Zenon DEF For, TaskType
<1> QED
  BY <1>1, Zenon DEF For, TaskType

LEMMA OnTask ==
    ASSUME NEW r \in TaskType, NEW e \in 0..MaxEpoch, NEW p \in Phases
    PROVE  /\ On(r, e, p) \in TaskType /\ On(r, e, p).phase = p
           /\ On(r, e, p).drawn = r.drawn /\ On(r, e, p).reply = r.reply
<1>1. On(r, e, p) \in TaskType
  BY Zenon DEF On, TaskType
<1> QED
  BY <1>1, Zenon DEF On, TaskType

LEMMA DrawingTask ==
    ASSUME NEW r \in TaskType, NEW n \in Nat, NEW p \in Phases
    PROVE  /\ Drawing(r, n, p) \in TaskType /\ Drawing(r, n, p).phase = p
           /\ Drawing(r, n, p).drawn = n /\ Drawing(r, n, p).reply = r.reply
           /\ Drawing(r, n, p).client = r.client /\ Drawing(r, n, p).epoch = r.epoch
<1>1. Drawing(r, n, p) \in TaskType
  BY Zenon DEF Drawing, TaskType
<1> QED
  BY <1>1, Zenon DEF Drawing, TaskType

LEMMA SendingTask ==
    ASSUME NEW r \in TaskType, NEW n \in Nat, NEW e \in 0..MaxEpoch
    PROVE  /\ Sending(r, n, e) \in TaskType /\ Sending(r, n, e).phase = "send"
           /\ Sending(r, n, e).drawn = n /\ Sending(r, n, e).reply = r.reply
           /\ Sending(r, n, e).client = r.client /\ Sending(r, n, e).epoch = e
<1>1. Sending(r, n, e) \in TaskType
  BY Zenon DEF Sending, TaskType, Phases, CallerPhase
<1> QED
  BY <1>1, Zenon DEF Sending, TaskType

LEMMA RetryingTask ==
    ASSUME NEW r \in TaskType
    PROVE  /\ Retrying(r) \in TaskType /\ Retrying(r).phase = "waitRetry"
           /\ Retrying(r).drawn = r.drawn /\ Retrying(r).reply = "none"
<1>1. Retrying(r) \in TaskType
  BY Zenon DEF Retrying, TaskType, Phases, CallerPhase, Reply
<1> QED
  BY <1>1, Zenon DEF Retrying, TaskType

LEMMA RepliedTask ==
    ASSUME NEW r \in TaskType, NEW x \in Reply
    PROVE  /\ Replied(r, x) \in TaskType /\ Replied(r, x).reply = x
           /\ Replied(r, x).phase = r.phase /\ Replied(r, x).drawn = r.drawn
           /\ Replied(r, x).client = r.client /\ Replied(r, x).epoch = r.epoch
<1>1. Replied(r, x) \in TaskType
  BY Zenon DEF Replied, TaskType
<1> QED
  BY <1>1, Zenon DEF Replied, TaskType

LEMMA RecoveringTask ==
    ASSUME NEW r \in TaskType, NEW c \in Clients, NEW e \in 0..MaxEpoch
    PROVE  /\ Recovering(r, c, e) \in TaskType /\ Recovering(r, c, e).phase = "reset"
           /\ Recovering(r, c, e).client = c /\ Recovering(r, c, e).epoch = e
<1>1. Recovering(r, c, e) \in TaskType
  BY Zenon DEF Recovering, TaskType, Phases, RecoveryPhase
<1> QED
  BY <1>1, Zenon DEF Recovering, TaskType

LEMMA LookingTask ==
    ASSUME NEW r \in TaskType, NEW l \in SUBSET Clients, NEW c \in Clients, NEW p \in Phases
    PROVE  Looking(r, l, c, p) \in TaskType /\ Looking(r, l, c, p).phase = p
<1>1. Looking(r, l, c, p) \in TaskType
  BY Zenon DEF Looking, TaskType
<1> QED
  BY <1>1, Zenon DEF Looking, TaskType

LEMMA NewTask ==
    ASSUME NEW p \in Phases
    PROVE  /\ Task(p) \in TaskType /\ Task(p).phase = p /\ Task(p).reply = "none"
           /\ Task(p).epoch = 0 /\ Task(p).drawn = 0
<1>1. 0 \in 0..MaxEpoch /\ 0 \in Nat
  BY SMT
<1>2. Task(p) \in TaskType
  BY <1>1, Zenon DEF Task, TaskType, Reply
<1> QED
  BY <1>2, SMT DEF Task

LEMMA OpeningTask ==
    ASSUME NEW e \in 0..MaxEpoch, NEW d \in Nat, NEW l \in SUBSET Clients
    PROVE  Opening(e, d, l) \in TaskType /\ Opening(e, d, l).phase = "open"
<1>1. Task("open") \in TaskType /\ Task("open").phase = "open"
  <2>1. "open" \in Phases
    BY Zenon DEF Phases, OpenerPhase
  <2> QED
    BY <2>1, NewTask
<1>2. Opening(e, d, l) \in TaskType
  BY <1>1, Zenon DEF Opening, TaskType
<1>3. Opening(e, d, l).phase = Task("open").phase
  BY <1>1, Zenon DEF Opening, TaskType
<1> QED
  BY <1>1, <1>2, <1>3, Zenon

LEMMA EndedTask ==
    ASSUME TaskInv, NEW a \in Initializers, NEW p \in Phases
    PROVE  /\ Ended(a, p) \in TaskType /\ Ended(a, p).phase = p /\ Ended(a, p).reply = "none"
<1>1. Task(p) \in TaskType /\ Task(p).phase = p /\ Task(p).reply = "none"
  BY NewTask
<1>2. proc[a].drawn \in Nat
  BY TaskFields, Zenon DEF TaskInv
<1>3. [Task(p) EXCEPT !.drawn = proc[a].drawn] \in TaskType
  BY <1>1, <1>2, Zenon DEF TaskType
<1>4. /\ [Task(p) EXCEPT !.drawn = proc[a].drawn].phase = Task(p).phase
      /\ [Task(p) EXCEPT !.drawn = proc[a].drawn].reply = Task(p).reply
  BY <1>1, Zenon DEF TaskType
<1> QED
  BY <1>1, <1>3, <1>4, Zenon DEF Ended

LEMMA EndingTask ==
    ASSUME NEW d \in Nat
    PROVE  /\ Ending(d) \in TaskType /\ Ending(d).phase = "idle" /\ Ending(d).reply = "none"
<1>0. "idle" \in Phases
  BY Zenon DEF Phases, CallerPhase
<1>1. Task("idle") \in TaskType /\ Task("idle").phase = "idle" /\ Task("idle").reply = "none"
  BY <1>0, NewTask
<1>2. Ending(d) \in TaskType
  BY <1>1, Zenon DEF Ending, TaskType
<1>3. Ending(d).phase = Task("idle").phase /\ Ending(d).reply = Task("idle").reply
  BY <1>1, Zenon DEF Ending, TaskType
<1> QED
  BY <1>1, <1>2, <1>3, Zenon

-----------------------------------------------------------------------------
(* What the steps share *)

LEMMA Moved ==
    ASSUME TaskInv, NEW a \in Initializers, NEW r \in TaskType, Fits(a, r),
           proc' = [proc EXCEPT ![a] = r]
    PROVE  TaskInv' /\ proc'[a] = r /\ \A b \in Initializers : b # a => proc'[b] = proc[b]
<1>1. /\ proc' \in [Initializers -> TaskType] /\ proc'[a] = r
      /\ \A b \in Initializers : b # a => proc'[b] = proc[b]
  BY Zenon DEF TaskInv
<1>2. ASSUME NEW b \in Initializers PROVE Fits(b, proc'[b])
  BY <1>1, Zenon DEF TaskInv
<1> QED
  BY <1>1, <1>2, Zenon DEF TaskInv

\* What the worker is in the middle of
LEMMA WorkerHolds ==
    ASSUME WorkerInv, worker.step # "idle"
    PROVE  /\ worker \in [step : {"answer", "ready", "replay"}, client : Clients, id : RequestId]
           /\ worker.client \in Clients /\ worker.id \in RequestId
           /\ worker.id.n \in Nat /\ worker.id.owner \in Initializers
<1>1. worker # Idle
  BY DEF Idle
<1>2. worker \in [step : {"answer", "ready", "replay"}, client : Clients, id : RequestId]
  BY <1>1, Zenon DEF WorkerInv, WorkerState
<1>3. worker.client \in Clients /\ worker.id \in RequestId
  BY <1>2, Zenon
<1> QED
  BY <1>2, <1>3, Zenon DEF RequestId

\* Nothing changes for the caller.
LEMMA AwaitedSame ==
    ASSUME NEW a, Awaited(a), proc'[a] = proc[a], Held(a)' <=> Held(a),
           \A c \in Clients : Requests(c, a)' = Requests(c, a)
    PROVE  Awaited(a)'
<1>1. (Waits(a)' <=> Waits(a)) /\ IdOf(a, "request")' = IdOf(a, "request")
  BY Zenon DEF Waits, IdOf
<1> QED
  BY <1>1, Zenon DEF Awaited

LEMMA HeldSame ==
    ASSUME NEW a, worker' = worker, proc'[a] = proc[a] PROVE Held(a)' <=> Held(a)
BY Zenon DEF Held, IdOf

\* A caller that waits for nothing has nothing in the pending maps.
LEMMA NotAwaited ==
    ASSUME NEW a, Awaited(a), ~Waits(a), ~Waits(a)',
           \A c \in Clients : Requests(c, a)' \subseteq Requests(c, a)
    PROVE  Awaited(a)'
<1>1. \A c \in Clients : Requests(c, a) = {}
  BY Zenon DEF Awaited
<1>2. \A c \in Clients : Requests(c, a)' = {}
  BY <1>1
<1> QED
  BY <1>2, Zenon DEF Awaited

\* A task takes a step.
LEMMA TaskStep ==
    ASSUME TaskInv, WorkerInv, RepliedWithConnection, AnswerIsDrawn, PendingInv,
           NEW a \in Initializers, NEW r \in TaskType, Fits(a, r), proc' = [proc EXCEPT ![a] = r],
           worker' = worker, epoch' = epoch,
           \A b \in Callers : b # a => \A c \in Clients : Requests(c, b)' = Requests(c, b),
           a \in Callers =>
               /\ HasRequest(r) /\ r.reply = "none" => Open /\ r.epoch = epoch
               /\ \/ r.phase \in Finished
                  \/ proc[a].phase \notin Finished /\ proc[a].drawn <= r.drawn
               /\ r.phase # "aborted" => Awaited(a)'
    PROVE  TaskInv' /\ RepliedWithConnection' /\ AnswerIsDrawn' /\ PendingInv'
<1>1. TaskInv' /\ proc'[a] = r /\ \A b \in Initializers : b # a => proc'[b] = proc[b]
  BY Moved
<1>2. RepliedWithConnection'
  <2>1. ASSUME NEW b \in Callers, HasRequest(proc'[b]), proc'[b].reply = "none"
        PROVE  OnConnection(b)'
    <3>1. CASE b = a
      BY <1>1, <2>1, <3>1, Zenon DEF OnConnection, Open
    <3>2. CASE b # a
      BY <1>1, <2>1, <3>2, Kinds, Zenon DEF OnConnection, Open, RepliedWithConnection
    <3> QED
      BY <3>1, <3>2
  <2> QED
    BY <2>1, Zenon DEF RepliedWithConnection, HasRequest
<1>3. AnswerIsDrawn'
  <2> SUFFICES ASSUME worker.step = "answer", NEW b \in Callers, worker.id.owner = b,
                      proc'[b].phase \notin Finished
               PROVE  worker.id.n <= proc'[b].drawn
    BY Zenon DEF AnswerIsDrawn
  <2>1. CASE b = a
    <3>1. proc[a].phase \notin Finished /\ proc[a].drawn <= r.drawn
      BY <1>1, <2>1, Zenon
    <3>2. worker.id.n <= proc[a].drawn
      BY <2>1, <3>1, Zenon DEF AnswerIsDrawn
    <3>3. worker.id.n \in Nat
      BY WorkerHolds
    <3>4. proc[a].drawn \in Nat /\ r.drawn \in Nat
      BY TaskFields, Zenon DEF TaskInv
    <3> QED
      BY <1>1, <2>1, <3>1, <3>2, <3>3, <3>4, SMT
  <2>2. CASE b # a
    BY <1>1, <2>2, Kinds, Zenon DEF AnswerIsDrawn
  <2> QED
    BY <2>1, <2>2
<1>4. PendingInv'
  <2>1. ASSUME NEW b \in Callers, proc'[b].phase # "aborted" PROVE Awaited(b)'
    <3>1. CASE b = a
      BY <1>1, <2>1, <3>1, Zenon
    <3>2. CASE b # a
      <4>1. proc'[b] = proc[b] /\ proc[b].phase # "aborted"
        BY <1>1, <2>1, <3>2, Kinds
      <4>2. Awaited(b)
        BY <4>1 DEF PendingInv
      <4>3. \A c \in Clients : Requests(c, b)' = Requests(c, b)
        BY <3>2
      <4>4. Held(b)' <=> Held(b)
        BY <4>1, HeldSame
      <4> QED
        BY <4>1, <4>2, <4>3, <4>4, AwaitedSame
    <3> QED
      BY <3>1, <3>2
  <2> QED
    BY <2>1, Zenon DEF PendingInv
<1> QED
  BY <1>1, <1>2, <1>3, <1>4

\* The pending maps are left alone, or their other entries change.
LEMMA ClientsSame ==
    ASSUME client' = client
    PROVE  /\ ClientInv => ClientInv'
           /\ \A b \in Callers : \A c \in Clients : Requests(c, b)' = Requests(c, b)
BY Zenon DEF ClientInv, Requests

LEMMA MiscSame ==
    ASSUME MiscInv, UNCHANGED <<epoch, opened, known, forgets, admitting>>, closing' \in BOOLEAN
    PROVE  MiscInv'
BY Zenon DEF MiscInv

LEMMA QueueSame ==
    ASSUME QueueInv, epoch' = epoch, work' = work, toServer' \in Seq(EnvelopeType)
    PROVE  QueueInv'
BY Zenon DEF QueueInv, Open

\* A step of a task that has no request, before or after, and leaves the requests
\* in the pending maps alone.
SameRequests == \A b \in Callers : \A c \in Clients : Requests(c, b)' = Requests(c, b)

LEMMA QuietStep ==
    ASSUME IInv, UNCHANGED <<epoch, work, worker>>, MiscInv', ClientInv', SameRequests,
           toServer' \in Seq(EnvelopeType),
           NEW a \in Initializers, NEW r \in TaskType, Fits(a, r), proc' = [proc EXCEPT ![a] = r],
           a \in Callers =>
               /\ ~HasRequest(r)
               /\ r.phase = "aborted" \/ (~Waits(a) /\ proc[a].phase # "aborted")
               /\ \/ r.phase \in Finished
                  \/ proc[a].phase \notin Finished /\ proc[a].drawn <= r.drawn
    PROVE  IInv'
<1>i. /\ TaskInv /\ WorkerInv /\ RepliedWithConnection /\ AnswerIsDrawn /\ PendingInv
      /\ ClientInv /\ QueueInv
  BY DEF IInv
<1>1. \A b \in Callers : \A c \in Clients : Requests(c, b)' = Requests(c, b)
  BY DEF SameRequests
<1>2. QueueInv'
  BY <1>i, QueueSame
<1>3. WorkerInv'
  BY <1>i, Zenon DEF WorkerInv
<1>4. ASSUME a \in Callers, r.phase # "aborted" PROVE Awaited(a)'
  <2>1. proc'[a] = r
    BY <1>i, Zenon DEF TaskInv
  <2>2. ~Waits(a) /\ ~Waits(a)' /\ Awaited(a)
    BY <1>4, <1>i, <2>1, Zenon DEF Waits, PendingInv
  <2>3. \A c \in Clients : Requests(c, a)' \subseteq Requests(c, a)
    BY <1>1, <1>4
  <2> QED
    BY <2>2, <2>3, NotAwaited
<1>5. a \in Callers =>
               /\ HasRequest(r) /\ r.reply = "none" => Open /\ r.epoch = epoch
               /\ \/ r.phase \in Finished
                  \/ proc[a].phase \notin Finished /\ proc[a].drawn <= r.drawn
               /\ r.phase # "aborted" => Awaited(a)'
  BY <1>4
<1>6. TaskInv' /\ RepliedWithConnection' /\ AnswerIsDrawn' /\ PendingInv'
  BY <1>i, <1>1, <1>5, TaskStep
<1> QED
  BY <1>1, <1>2, <1>3, <1>6 DEF IInv

\* A caller without a request waits for nothing.
LEMMA NoRequest ==
    ASSUME IInv, NEW a \in Initializers, ~HasRequest(proc[a])
    PROVE  proc[a] \in TaskType /\ proc[a].drawn \in Nat /\ Fits(a, proc[a]) /\ ~Waits(a)
           /\ (a \in Callers => proc[a].reply = "none")
<1>1. proc[a] \in TaskType /\ Fits(a, proc[a])
  BY Zenon DEF IInv, TaskInv
<1> QED
  BY <1>1, TaskFields, Zenon DEF Waits, Fits

\* The steps of a caller between requests, and those of the other tasks
LEMMA BetweenRequests ==
    ASSUME IInv, UNCHANGED <<epoch, client, work, worker>>, MiscInv',
           toServer' \in Seq(EnvelopeType),
           NEW a \in Initializers, ~HasRequest(proc[a]), proc[a].phase \notin Finished,
           NEW r \in TaskType, proc' = [proc EXCEPT ![a] = r],
           InKind(a, r.phase), ~HasRequest(r), r.reply = "none" \/ r.reply = proc[a].reply,
           r.phase \in Finished \/ a \notin Callers \/ proc[a].drawn <= r.drawn
    PROVE  IInv'
<1>1. ~Waits(a) /\ Fits(a, r) /\ proc[a].phase # "aborted"
  BY NoRequest, Zenon DEF Fits, Finished
<1>2. ClientInv' /\ SameRequests
  BY ClientsSame DEF IInv, SameRequests
<1> QED
  BY <1>1, <1>2, QuietStep

\* A task ends.
LEMMA Ends ==
    ASSUME IInv, NEW a \in Initializers, NEW p \in Phases, End(a, p)
    PROVE  \E r \in TaskType : proc' = [proc EXCEPT ![a] = r] /\ r.phase = p /\ r.reply = "none"
<1>1. proc' = [proc EXCEPT ![a] = Ended(a, p)]
  BY Zenon DEF End, Ended
<1>2. Ended(a, p) \in TaskType /\ Ended(a, p).phase = p /\ Ended(a, p).reply = "none"
  BY EndedTask DEF IInv
<1> QED
  BY <1>1, <1>2

\* A task gives up: its future returns an error, or it can run again.
LEMMA Gives ==
    ASSUME IInv, NEW a \in Initializers, Fail(a)
    PROVE  \E r \in TaskType : /\ proc' = [proc EXCEPT ![a] = r] /\ r.reply = "none"
                               /\ r.phase = IF a \in Callers THEN "failed" ELSE "idle"
                               /\ InKind(a, r.phase) /\ ~HasRequest(r)
                               /\ a \in Callers => r.phase \in Finished
<1>1. "failed" \in Phases /\ "idle" \in Phases
  BY Zenon DEF Phases, CallerPhase
<1>2. PICK p \in {"failed", "idle"} : End(a, p) /\ p = IF a \in Callers THEN "failed" ELSE "idle"
  BY Zenon DEF Fail
<1>3. PICK r \in TaskType : proc' = [proc EXCEPT ![a] = r] /\ r.phase = p /\ r.reply = "none"
  BY <1>1, <1>2, Ends
<1>4. InKind(a, p)
  BY <1>2, Kinds, Zenon DEF InKind, CallerPhase, RecoveryPhase, OpenerPhase
<1> QED
  BY <1>2, <1>3, <1>4, Zenon DEF HasRequest, Finished

\* A caller whose request is no longer in a pending map gives up.
LEMMA GivesQuietly ==
    ASSUME IInv, UNCHANGED <<epoch, client, work, worker>>, MiscInv',
           toServer' \in Seq(EnvelopeType),
           NEW a \in Initializers, ~Waits(a), proc[a].phase \notin Finished, Fail(a)
    PROVE  IInv'
<1>1. PICK r \in TaskType : /\ proc' = [proc EXCEPT ![a] = r] /\ r.reply = "none"
                            /\ InKind(a, r.phase) /\ ~HasRequest(r)
                            /\ a \in Callers => r.phase \in Finished
  BY Gives
<1>2. Fits(a, r) /\ proc[a].phase # "aborted"
  BY <1>1, Zenon DEF Fits, Finished
<1>3. ClientInv' /\ SameRequests
  BY ClientsSame DEF IInv, SameRequests
<1> QED
  BY <1>1, <1>2, <1>3, QuietStep

\* The steps of a caller that only move it
Frame == /\ UNCHANGED <<epoch, opened, work, worker, known, forgets, admitting>>
         /\ closing' \in BOOLEAN

LEMMA FrameKeeps ==
    ASSUME IInv, Frame
    PROVE  UNCHANGED <<epoch, work, worker>> /\ MiscInv' /\ toServer \in Seq(EnvelopeType)
BY MiscSame, Zenon DEF Frame, IInv, QueueInv

LEMMA BeginKeeps == ASSUME IInv, NEW a \in Callers, Begin(a) PROVE IInv'
<1>0. /\ proc[a].phase = "idle" /\ client' = client /\ toServer' = toServer /\ Frame
      /\ \/ Fail(a)
         \/ \E p \in {"waitRecovery", "ready"} :
               proc' = [proc EXCEPT ![a] = For(proc[a], ClientOf[a], p)]
  BY Zenon DEF Begin, For, Frame, serverVars, IInv, MiscInv
<1>1. a \in Initializers /\ ~HasRequest(proc[a]) /\ proc[a].phase \notin Finished
  BY <1>0, Kinds, Zenon DEF HasRequest, Finished
<1>2. /\ UNCHANGED <<epoch, client, work, worker>> /\ MiscInv' /\ toServer' \in Seq(EnvelopeType)
  BY <1>0, FrameKeeps
<1>3. proc[a] \in TaskType /\ proc[a].drawn \in Nat /\ ~Waits(a)
  BY <1>1, NoRequest
<1>4. CASE Fail(a)
  BY <1>1, <1>2, <1>3, <1>4, GivesQuietly
<1>5. ASSUME NEW p \in {"waitRecovery", "ready"},
             proc' = [proc EXCEPT ![a] = For(proc[a], ClientOf[a], p)]
      PROVE  IInv'
  <2>1. PICK r : r = For(proc[a], ClientOf[a], p)
    OBVIOUS
  <2>2. ClientOf[a] \in Clients /\ p \in Phases
    BY Zenon DEF Phases, CallerPhase
  <2>3. r \in TaskType /\ r.phase = p /\ r.drawn = proc[a].drawn /\ r.reply = proc[a].reply
    <3>1. /\ For(proc[a], ClientOf[a], p) \in TaskType /\ For(proc[a], ClientOf[a], p).phase = p
          /\ For(proc[a], ClientOf[a], p).drawn = proc[a].drawn
          /\ For(proc[a], ClientOf[a], p).reply = proc[a].reply
      BY <1>3, <2>2, ForTask
    <3> QED
      BY <2>1, <3>1, Zenon
  <2>4. InKind(a, r.phase) /\ ~HasRequest(r)
    BY <2>3, Kinds, Zenon DEF InKind, CallerPhase, HasRequest
  <2>5. proc[a].drawn <= r.drawn
    BY <1>3, <2>3, SMT
  <2> QED
    BY <1>1, <1>2, <1>5, <2>1, <2>3, <2>4, <2>5, BetweenRequests
<1> QED
  BY <1>0, <1>4, <1>5

\* A caller that goes on at p
LEMMA GoesOn ==
    ASSUME IInv, client' = client, toServer' \in Seq(EnvelopeType), Frame,
           NEW a \in Initializers, ~HasRequest(proc[a]), proc[a].phase \notin Finished,
           NEW p \in Phases, Go(a, p), InKind(a, p), p \notin {"send", "await"}
    PROVE  IInv'
<1>1. proc[a] \in TaskType /\ proc[a].drawn \in Nat /\ ~Waits(a)
  BY NoRequest
<1>2. /\ UNCHANGED <<epoch, client, work, worker>> /\ MiscInv'
  BY FrameKeeps
<1>3. PICK r : r = At(proc[a], p)
  OBVIOUS
<1>4. proc' = [proc EXCEPT ![a] = r]
  BY <1>3, Zenon DEF Go, At
<1>5. r \in TaskType /\ r.phase = p /\ r.drawn = proc[a].drawn /\ r.reply = proc[a].reply
  BY <1>1, <1>3, AtTask, Zenon
<1>6. InKind(a, r.phase) /\ ~HasRequest(r)
  BY <1>5, Zenon DEF HasRequest
<1>7. proc[a].drawn <= r.drawn
  BY <1>1, <1>5, SMT
<1> QED
  BY <1>2, <1>4, <1>5, <1>6, <1>7, BetweenRequests

LEMMA WaitInitializedKeeps == ASSUME IInv, NEW a \in Callers, WaitInitialized(a) PROVE IInv'
<1>0. /\ proc[a].phase \in {"waitRecovery", "wait", "waitRetry"}
      /\ client' = client /\ toServer' = toServer /\ Frame
      /\ \/ Fail(a)
         \/ \E p \in {"ready", "register", "idle"} : Go(a, p)
  BY Zenon DEF WaitInitialized, Frame, serverVars, IInv, MiscInv
<1>1. a \in Initializers /\ ~HasRequest(proc[a]) /\ proc[a].phase \notin Finished /\ ~Waits(a)
  BY <1>0, Kinds, Zenon DEF HasRequest, Finished, Waits
<1>2. /\ UNCHANGED <<epoch, client, work, worker>> /\ MiscInv' /\ toServer' \in Seq(EnvelopeType)
  BY <1>0, FrameKeeps
<1>3. CASE Fail(a)
  BY <1>1, <1>2, <1>3, GivesQuietly
<1>4. ASSUME NEW p \in {"ready", "register", "idle"}, Go(a, p) PROVE IInv'
  <2>1. p \in Phases /\ InKind(a, p) /\ p \notin {"send", "await"}
    BY Kinds, Zenon DEF InKind, CallerPhase, Phases
  <2> QED
    BY <1>0, <1>1, <1>2, <1>4, <2>1, GoesOn
<1> QED
  BY <1>0, <1>3, <1>4

LEMMA EnsureReadyKeeps == ASSUME IInv, NEW a \in Callers, EnsureReady(a) PROVE IInv'
<1>0. /\ proc[a].phase = "ready" /\ client' = client /\ toServer' = toServer /\ Frame
      /\ Fail(a) \/ proc' = [proc EXCEPT ![a] = On(proc[a], epoch, "ensure")]
  BY Zenon DEF EnsureReady, On, Frame, serverVars, IInv, MiscInv
<1>1. a \in Initializers /\ ~HasRequest(proc[a]) /\ proc[a].phase \notin Finished /\ ~Waits(a)
  BY <1>0, Kinds, Zenon DEF HasRequest, Finished, Waits
<1>2. /\ UNCHANGED <<epoch, client, work, worker>> /\ MiscInv' /\ toServer' \in Seq(EnvelopeType)
  BY <1>0, FrameKeeps
<1>3. CASE Fail(a)
  BY <1>1, <1>2, <1>3, GivesQuietly
<1>4. CASE proc' = [proc EXCEPT ![a] = On(proc[a], epoch, "ensure")]
  <2>1. PICK r : r = On(proc[a], epoch, "ensure")
    OBVIOUS
  <2>2. proc[a] \in TaskType /\ proc[a].drawn \in Nat /\ epoch \in 0..MaxEpoch /\ "ensure" \in Phases
    <3>1. proc[a] \in TaskType /\ proc[a].drawn \in Nat
      BY <1>1, NoRequest
    <3>2. epoch \in 0..MaxEpoch
      BY Zenon DEF IInv, MiscInv
    <3>3. "ensure" \in Phases
      BY Zenon DEF Phases, CallerPhase
    <3> QED
      BY <3>1, <3>2, <3>3
  <2>3. r \in TaskType /\ r.phase = "ensure" /\ r.drawn = proc[a].drawn /\ r.reply = proc[a].reply
    <3>1. PICK t \in TaskType, e \in 0..MaxEpoch : t = proc[a] /\ e = epoch
      BY <2>2
    <3>2. /\ On(t, e, "ensure") \in TaskType /\ On(t, e, "ensure").phase = "ensure"
          /\ On(t, e, "ensure").drawn = t.drawn /\ On(t, e, "ensure").reply = t.reply
      BY <2>2, OnTask
    <3>3. r = On(t, e, "ensure")
      BY <2>1, <3>1
    <3> QED
      BY <3>1, <3>2, <3>3
  <2>4. InKind(a, r.phase) /\ ~HasRequest(r)
    BY <2>3, Kinds, Zenon DEF InKind, CallerPhase, HasRequest
  <2>5. proc[a].drawn <= r.drawn
    BY <2>2, <2>3, SMT
  <2> QED
    BY <1>1, <1>2, <1>4, <2>1, <2>3, <2>4, <2>5, BetweenRequests
<1> QED
  BY <1>0, <1>3, <1>4

LEMMA EnsureInitializedKeeps == ASSUME IInv, NEW a \in Callers, EnsureInitialized(a) PROVE IInv'
<1>0. /\ proc[a].phase = "ensure" /\ client' = client /\ toServer' = toServer /\ Frame
      /\ \E p \in {"wait", "initialize"} : Go(a, p)
  BY Zenon DEF EnsureInitialized, Frame, serverVars, IInv, MiscInv
<1>1. a \in Initializers /\ ~HasRequest(proc[a]) /\ proc[a].phase \notin Finished
  BY <1>0, Kinds, Zenon DEF HasRequest, Finished
<1>2. toServer' \in Seq(EnvelopeType)
  BY <1>0, FrameKeeps
<1>3. ASSUME NEW p \in {"wait", "initialize"}, Go(a, p) PROVE IInv'
  <2>1. p \in Phases /\ InKind(a, p) /\ p \notin {"send", "await"}
    BY Kinds, Zenon DEF InKind, CallerPhase, Phases
  <2> QED
    BY <1>0, <1>1, <1>2, <1>3, <2>1, GoesOn
<1> QED
  BY <1>0, <1>3

-----------------------------------------------------------------------------
(* Requests in and out of the pending maps *)

Pend(k, ids) == [k EXCEPT !.pending = ids]

LEMMA PendClient ==
    ASSUME NEW k \in ClientType, NEW ids \in SUBSET RequestId
    PROVE  /\ Pend(k, ids) \in ClientType /\ Pend(k, ids).pending = ids
           /\ Pend(k, ids).initialized = k.initialized /\ Pend(k, ids).recovering = k.recovering
<1>1. Pend(k, ids) \in ClientType
  BY Zenon DEF Pend, ClientType
<1> QED
  BY <1>1, Zenon DEF Pend, ClientType

LEMMA ClientFields ==
    ASSUME ClientInv, NEW c \in Clients
    PROVE  /\ client[c] \in ClientType /\ client[c].pending \in SUBSET RequestId
           /\ client[c].initialized \in BOOLEAN /\ client[c].recovering \in BOOLEAN
           /\ IsFiniteSet(client[c].pending)
BY Zenon DEF ClientInv, ClientType

LEMMA ClientStep ==
    ASSUME ClientInv, NEW c \in Clients, NEW k \in ClientType, IsFiniteSet(k.pending),
           client' = [client EXCEPT ![c] = k]
    PROVE  /\ ClientInv' /\ client'[c] = k
           /\ \A d \in Clients : d # c => client'[d] = client[d]
           /\ \A b : Requests(c, b)' = RequestsOf(b, k.pending)
           /\ \A b : \A d \in Clients : d # c => Requests(d, b)' = Requests(d, b)
<1>1. /\ client' \in [Clients -> ClientType] /\ client'[c] = k
      /\ \A d \in Clients : d # c => client'[d] = client[d]
  BY Zenon DEF ClientInv
<1>2. \A d \in Clients : IsFiniteSet(client'[d].pending)
  BY <1>1, Zenon DEF ClientInv
<1> QED
  BY <1>1, <1>2, Zenon DEF ClientInv, Requests

\* The pending map of c becomes ids.
LEMMA PendStep ==
    ASSUME ClientInv, NEW c \in Clients, NEW ids \in SUBSET RequestId, IsFiniteSet(ids),
           client' = [client EXCEPT ![c] = Pend(client[c], ids)]
    PROVE  /\ ClientInv'
           /\ \A b : Requests(c, b)' = RequestsOf(b, ids)
           /\ \A b : \A d \in Clients : d # c => Requests(d, b)' = Requests(d, b)
<1>1. PICK k : k = Pend(client[c], ids)
  OBVIOUS
<1>2. k \in ClientType /\ k.pending = ids
  BY <1>1, ClientFields, PendClient
<1>3. client' = [client EXCEPT ![c] = k]
  BY <1>1
<1>4. /\ ClientInv'
      /\ \A b : Requests(c, b)' = RequestsOf(b, k.pending)
      /\ \A b : \A d \in Clients : d # c => Requests(d, b)' = Requests(d, b)
  BY <1>2, <1>3, ClientStep
<1> QED
  BY <1>2, <1>4

\* The ids of a task
LEMMA IdType ==
    ASSUME NEW a \in Initializers, NEW m \in {"initialize", "request"}, NEW n \in Nat
    PROVE  [owner |-> a, method |-> m, n |-> n] \in RequestId
BY Zenon DEF RequestId

LEMMA RegisterInitializeKeeps ==
    ASSUME IInv, NEW a \in Initializers, RegisterInitialize(a) PROVE IInv'
<1>1. PICK n : n = proc[a].drawn + 1
  OBVIOUS
<1>2. PICK id : id = [owner |-> a, method |-> "initialize", n |-> n]
  OBVIOUS
<1>0. /\ proc[a].phase = "initialize" /\ toServer' = toServer /\ Frame
      /\ \/ Fail(a) /\ client' = client
         \/ /\ client' = [client EXCEPT ![proc[a].client] =
                             Pend(client[proc[a].client], client[proc[a].client].pending \cup {id})]
            /\ proc' = [proc EXCEPT ![a] = Drawing(proc[a], n, "sendInitialize")]
  BY <1>1, <1>2, Zenon DEF RegisterInitialize, Frame, serverVars, Drawing, Pend, IInv, MiscInv
<1>3. ~HasRequest(proc[a]) /\ proc[a].phase \notin Finished /\ ~Waits(a)
  BY <1>0, Zenon DEF HasRequest, Finished, Waits
<1>4. /\ UNCHANGED <<epoch, work, worker>> /\ MiscInv' /\ toServer' \in Seq(EnvelopeType)
  BY <1>0, FrameKeeps
<1>5. CASE Fail(a) /\ client' = client
  BY <1>3, <1>4, <1>5, GivesQuietly
<1>6. CASE /\ client' = [client EXCEPT ![proc[a].client] =
                             Pend(client[proc[a].client], client[proc[a].client].pending \cup {id})]
           /\ proc' = [proc EXCEPT ![a] = Drawing(proc[a], n, "sendInitialize")]
  <2>1. /\ proc[a] \in TaskType /\ proc[a].drawn \in Nat /\ proc[a].client \in Clients
        /\ (a \in Callers => proc[a].reply = "none") /\ ClientInv
    BY <1>3, NoRequest, TaskFields, Zenon DEF IInv
  <2>2. PICK c \in Clients : c = proc[a].client
    BY <2>1
  <2>3. n \in Nat /\ proc[a].drawn <= n
    BY <1>1, <2>1, SMT
  <2>4. PICK r : r = Drawing(proc[a], n, "sendInitialize")
    OBVIOUS
  <2>5. r \in TaskType /\ r.phase = "sendInitialize" /\ r.drawn = n /\ r.reply = proc[a].reply
    <3>1. "sendInitialize" \in Phases
      BY Zenon DEF Phases, CallerPhase
    <3>2. /\ Drawing(proc[a], n, "sendInitialize") \in TaskType
          /\ Drawing(proc[a], n, "sendInitialize").phase = "sendInitialize"
          /\ Drawing(proc[a], n, "sendInitialize").drawn = n
          /\ Drawing(proc[a], n, "sendInitialize").reply = proc[a].reply
      BY <2>1, <2>3, <3>1, DrawingTask
    <3> QED
      BY <2>4, <3>2, Zenon
  <2>6. Fits(a, r) /\ ~HasRequest(r)
    BY <2>1, <2>5, Zenon DEF Fits, InKind, HasRequest, CallerPhase, RecoveryPhase, OpenerPhase
  <2>7. PICK ids : ids = client[c].pending \cup {id}
    OBVIOUS
  <2>8. id \in RequestId /\ id.method = "initialize"
    BY <1>2, <2>3, IdType
  <2>9. ids \in SUBSET RequestId /\ IsFiniteSet(ids)
    BY <2>1, <2>7, <2>8, ClientFields, FS_AddElement
  <2>10. ClientInv' /\ SameRequests
    <3>1. client' = [client EXCEPT ![c] = Pend(client[c], ids)]
      BY <1>6, <2>2, <2>7
    <3>2. /\ ClientInv'
          /\ \A b : Requests(c, b)' = RequestsOf(b, ids)
          /\ \A b : \A d \in Clients : d # c => Requests(d, b)' = Requests(d, b)
      BY <2>1, <2>9, <3>1, PendStep
    <3>3. \A b : RequestsOf(b, ids) = Requests(c, b)
      BY <2>7, <2>8, Zenon DEF Requests, RequestsOf
    <3> QED
      BY <3>2, <3>3, Zenon DEF SameRequests
  <2>11. /\ proc' = [proc EXCEPT ![a] = r] /\ proc[a].phase # "aborted"
         /\ proc[a].drawn <= r.drawn
    BY <1>3, <1>6, <2>3, <2>4, <2>5, Zenon DEF Finished
  <2> QED
    BY <1>3, <1>4, <2>5, <2>6, <2>10, <2>11, QuietStep
<1> QED
  BY <1>0, <1>5, <1>6

\* What is sent
LEMMA EnvelopeFits ==
    ASSUME NEW c \in Clients, NEW id \in RequestId
    PROVE  Envelope(c, id) \in EnvelopeType /\ Envelope(c, id).client = c /\ Envelope(c, id).id = id
           /\ Envelope(c, id).type = id.method
<1>1. id.method \in {"initialize", "request"}
  BY Zenon DEF RequestId
<1>2. Envelope(c, id) \in [type : {"initialize", "request"}, client : Clients, id : RequestId]
  BY <1>1, Zenon DEF Envelope
<1>3. Envelope(c, id).client = c /\ Envelope(c, id).id = id /\ Envelope(c, id).type = id.method
  BY SMT DEF Envelope
<1> QED
  BY <1>2, <1>3, Zenon DEF EnvelopeType

LEMMA SendInitializeKeeps ==
    ASSUME IInv, NEW a \in Initializers, SendInitialize(a) PROVE IInv'
<1>0. /\ proc[a].phase = "sendInitialize" /\ client' = client /\ Frame
      /\ \/ Fail(a) /\ toServer' = toServer
         \/ /\ Go(a, AfterInitialize(a))
            /\ toServer' = Append(toServer, Envelope(proc[a].client, IdOf(a, "initialize")))
  BY Zenon DEF SendInitialize, Frame, serverVars, IInv, MiscInv
<1>1. ~HasRequest(proc[a]) /\ proc[a].phase \notin Finished /\ ~Waits(a)
  BY <1>0, Zenon DEF HasRequest, Finished, Waits
<1>2. /\ UNCHANGED <<epoch, client, work, worker>> /\ MiscInv' /\ toServer \in Seq(EnvelopeType)
  BY <1>0, FrameKeeps
<1>3. CASE Fail(a) /\ toServer' = toServer
  BY <1>1, <1>2, <1>3, GivesQuietly
<1>4. CASE /\ Go(a, AfterInitialize(a))
           /\ toServer' = Append(toServer, Envelope(proc[a].client, IdOf(a, "initialize")))
  <2>1. proc[a] \in TaskType /\ proc[a].drawn \in Nat /\ proc[a].client \in Clients
    BY <1>1, NoRequest, TaskFields
  <2>2. IdOf(a, "initialize") \in RequestId
    BY <2>1, IdType DEF IdOf
  <2>3. Envelope(proc[a].client, IdOf(a, "initialize")) \in EnvelopeType
    BY <2>1, <2>2, EnvelopeFits
  <2>4. toServer' \in Seq(EnvelopeType)
    BY <1>2, <1>4, <2>3, AppendProperties
  <2>5. PICK p \in {"wait", "open", "waitInitialize"} : p = AfterInitialize(a) /\ InKind(a, p)
    BY Kinds, Zenon DEF AfterInitialize, InKind, CallerPhase, RecoveryPhase, OpenerPhase
  <2>6. p \in Phases /\ p \notin {"send", "await"}
    BY Zenon DEF Phases, CallerPhase, RecoveryPhase, OpenerPhase
  <2>7. Go(a, p)
    BY <1>4, <2>5
  <2> QED
    BY <1>0, <1>1, <2>4, <2>5, <2>6, <2>7, GoesOn
<1> QED
  BY <1>0, <1>3, <1>4

\* A change of the pending map of c that leaves the requests of b in it
LEMMA OthersRequests ==
    ASSUME NEW b, NEW c \in Clients, NEW ids, RequestsOf(b, ids) = Requests(c, b),
           Requests(c, b)' = RequestsOf(b, ids),
           \A d \in Clients : d # c => Requests(d, b)' = Requests(d, b)
    PROVE  \A d \in Clients : Requests(d, b)' = Requests(d, b)
OBVIOUS

LEMMA RegisterRequestKeeps ==
    ASSUME IInv, NEW a \in Callers, RegisterRequest(a) PROVE IInv'
<1>1. PICK n : n = proc[a].drawn + 1
  OBVIOUS
<1>2. PICK id : id = [owner |-> a, method |-> "request", n |-> n]
  OBVIOUS
<1>0. /\ proc[a].phase = "register" /\ toServer' = toServer /\ Frame
      /\ \/ Fail(a) /\ client' = client
         \/ /\ client' = [client EXCEPT ![proc[a].client] =
                             Pend(client[proc[a].client], client[proc[a].client].pending \cup {id})]
            /\ proc' = [proc EXCEPT ![a] = Sending(proc[a], n, epoch)]
            /\ Open
  <2>1. proc[a].phase = "register" /\ toServer' = toServer /\ Frame
    BY Zenon DEF RegisterRequest, Frame, serverVars, IInv, MiscInv
  <2>2. \/ Fail(a) /\ client' = client
        \/ /\ client' = [client EXCEPT ![proc[a].client].pending =
                             client[proc[a].client].pending \cup {id}]
           /\ proc' = [proc EXCEPT ![a] = Sending(proc[a], n, epoch)]
           /\ Open
    BY <1>1, <1>2, Zenon DEF RegisterRequest, Sending
  <2> QED
    BY <2>1, <2>2, Zenon DEF Pend
<1>3. /\ a \in Initializers /\ ~HasRequest(proc[a]) /\ proc[a].phase \notin Finished /\ ~Waits(a)
      /\ proc[a].phase # "aborted"
  BY <1>0, Kinds, Zenon DEF HasRequest, Finished, Waits
<1>4. /\ UNCHANGED <<epoch, work, worker>> /\ MiscInv' /\ toServer' \in Seq(EnvelopeType)
  BY <1>0, FrameKeeps
<1>5. CASE Fail(a) /\ client' = client
  BY <1>3, <1>4, <1>5, GivesQuietly
<1>6. CASE /\ client' = [client EXCEPT ![proc[a].client] =
                             Pend(client[proc[a].client], client[proc[a].client].pending \cup {id})]
           /\ proc' = [proc EXCEPT ![a] = Sending(proc[a], n, epoch)]
           /\ Open
  <2>1. /\ proc[a] \in TaskType /\ proc[a].drawn \in Nat /\ proc[a].client \in Clients
        /\ proc[a].reply = "none"
    BY <1>3, NoRequest, TaskFields
  <2>i. /\ TaskInv /\ WorkerInv /\ RepliedWithConnection /\ AnswerIsDrawn /\ PendingInv
        /\ ClientInv /\ QueueInv /\ MiscInv
    BY DEF IInv
  <2>2. PICK c \in Clients : c = proc[a].client
    BY <2>1
  <2>3. n \in Nat /\ proc[a].drawn <= n /\ ~(n <= proc[a].drawn)
    BY <1>1, <2>1, SMT
  <2>4. PICK r : r = Sending(proc[a], n, epoch)
    OBVIOUS
  <2>5. /\ r \in TaskType /\ r.phase = "send" /\ r.drawn = n /\ r.reply = "none"
        /\ r.client = c /\ r.epoch = epoch
    <3>1. epoch \in 0..MaxEpoch
      BY <2>i DEF MiscInv
    <3>2. /\ Sending(proc[a], n, epoch) \in TaskType
          /\ Sending(proc[a], n, epoch).phase = "send" /\ Sending(proc[a], n, epoch).drawn = n
          /\ Sending(proc[a], n, epoch).reply = proc[a].reply
          /\ Sending(proc[a], n, epoch).client = proc[a].client
          /\ Sending(proc[a], n, epoch).epoch = epoch
      <4>1. PICK t \in TaskType, e \in 0..MaxEpoch : t = proc[a] /\ e = epoch
        BY <2>1, <3>1
      <4>2. /\ Sending(t, n, e) \in TaskType
            /\ Sending(t, n, e).phase = "send" /\ Sending(t, n, e).drawn = n
            /\ Sending(t, n, e).reply = t.reply
            /\ Sending(t, n, e).client = t.client
            /\ Sending(t, n, e).epoch = e
        BY <2>3, SendingTask
      <4>3. Sending(t, n, e) = Sending(proc[a], n, epoch)
        BY <4>1
      <4> QED
        BY <4>1, <4>2, <4>3
    <3> QED
      BY <2>1, <2>2, <2>4, <3>2, Zenon
  <2>6. Fits(a, r) /\ HasRequest(r)
    BY <2>5, Kinds, Zenon DEF Fits, InKind, HasRequest, CallerPhase
  <2>7. PICK ids : ids = client[c].pending \cup {id}
    OBVIOUS
  <2>8. id \in RequestId /\ id.method = "request" /\ id.owner = a /\ id.n = n
    <3>1. id \in RequestId
      BY <1>2, <1>3, <2>3, IdType
    <3> QED
      BY <1>2, <3>1, SMT
  <2>9. ids \in SUBSET RequestId /\ IsFiniteSet(ids)
    BY <2>i, <2>7, <2>8, ClientFields, FS_AddElement
  <2>10. /\ ClientInv'
         /\ \A b : Requests(c, b)' = RequestsOf(b, ids)
         /\ \A b : \A d \in Clients : d # c => Requests(d, b)' = Requests(d, b)
    <3>1. client' = [client EXCEPT ![c] = Pend(client[c], ids)]
      BY <1>6, <2>2, <2>7
    <3> QED
      BY <2>i, <2>9, <3>1, PendStep
  <2>11. \A b \in Callers : b # a => \A d \in Clients : Requests(d, b)' = Requests(d, b)
    <3>1. ASSUME NEW b \in Callers, b # a PROVE RequestsOf(b, ids) = Requests(c, b)
      BY <2>7, <2>8, <3>1, Zenon DEF Requests, RequestsOf
    <3>2. ASSUME NEW b \in Callers, b # a
          PROVE  \A d \in Clients : Requests(d, b)' = Requests(d, b)
      BY <2>10, <3>1, <3>2, OthersRequests
    <3> QED
      BY <3>2
  <2>12. proc' = [proc EXCEPT ![a] = r] /\ proc'[a] = r
    BY <1>6, <2>4, <1>3, <2>i, Zenon DEF TaskInv
  <2>13. IdOf(a, "request")' = id
    BY <1>2, <2>5, <2>12, Zenon DEF IdOf
  <2>14. Waits(a)'
    <3>1. ~(worker.step = "answer" /\ worker.id = id)
      BY <1>3, <2>i, <2>3, <2>8, Zenon DEF AnswerIsDrawn
    <3> QED
      BY <1>4, <2>5, <2>6, <2>12, <2>13, <3>1, Zenon DEF Waits, Held
  <2>15. Awaited(a)'
    <3>1. \A d \in Clients : Requests(d, a) = {}
      BY <1>3, <2>i, Zenon DEF PendingInv, Awaited
    <3>2. RequestsOf(a, ids) = {id}
      <4>1. \A i : i \in client[c].pending /\ i.owner = a /\ i.method = "request" => FALSE
        BY <3>1, Zenon DEF Requests, RequestsOf
      <4> QED
        BY <2>7, <2>8, <4>1, Zenon DEF RequestsOf
    <3>3. Requests(c, a)' = {id} /\ \A d \in Clients : d # c => Requests(d, a)' = {}
      BY <2>10, <3>1, <3>2, Zenon
    <3> QED
      BY <2>5, <2>12, <2>13, <2>14, <3>3, Zenon DEF Awaited
  <2>16. TaskInv' /\ RepliedWithConnection' /\ AnswerIsDrawn' /\ PendingInv'
    BY <1>3, <1>4, <1>6, <2>i, <2>3, <2>5, <2>6, <2>11, <2>12, <2>15, TaskStep
  <2>17. QueueInv' /\ WorkerInv'
    BY <1>4, <2>i, QueueSame, Zenon DEF WorkerInv
  <2> QED
    BY <1>4, <2>10, <2>16, <2>17 DEF IInv
<1> QED
  BY <1>0, <1>5, <1>6

\* A request whose connection is gone has been replied to.
LEMMA SendRequestKeeps ==
    ASSUME IInv, NEW a \in Callers, SendRequest(a) PROVE IInv'
<1>0. /\ proc[a].phase = "send" /\ client' = client /\ Frame
      /\ \/ Fail(a) /\ toServer' = toServer /\ ~OnConnection(a)
         \/ /\ proc' = [proc EXCEPT ![a] = At(proc[a], "await")] /\ OnConnection(a)
            /\ toServer' = Append(toServer, Envelope(proc[a].client, IdOf(a, "request")))
  BY Zenon DEF SendRequest, Go, At, Frame, serverVars, IInv, MiscInv
<1>1. a \in Initializers /\ HasRequest(proc[a]) /\ proc[a].phase \notin Finished
  BY <1>0, Kinds, Zenon DEF HasRequest, Finished
<1>i. /\ TaskInv /\ WorkerInv /\ RepliedWithConnection /\ AnswerIsDrawn /\ PendingInv
      /\ ClientInv /\ QueueInv /\ MiscInv /\ proc[a] \in TaskType
  BY <1>1, Zenon DEF IInv, TaskInv
<1>2. /\ UNCHANGED <<epoch, client, work, worker>> /\ MiscInv' /\ toServer \in Seq(EnvelopeType)
  BY <1>0, FrameKeeps
<1>3. CASE Fail(a) /\ toServer' = toServer /\ ~OnConnection(a)
  <2>1. ~Waits(a)
    BY <1>i, <1>3, Zenon DEF Waits, RepliedWithConnection
  <2> QED
    BY <1>1, <1>2, <1>3, <2>1, GivesQuietly
<1>4. CASE /\ proc' = [proc EXCEPT ![a] = At(proc[a], "await")] /\ OnConnection(a)
           /\ toServer' = Append(toServer, Envelope(proc[a].client, IdOf(a, "request")))
  <2>1. proc[a].drawn \in Nat /\ proc[a].client \in Clients
    BY <1>i, TaskFields
  <2>2. IdOf(a, "request") \in RequestId
    BY <1>1, <2>1, IdType DEF IdOf
  <2>3. Envelope(proc[a].client, IdOf(a, "request")) \in EnvelopeType
    BY <2>1, <2>2, EnvelopeFits
  <2>4. toServer' \in Seq(EnvelopeType)
    BY <1>2, <1>4, <2>3, AppendProperties
  <2>5. PICK r : r = At(proc[a], "await")
    OBVIOUS
  <2>6. /\ r \in TaskType /\ r.phase = "await" /\ r.drawn = proc[a].drawn
        /\ r.reply = proc[a].reply /\ r.client = proc[a].client /\ r.epoch = proc[a].epoch
    <3>1. "await" \in Phases
      BY Zenon DEF Phases, CallerPhase
    <3> QED
      BY <1>i, <2>5, <3>1, AtTask
  <2>7. Fits(a, r) /\ HasRequest(r) /\ proc[a].drawn <= r.drawn
    BY <2>1, <2>6, Kinds, SMT DEF Fits, InKind, HasRequest, CallerPhase
  <2>8. proc' = [proc EXCEPT ![a] = r] /\ proc'[a] = r
    BY <1>1, <1>4, <1>i, <2>5, Zenon DEF TaskInv
  <2>9. Awaited(a)'
    <3>1. Awaited(a)
      BY <1>1, <1>i, Zenon DEF PendingInv, Finished
    <3>2. IdOf(a, "request")' = IdOf(a, "request")
      BY <2>6, <2>8, Zenon DEF IdOf
    <3>3. Waits(a)' <=> Waits(a)
      BY <1>1, <1>2, <2>6, <2>7, <2>8, <3>2, Zenon DEF Waits, Held
    <3>4. \A c \in Clients : Requests(c, a)' = Requests(c, a)
      BY <1>2, ClientsSame
    <3> QED
      BY <2>6, <2>8, <3>1, <3>2, <3>3, <3>4, Zenon DEF Awaited
  <2>10. /\ ClientInv' /\ WorkerInv' /\ QueueInv'
         /\ \A b \in Callers : b # a => \A c \in Clients : Requests(c, b)' = Requests(c, b)
    BY <1>i, <1>2, <2>4, ClientsSame, QueueSame, Zenon DEF WorkerInv
  <2>11. Open /\ r.epoch = epoch
    BY <1>4, <2>6 DEF OnConnection
  <2>12. TaskInv' /\ RepliedWithConnection' /\ AnswerIsDrawn' /\ PendingInv'
    BY <1>1, <1>2, <1>i, <2>6, <2>7, <2>8, <2>9, <2>10, <2>11, TaskStep
  <2> QED
    BY <1>2, <2>10, <2>12 DEF IInv
<1> QED
  BY <1>0, <1>3, <1>4

LEMMA ResolveOutcome ==
    ASSUME IInv, NEW a \in Callers, Resolve(a)
    PROVE  \/ End(a, "done") \/ Fail(a)
           \/ proc' = [proc EXCEPT ![a] = Retrying(proc[a])]
<1>1. a \in Initializers /\ proc[a].reply \in {"ok", "closed", "reinitialized"}
  <2>1. a \in Initializers
    BY Kinds
  <2>2. proc[a].reply \in Reply
    BY <2>1, TaskFields, Zenon DEF IInv, TaskInv
  <2> QED
    BY <2>1, <2>2, Zenon DEF Reply, Resolve
<1>2. CASE proc[a].reply = "ok"
  BY <1>2 DEF Resolve
<1>3. CASE proc[a].reply = "closed"
  BY <1>3 DEF Resolve
<1>4. CASE proc[a].reply = "reinitialized"
  BY <1>4 DEF Resolve, Retrying
<1> QED
  BY <1>1, <1>2, <1>3, <1>4

LEMMA ResolveKeeps == ASSUME IInv, NEW a \in Callers, Resolve(a) PROVE IInv'
<1>0. /\ proc[a].phase = "await" /\ proc[a].reply # "none"
      /\ client' = client /\ toServer' = toServer /\ Frame
  BY Zenon DEF Resolve, Frame, serverVars, IInv, MiscInv
<1>1. \/ End(a, "done") \/ Fail(a)
      \/ proc' = [proc EXCEPT ![a] = Retrying(proc[a])]
  BY ResolveOutcome
<1>2. /\ a \in Initializers /\ proc[a].phase \notin Finished /\ proc[a].phase # "aborted"
      /\ ~Waits(a)
  BY <1>0, Kinds, Zenon DEF Finished, Waits
<1>3. /\ UNCHANGED <<epoch, client, work, worker>> /\ MiscInv' /\ toServer' \in Seq(EnvelopeType)
  BY <1>0, FrameKeeps
<1>4. ClientInv' /\ SameRequests
  BY <1>0, ClientsSame DEF IInv, SameRequests
<1>5. CASE Fail(a)
  BY <1>2, <1>3, <1>5, GivesQuietly
<1>6. CASE End(a, "done")
  <2>1. "done" \in Phases
    BY Zenon DEF Phases, CallerPhase
  <2>2. PICK r \in TaskType : proc' = [proc EXCEPT ![a] = r] /\ r.phase = "done" /\ r.reply = "none"
    BY <1>2, <1>6, <2>1, Ends
  <2>3. Fits(a, r) /\ ~HasRequest(r) /\ r.phase \in Finished
    BY <2>2, Kinds, Zenon DEF Fits, InKind, HasRequest, CallerPhase, Finished
  <2> QED
    BY <1>2, <1>3, <1>4, <2>2, <2>3, QuietStep
<1>7. CASE proc' = [proc EXCEPT ![a] = Retrying(proc[a])]
  <2>1. proc[a] \in TaskType
    BY <1>2, Zenon DEF IInv, TaskInv
  <2>2. PICK r : r = Retrying(proc[a])
    OBVIOUS
  <2>3. r \in TaskType /\ r.phase = "waitRetry" /\ r.drawn = proc[a].drawn /\ r.reply = "none"
    BY <2>1, <2>2, RetryingTask
  <2>4. Fits(a, r) /\ ~HasRequest(r)
    BY <2>3, Kinds, Zenon DEF Fits, InKind, HasRequest, CallerPhase
  <2>5. proc[a].drawn <= r.drawn
    BY <2>1, <2>3, TaskFields, SMT
  <2>6. proc' = [proc EXCEPT ![a] = r]
    BY <1>7, <2>2
  <2> QED
    BY <1>2, <1>3, <1>4, <2>3, <2>4, <2>5, <2>6, QuietStep
<1> QED
  BY <1>1, <1>5, <1>6, <1>7

\* The entry of a request that has timed out is taken out of the map it is in.
LEMMA TimeoutKeeps == ASSUME IInv, NEW a \in Callers, Timeout(a) PROVE IInv'
<1>1. PICK id : id = IdOf(a, "request")
  OBVIOUS
<1>2. /\ proc[a].phase = "await" /\ proc[a].reply = "none" /\ Fail(a)
      /\ client' = [client EXCEPT ![proc[a].client] =
                       Pend(client[proc[a].client], client[proc[a].client].pending \ {id})]
      /\ toServer' = toServer /\ Frame
  BY <1>1, Zenon DEF Timeout, Frame, serverVars, Pend, IInv, MiscInv
<1>3. a \in Initializers /\ proc[a].phase \notin Finished /\ proc[a].phase # "aborted"
  BY <1>2, Kinds, Zenon DEF Finished
<1>i. /\ TaskInv /\ WorkerInv /\ RepliedWithConnection /\ AnswerIsDrawn /\ PendingInv
      /\ ClientInv /\ QueueInv /\ MiscInv /\ proc[a] \in TaskType
  BY <1>3, Zenon DEF IInv, TaskInv
<1>4. /\ UNCHANGED <<epoch, work, worker>> /\ MiscInv' /\ toServer' \in Seq(EnvelopeType)
  BY <1>2, FrameKeeps
<1>5. PICK c \in Clients : c = proc[a].client
  BY <1>i, TaskFields
<1>6. PICK ids : ids = client[c].pending \ {id}
  OBVIOUS
<1>7. ids \in SUBSET RequestId /\ IsFiniteSet(ids)
  BY <1>i, <1>6, ClientFields, FS_Subset
<1>8. /\ ClientInv'
      /\ \A b : Requests(c, b)' = RequestsOf(b, ids)
      /\ \A b : \A d \in Clients : d # c => Requests(d, b)' = Requests(d, b)
  <2>1. client' = [client EXCEPT ![c] = Pend(client[c], ids)]
    BY <1>2, <1>5, <1>6
  <2> QED
    BY <1>i, <1>7, <2>1, PendStep
<1>9. id.owner = a
  BY <1>1, SMT DEF IdOf
<1>10. \A b \in Callers : b # a => \A d \in Clients : Requests(d, b)' = Requests(d, b)
  <2>1. ASSUME NEW b \in Callers, b # a PROVE RequestsOf(b, ids) = Requests(c, b)
    BY <1>6, <1>9, <2>1, Zenon DEF Requests, RequestsOf
  <2>2. ASSUME NEW b \in Callers, b # a
        PROVE  \A d \in Clients : Requests(d, b)' = Requests(d, b)
    BY <1>8, <2>1, <2>2, OthersRequests
  <2> QED
    BY <2>2
<1>11. \A d \in Clients : Requests(d, a)' = {}
  <2>1. Awaited(a)
    BY <1>3, <1>i, Zenon DEF PendingInv
  <2>2. Requests(c, a) \subseteq {id} /\ \A d \in Clients : d # c => Requests(d, a) = {}
    BY <1>1, <1>5, <2>1, SMT DEF Awaited
  <2>3. RequestsOf(a, ids) = {}
    BY <1>6, <2>2, SMT DEF Requests, RequestsOf
  <2> QED
    BY <1>8, <2>2, <2>3, Zenon
<1>12. PICK r \in TaskType : /\ proc' = [proc EXCEPT ![a] = r] /\ r.reply = "none"
                             /\ InKind(a, r.phase) /\ ~HasRequest(r) /\ r.phase \in Finished
  BY <1>2, <1>3, Gives
<1>13. Fits(a, r)
  BY <1>12, Zenon DEF Fits
<1>14. Awaited(a)'
  <2>1. ~Waits(a)'
    BY <1>3, <1>i, <1>12, Zenon DEF Waits, TaskInv
  <2> QED
    BY <1>11, <2>1, Zenon DEF Awaited
<1>15. TaskInv' /\ RepliedWithConnection' /\ AnswerIsDrawn' /\ PendingInv'
  BY <1>3, <1>4, <1>i, <1>10, <1>12, <1>13, <1>14, TaskStep
<1>16. QueueInv' /\ WorkerInv'
  BY <1>4, <1>i, QueueSame, Zenon DEF WorkerInv
<1> QED
  BY <1>4, <1>8, <1>15, <1>16 DEF IInv

LEMMA AbandonKeeps == ASSUME IInv, NEW a \in Callers, Abandon(a) PROVE IInv'
<1>1. /\ End(a, "aborted") /\ client' = client /\ toServer' = toServer /\ Frame
  BY Zenon DEF Abandon, Frame, serverVars, IInv, MiscInv
<1>2. a \in Initializers /\ "aborted" \in Phases
  BY Kinds, Zenon DEF Phases, CallerPhase
<1>3. /\ UNCHANGED <<epoch, client, work, worker>> /\ MiscInv' /\ toServer' \in Seq(EnvelopeType)
  BY <1>1, FrameKeeps
<1>4. ClientInv' /\ SameRequests
  BY <1>1, ClientsSame DEF IInv, SameRequests
<1>5. PICK r \in TaskType : proc' = [proc EXCEPT ![a] = r] /\ r.phase = "aborted" /\ r.reply = "none"
  BY <1>1, <1>2, Ends
<1>6. Fits(a, r) /\ ~HasRequest(r) /\ r.phase \in Finished
  BY <1>5, Kinds, Zenon DEF Fits, InKind, HasRequest, CallerPhase, Finished
<1> QED
  BY <1>2, <1>3, <1>4, <1>5, <1>6, QuietStep

-----------------------------------------------------------------------------
(* Steps that leave the callers alone: of the other tasks, of the worker, of the
   app-server *)

LEMMA CallersSame ==
    ASSUME RepliedWithConnection, AnswerIsDrawn, PendingInv, SameRequests,
           \A b \in Callers : proc'[b] = proc[b],
           worker' = worker \/ (worker.step # "answer" /\ worker'.step # "answer"),
           epoch' = epoch \/ ~Open
    PROVE  RepliedWithConnection' /\ AnswerIsDrawn' /\ PendingInv'
<1>1. RepliedWithConnection'
  <2>1. ASSUME NEW b \in Callers, HasRequest(proc[b]), proc[b].reply = "none" PROVE OnConnection(b)'
    <3>1. OnConnection(b)
      BY <2>1, Zenon DEF RepliedWithConnection
    <3> QED
      BY <3>1, Zenon DEF OnConnection, Open
  <2> QED
    BY <2>1, Zenon DEF RepliedWithConnection, HasRequest
<1>2. AnswerIsDrawn'
  BY Zenon DEF AnswerIsDrawn
<1>3. PendingInv'
  <2>1. ASSUME NEW b \in Callers, proc[b].phase # "aborted" PROVE Awaited(b)'
    <3>1. Awaited(b)
      BY <2>1 DEF PendingInv
    <3>2. Held(b)' <=> Held(b)
      BY Zenon DEF Held, IdOf
    <3>3. \A c \in Clients : Requests(c, b)' = Requests(c, b)
      BY DEF SameRequests
    <3> QED
      BY <3>1, <3>2, <3>3, AwaitedSame
  <2> QED
    BY <2>1, Zenon DEF PendingInv
<1> QED
  BY <1>1, <1>2, <1>3

\* A client is marked: its pending map is left alone.
Mark(k, i, r) == [k EXCEPT !.initialized = i, !.recovering = r]

LEMMA MarkStep ==
    ASSUME ClientInv, NEW c \in Clients, NEW i \in BOOLEAN, NEW r \in BOOLEAN,
           client' = [client EXCEPT ![c] = Mark(client[c], i, r)]
    PROVE  ClientInv' /\ SameRequests
<1>1. PICK k : k = Mark(client[c], i, r)
  OBVIOUS
<1>2. client[c] \in ClientType /\ IsFiniteSet(client[c].pending)
  BY ClientFields
<1>3. Mark(client[c], i, r) \in ClientType
  BY <1>2, Zenon DEF Mark, ClientType
<1>4. Mark(client[c], i, r).pending = client[c].pending
  BY <1>2, Zenon DEF Mark, ClientType
<1>5. k \in ClientType /\ k.pending = client[c].pending /\ IsFiniteSet(k.pending)
  BY <1>1, <1>2, <1>3, <1>4
<1>6. client' = [client EXCEPT ![c] = k]
  BY <1>1
<1>7. /\ ClientInv'
      /\ \A b : Requests(c, b)' = RequestsOf(b, k.pending)
      /\ \A b : \A d \in Clients : d # c => Requests(d, b)' = Requests(d, b)
  BY <1>5, <1>6, ClientStep
<1>8. ASSUME NEW b \in Callers PROVE \A d \in Clients : Requests(d, b)' = Requests(d, b)
  <2>1. RequestsOf(b, k.pending) = Requests(c, b)
    BY <1>5, Zenon DEF Requests
  <2> QED
    BY <1>7, <2>1, OthersRequests
<1> QED
  BY <1>7, <1>8 DEF SameRequests

\* Another task takes a step.
LEMMA OtherStep ==
    ASSUME IInv, UNCHANGED <<epoch, work, worker>>, MiscInv', ClientInv', SameRequests,
           toServer' \in Seq(EnvelopeType),
           NEW a \in Initializers, a \notin Callers, NEW r \in TaskType, InKind(a, r.phase),
           proc' = [proc EXCEPT ![a] = r]
    PROVE  IInv'
<1>1. Fits(a, r)
  BY Zenon DEF Fits
<1> QED
  BY <1>1, QuietStep

LEMMA RecoveryWaitKeeps == ASSUME IInv, NEW t \in RecoveryTasks, RecoveryWait(t) PROVE IInv'
<1>1. /\ client' = client /\ toServer' = toServer /\ Frame
      /\ proc' = [proc EXCEPT ![t] = At(proc[t], "finish")] \/ End(t, "idle")
  BY Zenon DEF RecoveryWait, Go, At, Frame, serverVars, IInv, MiscInv
<1>2. /\ t \in Initializers /\ t \notin Callers /\ proc[t] \in TaskType
      /\ "finish" \in Phases /\ "idle" \in Phases
      /\ InKind(t, "finish") /\ InKind(t, "idle")
  BY Kinds, Zenon DEF Phases, CallerPhase, RecoveryPhase, IInv, TaskInv, InKind
<1>3. /\ UNCHANGED <<epoch, work, worker>> /\ MiscInv' /\ toServer' \in Seq(EnvelopeType)
  BY <1>1, FrameKeeps
<1>4. ClientInv' /\ SameRequests
  BY <1>1, ClientsSame DEF IInv, SameRequests
<1>5. PICK r \in TaskType : proc' = [proc EXCEPT ![t] = r] /\ InKind(t, r.phase)
  <2>1. CASE proc' = [proc EXCEPT ![t] = At(proc[t], "finish")]
    <3>1. At(proc[t], "finish") \in TaskType /\ At(proc[t], "finish").phase = "finish"
      BY <1>2, AtTask
    <3> QED
      BY <1>2, <2>1, <3>1, Zenon
  <2>2. CASE End(t, "idle")
    <3>1. PICK r \in TaskType : proc' = [proc EXCEPT ![t] = r] /\ r.phase = "idle"
      BY <1>2, <2>2, Ends
    <3> QED
      BY <1>2, <3>1
  <2> QED
    BY <1>1, <2>1, <2>2
<1> QED
  BY <1>2, <1>3, <1>4, <1>5, OtherStep

LEMMA RecoveryFinishKeeps == ASSUME IInv, NEW t \in RecoveryTasks, RecoveryFinish(t) PROVE IInv'
<1>1. /\ client' = [client EXCEPT ![proc[t].client].recovering = FALSE] /\ End(t, "idle")
      /\ toServer' = toServer /\ Frame
  BY Zenon DEF RecoveryFinish, Frame, serverVars, IInv, MiscInv
<1>2. /\ t \in Initializers /\ t \notin Callers /\ proc[t] \in TaskType /\ ClientInv
      /\ "idle" \in Phases /\ InKind(t, "idle")
  BY Kinds, Zenon DEF Phases, RecoveryPhase, IInv, TaskInv, InKind
<1>3. /\ UNCHANGED <<epoch, work, worker>> /\ MiscInv' /\ toServer' \in Seq(EnvelopeType)
  BY <1>1, FrameKeeps
<1>4. ClientInv' /\ SameRequests
  <2>1. PICK c \in Clients : c = proc[t].client
    BY <1>2, TaskFields
  <2>2. client[c] \in ClientType
    BY <1>2, ClientFields
  <2>3. PICK i \in BOOLEAN : i = client[c].initialized
    BY <1>2, ClientFields
  <2>4. [client[c] EXCEPT !.recovering = FALSE] = Mark(client[c], i, FALSE)
    BY <2>2, <2>3 DEF Mark, ClientType
  <2>5. client' = [client EXCEPT ![c] = Mark(client[c], i, FALSE)]
    BY <1>1, <2>1, <2>4, Zenon
  <2> QED
    BY <1>2, <2>5, MarkStep
<1>5. PICK r \in TaskType : proc' = [proc EXCEPT ![t] = r] /\ r.phase = "idle"
  BY <1>1, <1>2, Ends
<1> QED
  BY <1>2, <1>3, <1>4, <1>5, OtherStep

LEMMA OpenerEnsureKeeps == ASSUME IInv, OpenerEnsure PROVE IInv'
<1>1. /\ client' = client /\ toServer' = toServer /\ Frame
      /\ \/ End(Opener, "idle")
         \/ \E c \in proc[Opener].left, p \in {"open", "initialize"} :
              proc' = [proc EXCEPT ![Opener] =
                         Looking(proc[Opener], proc[Opener].left \ {c}, c, p)]
  <2>1. client' = client /\ toServer' = toServer /\ Frame
    BY Zenon DEF OpenerEnsure, Frame, serverVars, IInv, MiscInv
  <2>2. ASSUME NEW c \in proc[Opener].left, NEW p,
               p = IF client[c].initialized \/ Initializing(c) THEN "open" ELSE "initialize",
               proc' = [proc EXCEPT ![Opener].left = proc[Opener].left \ {c},
                                    ![Opener].client = c, ![Opener].phase = p]
        PROVE  /\ p \in {"open", "initialize"}
               /\ proc' = [proc EXCEPT ![Opener] =
                             Looking(proc[Opener], proc[Opener].left \ {c}, c, p)]
    BY <2>2, Zenon DEF Looking
  <2> QED
    BY <2>1, <2>2 DEF OpenerEnsure
<1>2. /\ Opener \in Initializers /\ Opener \notin Callers /\ proc[Opener] \in TaskType
      /\ "idle" \in Phases /\ InKind(Opener, "idle")
  BY Kinds, Zenon DEF Phases, OpenerPhase, IInv, TaskInv, InKind
<1>3. /\ UNCHANGED <<epoch, work, worker>> /\ MiscInv' /\ toServer' \in Seq(EnvelopeType)
  BY <1>1, FrameKeeps
<1>4. ClientInv' /\ SameRequests
  BY <1>1, ClientsSame DEF IInv, SameRequests
<1>5. PICK r \in TaskType : proc' = [proc EXCEPT ![Opener] = r] /\ InKind(Opener, r.phase)
  <2>1. CASE End(Opener, "idle")
    <3>1. PICK r \in TaskType : proc' = [proc EXCEPT ![Opener] = r] /\ r.phase = "idle"
      BY <1>2, <2>1, Ends
    <3> QED
      BY <1>2, <3>1
  <2>2. ASSUME NEW c \in proc[Opener].left, NEW p \in {"open", "initialize"},
               proc' = [proc EXCEPT ![Opener] =
                          Looking(proc[Opener], proc[Opener].left \ {c}, c, p)]
        PROVE  \E r \in TaskType : proc' = [proc EXCEPT ![Opener] = r] /\ InKind(Opener, r.phase)
    <3>1. proc[Opener].left \in SUBSET Clients
      BY <1>2, TaskFields
    <3>2. PICK l \in SUBSET Clients : l = proc[Opener].left \ {c}
      BY <3>1
    <3>3. c \in Clients /\ p \in Phases /\ InKind(Opener, p)
      BY <3>1, Kinds, Zenon DEF Phases, OpenerPhase, InKind
    <3>4. Looking(proc[Opener], l, c, p) \in TaskType /\ Looking(proc[Opener], l, c, p).phase = p
      BY <1>2, <3>3, LookingTask
    <3> QED
      BY <2>2, <3>2, <3>3, <3>4, Zenon
  <2> QED
    BY <1>1, <2>1, <2>2
<1> QED
  BY <1>2, <1>3, <1>4, <1>5, OtherStep

\* The steps of the worker and of the app-server move no task.
LEMMA NoTaskMoves ==
    ASSUME IInv, proc' = proc, SameRequests, MiscInv', ClientInv', QueueInv', WorkerInv',
           worker' = worker \/ (worker.step # "answer" /\ worker'.step # "answer"),
           epoch' = epoch
    PROVE  IInv'
<1>1. /\ TaskInv /\ RepliedWithConnection /\ AnswerIsDrawn /\ PendingInv
      /\ \A b \in Callers : proc'[b] = proc[b]
  BY DEF IInv
<1>2. TaskInv'
  BY <1>1, Zenon DEF TaskInv
<1>3. RepliedWithConnection' /\ AnswerIsDrawn' /\ PendingInv'
  BY <1>1, CallersSame
<1> QED
  BY <1>2, <1>3 DEF IInv

\* Nothing of MiscInv changes.
Still == UNCHANGED <<epoch, opened, closing, known, forgets, admitting>>

LEMMA StillKeeps == ASSUME IInv, Still PROVE MiscInv' /\ epoch' = epoch
<1>1. MiscInv /\ closing' \in BOOLEAN
  BY Zenon DEF IInv, MiscInv, Still
<1> QED
  BY <1>1, MiscSame, Zenon DEF Still

LEMMA HandleInitializeResultKeeps == ASSUME IInv, HandleInitializeResult PROVE IInv'
<1>1. /\ worker.step = "ready" /\ worker' = [worker EXCEPT !.step = "replay"]
      /\ client' = [client EXCEPT ![worker.client] = Mark(client[worker.client], TRUE, FALSE)]
      /\ proc' = proc /\ toServer' = toServer /\ work' = work /\ Still
  BY Zenon DEF HandleInitializeResult, Mark, Still, serverVars
<1>i. ClientInv /\ WorkerInv /\ QueueInv
  BY DEF IInv
<1>2. /\ worker \in [step : {"answer", "ready", "replay"}, client : Clients, id : RequestId]
      /\ worker.client \in Clients
  BY <1>1, <1>i, WorkerHolds
<1>3. MiscInv' /\ epoch' = epoch
  BY <1>1, StillKeeps
<1>4. QueueInv'
  BY <1>1, <1>i, <1>3, Zenon DEF QueueInv, Open
<1>5. WorkerInv' /\ worker.step # "answer" /\ worker'.step # "answer"
  <2>1. worker' \in [step : {"answer", "ready", "replay"}, client : Clients, id : RequestId]
    BY <1>1, <1>2, Zenon
  <2>2. worker'.step = "replay"
    BY <1>1, <1>2, Zenon
  <2> QED
    BY <1>1, <2>1, <2>2, Zenon DEF WorkerInv, WorkerState
<1>6. ClientInv' /\ SameRequests
  <2>1. PICK c \in Clients : c = worker.client
    BY <1>2
  <2>2. client' = [client EXCEPT ![c] = Mark(client[c], TRUE, FALSE)]
    BY <1>1, <2>1
  <2> QED
    BY <1>i, <2>2, MarkStep
<1> QED
  BY <1>1, <1>3, <1>4, <1>5, <1>6, NoTaskMoves

\* What is replayed are requests of the pending map.
LEMMA Replayed ==
    ASSUME NEW c \in Clients, NEW ids \in SUBSET RequestId, IsFiniteSet(ids),
           NEW again \in SetToSeqs(ids)
    PROVE  [i \in DOMAIN again |-> Envelope(c, again[i])] \in Seq(EnvelopeType)
<1>1. Cardinality(ids) \in Nat
  BY FS_CardinalityType
<1>2. PICK n \in Nat : n = Cardinality(ids)
  BY <1>1
<1>3. again \in [1..n -> ids]
  BY <1>2, SMT DEF SetToSeqs
<1>4. DOMAIN again = 1..n
  BY <1>3
<1>5. ASSUME NEW i \in 1..n PROVE Envelope(c, again[i]) \in EnvelopeType
  <2>1. again[i] \in RequestId
    BY <1>3, <1>5
  <2> QED
    BY <2>1, EnvelopeFits
<1>6. [i \in DOMAIN again |-> Envelope(c, again[i])] \in [1..n -> EnvelopeType]
  BY <1>4, <1>5, Zenon
<1>7. PICK q : q = [i \in DOMAIN again |-> Envelope(c, again[i])]
  OBVIOUS
<1>8. q \in Seq(EnvelopeType)
  BY <1>6, <1>7, SeqDef
<1> QED
  BY <1>7, <1>8

LEMMA ReplayPendingKeeps == ASSUME IInv, ReplayPending PROVE IInv'
<1>1. /\ worker.step = "replay" /\ worker' = Idle
      /\ client' = client /\ proc' = proc /\ work' = work /\ Still
      /\ \/ toServer' = toServer
         \/ \E again \in SetToSeqs({id \in client[worker.client].pending : id.method = "request"}) :
              toServer' = toServer \o [i \in DOMAIN again |-> Envelope(worker.client, again[i])]
  BY Zenon DEF ReplayPending, Still, serverVars
<1>i. ClientInv /\ WorkerInv /\ QueueInv
  BY DEF IInv
<1>2. PICK c \in Clients : c = worker.client
  BY <1>1, <1>i, WorkerHolds
<1>3. MiscInv' /\ epoch' = epoch
  BY <1>1, StillKeeps
<1>4. toServer' \in Seq(EnvelopeType)
  <2>1. toServer \in Seq(EnvelopeType)
    BY <1>i DEF QueueInv
  <2>2. PICK ids : ids = {id \in client[c].pending : id.method = "request"}
    OBVIOUS
  <2>3. ids \in SUBSET RequestId /\ IsFiniteSet(ids)
    BY <1>i, <2>2, ClientFields, FS_Subset
  <2>4. ASSUME NEW again \in SetToSeqs(ids),
               toServer' = toServer \o [i \in DOMAIN again |-> Envelope(c, again[i])]
        PROVE  toServer' \in Seq(EnvelopeType)
    BY <2>1, <2>3, <2>4, Replayed, ConcatProperties
  <2> QED
    BY <1>1, <1>2, <2>1, <2>2, <2>4
<1>5. QueueInv'
  BY <1>1, <1>i, <1>3, <1>4, QueueSame
<1>6. WorkerInv' /\ worker'.step # "answer"
  BY <1>1 DEF WorkerInv, WorkerState, Idle
<1>7. ClientInv' /\ SameRequests
  BY <1>1, <1>i, ClientsSame DEF SameRequests
<1>8. worker.step # "answer"
  BY <1>1
<1> QED
  BY <1>1, <1>3, <1>5, <1>6, <1>7, <1>8, NoTaskMoves

LEMMA ServerInitializeKeeps == ASSUME IInv, ServerInitialize PROVE IInv'
<1>1. /\ client' = client /\ proc' = proc /\ worker' = worker
      /\ toServer # <<>> /\ toServer' = Tail(toServer) /\ work' = Append(work, Head(toServer))
      /\ known' = [known EXCEPT ![Message.client] = TRUE] /\ Open
      /\ UNCHANGED <<epoch, opened, closing, forgets, admitting>>
  BY Zenon DEF ServerInitialize, Receive, Running, Message
<1>i. ClientInv /\ WorkerInv /\ QueueInv /\ MiscInv
  BY DEF IInv
<1>2. MiscInv'
  BY <1>1, <1>i, Zenon DEF MiscInv
<1>3. QueueInv'
  <2>1. Head(toServer) \in EnvelopeType /\ Tail(toServer) \in Seq(EnvelopeType)
    BY <1>1, <1>i, HeadTailProperties DEF QueueInv
  <2>2. Append(work, Head(toServer)) \in Seq(EnvelopeType \cup PongType)
    BY <1>i, <2>1, AppendProperties DEF QueueInv
  <2> QED
    BY <1>1, <2>1, <2>2 DEF QueueInv, Open
<1>4. ClientInv' /\ SameRequests
  BY <1>1, <1>i, ClientsSame DEF SameRequests
<1>5. WorkerInv'
  BY <1>1, <1>i, Zenon DEF WorkerInv
<1> QED
  BY <1>1, <1>2, <1>3, <1>4, <1>5, NoTaskMoves

LEMMA ServerRequestKeeps == ASSUME IInv, ServerRequest PROVE IInv'
<1>1. /\ client' = client /\ proc' = proc /\ worker' = worker /\ Still /\ Open
      /\ toServer # <<>> /\ toServer' = Tail(toServer)
      /\ work' = work \/ work' = Append(work, Head(toServer))
  BY DEF ServerRequest, Receive, Running, Message, Still
<1>i. ClientInv /\ WorkerInv /\ QueueInv
  BY DEF IInv
<1>2. MiscInv' /\ epoch' = epoch
  BY <1>1, StillKeeps
<1>3. QueueInv'
  <2>1. Head(toServer) \in EnvelopeType /\ Tail(toServer) \in Seq(EnvelopeType)
    BY <1>1, <1>i, HeadTailProperties DEF QueueInv
  <2>2. Append(work, Head(toServer)) \in Seq(EnvelopeType \cup PongType)
    BY <1>i, <2>1, AppendProperties DEF QueueInv
  <2> QED
    BY <1>1, <1>2, <1>i, <2>1, <2>2 DEF QueueInv, Open
<1>4. ClientInv' /\ SameRequests
  BY <1>1, <1>i, ClientsSame DEF SameRequests
<1>5. WorkerInv'
  BY <1>1, <1>i, Zenon DEF WorkerInv
<1> QED
  BY <1>1, <1>2, <1>3, <1>4, <1>5, NoTaskMoves

LEMMA PongUnknownKeeps == ASSUME IInv, NEW c \in Clients, PongUnknown(c) PROVE IInv'
<1>1. /\ client' = client /\ proc' = proc /\ worker' = worker /\ toServer' = toServer /\ Still
      /\ Open /\ work' = Append(work, [type |-> "pong", client |-> c])
  BY Zenon DEF PongUnknown, Still, serverVars
<1>i. ClientInv /\ WorkerInv /\ QueueInv
  BY DEF IInv
<1>2. MiscInv' /\ epoch' = epoch
  BY <1>1, StillKeeps
<1>3. QueueInv'
  <2>1. [type |-> "pong", client |-> c] \in PongType
    BY DEF PongType
  <2>2. Append(work, [type |-> "pong", client |-> c]) \in Seq(EnvelopeType \cup PongType)
    BY <1>i, <2>1, AppendProperties DEF QueueInv
  <2> QED
    BY <1>1, <1>2, <1>i, <2>2 DEF QueueInv, Open
<1>4. ClientInv' /\ SameRequests
  BY <1>1, <1>i, ClientsSame DEF SameRequests
<1>5. WorkerInv'
  BY <1>1, <1>i, Zenon DEF WorkerInv
<1> QED
  BY <1>1, <1>2, <1>3, <1>4, <1>5, NoTaskMoves

\* The steps that change neither tasks nor queues
LEMMA NothingMoves ==
    ASSUME IInv, UNCHANGED <<epoch, client, proc, toServer, work, worker>>, MiscInv'
    PROVE  IInv'
<1>i. ClientInv /\ WorkerInv /\ QueueInv
  BY DEF IInv
<1>1. ClientInv' /\ SameRequests
  BY <1>i, ClientsSame DEF SameRequests
<1>2. QueueInv' /\ WorkerInv'
  BY <1>i, Zenon DEF QueueInv, Open, WorkerInv
<1> QED
  BY <1>1, <1>2, NoTaskMoves

LEMMA ForgetKeeps == ASSUME IInv, NEW c \in Clients, Forget(c) PROVE IInv'
<1>1. /\ UNCHANGED <<epoch, client, proc, toServer, work, worker>>
      /\ UNCHANGED <<opened, closing, admitting>>
      /\ forgets < MaxForgets /\ forgets' = forgets + 1
      /\ known' = [known EXCEPT ![c] = FALSE]
  BY Zenon DEF Forget
<1>2. MiscInv
  BY DEF IInv
<1>3. forgets' \in 0..MaxForgets
  BY <1>1, <1>2, SMT DEF MiscInv
<1>4. MiscInv'
  BY <1>1, <1>2, <1>3, Zenon DEF MiscInv
<1> QED
  BY <1>1, <1>4, NothingMoves

LEMMA ToggleDrainKeeps == ASSUME IInv, ToggleDrain PROVE IInv'
<1>1. /\ UNCHANGED <<epoch, client, proc, toServer, work, worker>>
      /\ UNCHANGED <<opened, closing, known, forgets>> /\ admitting' = ~admitting
  BY Zenon DEF ToggleDrain, serverVars
<1>2. MiscInv'
  BY <1>1, Zenon DEF IInv, MiscInv
<1> QED
  BY <1>1, <1>2, NothingMoves

LEMMA StutterKeeps == ASSUME IInv, UNCHANGED vars PROVE IInv'
<1>1. UNCHANGED <<epoch, client, proc, toServer, work, worker>> /\ Still
  BY Zenon DEF vars, serverVars, Still
<1>2. MiscInv'
  BY <1>1, StillKeeps
<1> QED
  BY <1>1, <1>2, NothingMoves

\* The head of the work queue, and what becomes of the queue
LEMMA Taken ==
    ASSUME IInv, NextItem, epoch' = epoch, toServer' = toServer
    PROVE  /\ QueueInv' /\ worker = Idle
           /\ Item \in EnvelopeType \cup PongType /\ Item.client \in Clients
<1>1. /\ work # <<>> /\ work' = Tail(work) /\ worker = Idle /\ QueueInv
      /\ work \in Seq(EnvelopeType \cup PongType)
  BY Zenon DEF NextItem, IInv, QueueInv
<1>2. Head(work) \in EnvelopeType \cup PongType /\ Tail(work) \in Seq(EnvelopeType \cup PongType)
  BY <1>1, HeadTailProperties
<1>3. Open
  BY <1>1 DEF QueueInv
<1>4. Item.client \in Clients
  <2>1. \A m \in EnvelopeType : m.client \in Clients
    BY Zenon DEF EnvelopeType
  <2>2. \A m \in PongType : m.client \in Clients
    BY Zenon DEF PongType
  <2> QED
    BY <1>2, <2>1, <2>2, Zenon DEF Item
<1> QED
  BY <1>1, <1>2, <1>3, <1>4, Zenon DEF QueueInv, Open, Item

Lost(k) == [k EXCEPT !.recovering = TRUE, !.initialized = FALSE]

LEMMA LostIsMarked == ASSUME NEW k \in ClientType PROVE Lost(k) = Mark(k, FALSE, TRUE)
BY DEF Lost, Mark, ClientType

LEMMA HandlePongKeeps == ASSUME IInv, HandlePong PROVE IInv'
<1>1. /\ NextItem /\ Item.type = "pong" /\ toServer' = toServer /\ worker' = worker /\ Still
      /\ \/ client' = client /\ proc' = proc
         \/ /\ client' = [client EXCEPT ![Item.client] = Lost(client[Item.client])]
            /\ \E t \in RecoveryTasks :
                 proc' = [proc EXCEPT ![t] = Recovering(proc[t], Item.client, epoch)]
  <2>1. NextItem /\ Item.type = "pong" /\ toServer' = toServer /\ worker' = worker /\ Still
    BY Zenon DEF HandlePong, Still, serverVars
  <2>2. CASE ~client[Item.client].recovering
    <3>1. /\ client' = [client EXCEPT ![Item.client].recovering = TRUE,
                                      ![Item.client].initialized = FALSE]
          /\ \E t \in RecoveryTasks :
               proc' = [proc EXCEPT ![t].phase = "reset", ![t].client = Item.client,
                                    ![t].epoch = epoch]
      BY <2>2, Zenon DEF HandlePong
    <3>2. client' = [client EXCEPT ![Item.client] = Lost(client[Item.client])]
      BY <3>1, Zenon DEF Lost
    <3>3. \E t \in RecoveryTasks :
             proc' = [proc EXCEPT ![t] = Recovering(proc[t], Item.client, epoch)]
      <4>1. PICK t \in RecoveryTasks :
               proc' = [proc EXCEPT ![t].phase = "reset", ![t].client = Item.client,
                                    ![t].epoch = epoch]
        BY <3>1
      <4>2. proc' = [proc EXCEPT ![t] = Recovering(proc[t], Item.client, epoch)]
        BY <4>1, Zenon DEF Recovering
      <4> QED
        BY <4>2
    <3> QED
      BY <2>1, <3>2, <3>3, Zenon
  <2>3. CASE client[Item.client].recovering
    BY <2>1, <2>3, Zenon DEF HandlePong
  <2> QED
    BY <2>2, <2>3
<1>i. /\ ClientInv /\ WorkerInv /\ TaskInv /\ MiscInv
      /\ RepliedWithConnection /\ AnswerIsDrawn /\ PendingInv
  BY DEF IInv
<1>2. MiscInv' /\ epoch' = epoch
  BY <1>1, StillKeeps
<1>3. QueueInv' /\ Item.client \in Clients
  BY <1>1, <1>2, Taken
<1>4. PICK c \in Clients : c = Item.client
  BY <1>3
<1>5. WorkerInv'
  BY <1>1, <1>i, Zenon DEF WorkerInv
<1>6. CASE client' = client /\ proc' = proc
  <2>1. ClientInv' /\ SameRequests
    BY <1>6, <1>i, ClientsSame DEF SameRequests
  <2> QED
    BY <1>1, <1>2, <1>3, <1>5, <1>6, <2>1, NoTaskMoves
<1>7. ASSUME NEW t \in RecoveryTasks,
             client' = [client EXCEPT ![c] = Lost(client[c])],
             proc' = [proc EXCEPT ![t] = Recovering(proc[t], c, epoch)]
      PROVE  IInv'
  <2>1. ClientInv' /\ SameRequests
    <3>1. Lost(client[c]) = Mark(client[c], FALSE, TRUE)
      BY <1>i, ClientFields, LostIsMarked
    <3>2. client' = [client EXCEPT ![c] = Mark(client[c], FALSE, TRUE)]
      BY <1>7, <3>1
    <3> QED
      BY <1>i, <3>2, MarkStep
  <2>2. t \in Initializers /\ t \notin Callers /\ proc[t] \in TaskType /\ InKind(t, "reset")
    BY <1>i, Kinds, Zenon DEF TaskInv, InKind, RecoveryPhase
  <2>3. PICK e \in 0..MaxEpoch : e = epoch
    BY <1>i DEF MiscInv
  <2>4. PICK r : r = Recovering(proc[t], c, e)
    OBVIOUS
  <2>5. r \in TaskType /\ r.phase = "reset"
    BY <2>2, <2>4, RecoveringTask
  <2>6. Fits(t, r) /\ proc' = [proc EXCEPT ![t] = r]
    BY <1>7, <2>2, <2>3, <2>4, <2>5, Zenon DEF Fits
  <2>7. TaskInv' /\ \A b \in Callers : proc'[b] = proc[b]
    BY <1>i, <2>2, <2>5, <2>6, Moved, Kinds
  <2>8. RepliedWithConnection' /\ AnswerIsDrawn' /\ PendingInv'
    BY <1>1, <1>2, <1>i, <2>1, <2>7, CallersSame
  <2> QED
    BY <1>2, <1>3, <1>5, <2>1, <2>7, <2>8 DEF IInv
<1> QED
  BY <1>1, <1>4, <1>6, <1>7

LEMMA OpenConnectionKeeps == ASSUME IInv, OpenConnection PROVE IInv'
<1>1. PICK e : e = opened + 1
  OBVIOUS
<1>2. /\ ~Open /\ opened < MaxEpoch /\ opened' = e /\ epoch' = e
      /\ \E bound \in SUBSET (Clients \ {DefaultClient}) :
           proc' = [proc EXCEPT ![Opener] =
                      Opening(e, proc[Opener].drawn, {DefaultClient} \cup bound)]
      /\ UNCHANGED <<closing, client, toServer, work, worker, known, forgets, admitting>>
  BY <1>1, Zenon DEF OpenConnection, Opening, serverVars
<1>i. /\ ClientInv /\ WorkerInv /\ TaskInv /\ QueueInv /\ MiscInv
      /\ RepliedWithConnection /\ AnswerIsDrawn /\ PendingInv
  BY DEF IInv
<1>3. e \in 0..MaxEpoch /\ e # 0
  BY <1>1, <1>2, <1>i, SMT DEF MiscInv
<1>4. MiscInv' /\ QueueInv' /\ WorkerInv'
  BY <1>2, <1>3, <1>i, Zenon DEF MiscInv, QueueInv, WorkerInv, Open
<1>5. ClientInv' /\ SameRequests
  BY <1>2, <1>i, ClientsSame DEF SameRequests
<1>6. PICK left \in SUBSET Clients :
        proc' = [proc EXCEPT ![Opener] = Opening(e, proc[Opener].drawn, left)]
  <2>1. \A bound \in SUBSET (Clients \ {DefaultClient}) :
          {DefaultClient} \cup bound \in SUBSET Clients
    OBVIOUS
  <2> QED
    BY <1>2, <2>1
<1>7. Opener \in Initializers /\ Opener \notin Callers /\ proc[Opener].drawn \in Nat
  BY <1>i, Kinds, TaskFields, Zenon DEF TaskInv
<1>8. PICK r : r = Opening(e, proc[Opener].drawn, left)
  OBVIOUS
<1>9. r \in TaskType /\ r.phase = "open"
  BY <1>3, <1>7, <1>8, OpeningTask
<1>10. Fits(Opener, r) /\ proc' = [proc EXCEPT ![Opener] = r]
  BY <1>6, <1>7, <1>8, <1>9, Kinds, Zenon DEF Fits, InKind, OpenerPhase
<1>11. TaskInv' /\ \A b \in Callers : proc'[b] = proc[b]
  BY <1>i, <1>7, <1>9, <1>10, Moved, Kinds
<1>12. RepliedWithConnection' /\ AnswerIsDrawn' /\ PendingInv'
  BY <1>2, <1>i, <1>5, <1>11, CallersSame
<1> QED
  BY <1>4, <1>5, <1>11, <1>12 DEF IInv

-----------------------------------------------------------------------------
(* Steps that tell callers what has become of their requests *)

\* A caller is told x, and nothing else changes for it; no other task is told.
Told(a, ids) == a \in Callers /\ HasRequest(proc[a]) /\ IdOf(a, "request") \in ids

LEMMA NotifyTasks ==
    ASSUME TaskInv, NEW ids, NEW x \in Reply, NEW n, n = Notify(ids, x)
    PROVE  /\ n \in [Initializers -> TaskType]
           /\ \A a \in Initializers :
                /\ Fits(a, n[a]) /\ n[a].phase = proc[a].phase /\ n[a].client = proc[a].client
                /\ n[a].drawn = proc[a].drawn /\ n[a].epoch = proc[a].epoch
                /\ Told(a, ids) => n[a].reply = x
                /\ ~Told(a, ids) => n[a] = proc[a]
<1>1. \A a \in Initializers : n[a] = IF Told(a, ids) THEN Replied(proc[a], x) ELSE proc[a]
  BY Zenon DEF Notify, Told, HasRequest, Replied
<1>2. ASSUME NEW a \in Initializers
      PROVE  /\ n[a] \in TaskType
             /\ Fits(a, n[a]) /\ n[a].phase = proc[a].phase /\ n[a].client = proc[a].client
             /\ n[a].drawn = proc[a].drawn /\ n[a].epoch = proc[a].epoch
             /\ Told(a, ids) => n[a].reply = x
             /\ ~Told(a, ids) => n[a] = proc[a]
  <2>1. proc[a] \in TaskType /\ Fits(a, proc[a])
    BY DEF TaskInv
  <2>2. CASE Told(a, ids)
    <3>1. n[a] = Replied(proc[a], x)
      BY <1>1, <2>2
    <3>2. /\ Replied(proc[a], x) \in TaskType /\ Replied(proc[a], x).reply = x
          /\ Replied(proc[a], x).phase = proc[a].phase
          /\ Replied(proc[a], x).drawn = proc[a].drawn
          /\ Replied(proc[a], x).client = proc[a].client
          /\ Replied(proc[a], x).epoch = proc[a].epoch
      BY <2>1, RepliedTask
    <3>3. Fits(a, Replied(proc[a], x))
      BY <2>1, <2>2, <3>2, Zenon DEF Fits, Told, HasRequest
    <3> QED
      BY <2>2, <3>1, <3>2, <3>3, Zenon
  <2>3. CASE ~Told(a, ids)
    BY <1>1, <2>1, <2>3, Zenon
  <2> QED
    BY <2>2, <2>3
<1>3. n \in [Initializers -> TaskType]
  <2>1. n = [a \in Initializers |-> n[a]]
    BY Zenon DEF Notify
  <2> QED
    BY <1>2, <2>1, Zenon
<1> QED
  BY <1>2, <1>3

\* Callers are told x, and what they are told for is out of the pending maps; if
\* the connection goes, nobody waits any more.
LEMMA Notified ==
    ASSUME TaskInv, RepliedWithConnection, AnswerIsDrawn, PendingInv,
           NEW ids, NEW x \in Reply \ {"none"}, NEW n, n = Notify(ids, x),
           \A a \in Callers : proc'[a] = n[a],
           \A a \in Callers : HasRequest(proc[a]) /\ ~Told(a, ids) => (Held(a)' <=> Held(a)),
           worker' = worker \/ worker'.step # "answer",
           \A a \in Callers : proc[a].phase # "aborted" /\ ~Told(a, ids) =>
               \A c \in Clients : Requests(c, a)' = Requests(c, a),
           \A a \in Callers : proc[a].phase # "aborted" /\ Told(a, ids) =>
               \A c \in Clients : Requests(c, a)' = {},
           epoch' = epoch \/ \A a \in Callers : ~(HasRequest(n[a]) /\ n[a].reply = "none")
    PROVE  RepliedWithConnection' /\ AnswerIsDrawn' /\ PendingInv'
<1>1. \A a \in Callers :
        /\ n[a].phase = proc[a].phase /\ n[a].drawn = proc[a].drawn
        /\ n[a].epoch = proc[a].epoch
        /\ Told(a, ids) => n[a].reply = x
        /\ ~Told(a, ids) => n[a] = proc[a]
  BY NotifyTasks, Kinds
<1>2. RepliedWithConnection'
  <2>1. ASSUME NEW a \in Callers, HasRequest(n[a]), n[a].reply = "none" PROVE OnConnection(a)'
    <3>1. epoch' = epoch /\ n[a] = proc[a]
      BY <1>1, <2>1
    <3>2. OnConnection(a)
      BY <2>1, <3>1, Zenon DEF RepliedWithConnection
    <3> QED
      BY <3>1, <3>2, Zenon DEF OnConnection, Open
  <2> QED
    BY <2>1, Zenon DEF RepliedWithConnection, HasRequest
<1>3. AnswerIsDrawn'
  <2>1. CASE worker'.step # "answer"
    BY <2>1 DEF AnswerIsDrawn
  <2>2. CASE worker' = worker
    <3>1. \A a \in Callers : proc'[a].phase = proc[a].phase /\ proc'[a].drawn = proc[a].drawn
      BY <1>1
    <3> QED
      BY <2>2, <3>1, Zenon DEF AnswerIsDrawn
  <2> QED
    BY <2>1, <2>2
<1>4. PendingInv'
  <2>1. ASSUME NEW a \in Callers, proc[a].phase # "aborted" PROVE Awaited(a)'
    <3>1. CASE Told(a, ids)
      <4>1. ~Waits(a)' /\ \A c \in Clients : Requests(c, a)' = {}
        BY <1>1, <2>1, <3>1, Zenon DEF Waits
      <4> QED
        BY <4>1, Zenon DEF Awaited
    <3>2. CASE ~Told(a, ids)
      <4>1. proc'[a] = proc[a] /\ Awaited(a)
        BY <1>1, <2>1, <3>2, Zenon DEF PendingInv
      <4>2. \A c \in Clients : Requests(c, a)' = Requests(c, a)
        BY <2>1, <3>2
      <4>3. CASE HasRequest(proc[a])
        <5>1. Held(a)' <=> Held(a)
          BY <3>2, <4>3
        <5> QED
          BY <4>1, <4>2, <5>1, AwaitedSame
      <4>4. CASE ~HasRequest(proc[a])
        <5>1. ~Waits(a) /\ ~Waits(a)'
          BY <4>1, <4>4, Zenon DEF Waits
        <5> QED
          BY <4>1, <4>2, <5>1, NotAwaited
      <4> QED
        BY <4>3, <4>4
    <3> QED
      BY <3>1, <3>2
  <2>2. \A a \in Callers : proc'[a].phase = proc[a].phase
    BY <1>1
  <2> QED
    BY <2>1, <2>2, Zenon DEF PendingInv
<1> QED
  BY <1>2, <1>3, <1>4

\* A caller that is waited for finds its id in the pending maps.
LEMMA WaitsPending ==
    ASSUME IInv, NEW a \in Callers, HasRequest(proc[a]), proc[a].reply = "none", ~Held(a)
    PROVE  /\ proc[a].client \in Clients
           /\ IdOf(a, "request") \in client[proc[a].client].pending
<1>1. proc[a] \in TaskType /\ proc[a].phase # "aborted" /\ Waits(a)
  BY Kinds, Zenon DEF IInv, TaskInv, Waits, HasRequest
<1>2. proc[a].client \in Clients /\ Awaited(a)
  BY <1>1, TaskFields, Zenon DEF IInv, PendingInv
<1>3. IdOf(a, "request") \in Requests(proc[a].client, a)
  BY <1>1, <1>2, SMT DEF Awaited
<1> QED
  BY <1>2, <1>3, Zenon DEF Requests, RequestsOf

\* A request in a pending map is the one its caller waits for.
LEMMA PendingWaits ==
    ASSUME IInv, NEW c \in Clients, NEW id \in client[c].pending, id.method = "request",
           NEW a \in Callers, id.owner = a, proc[a].phase # "aborted"
    PROVE  Waits(a) /\ proc[a].client = c /\ id = IdOf(a, "request")
           /\ \A d \in Clients : d # c => Requests(d, a) = {}
<1>1. id \in Requests(c, a)
  BY Zenon DEF Requests, RequestsOf
<1>2. Awaited(a)
  BY Zenon DEF IInv, PendingInv
<1>3. Waits(a) /\ proc[a].client = c
  BY <1>1, <1>2, SMT DEF Awaited
<1>4. Requests(c, a) = {IdOf(a, "request")} /\ \A d \in Clients : d # c => Requests(d, a) = {}
  BY <1>2, <1>3, SMT DEF Awaited
<1> QED
  BY <1>1, <1>3, <1>4, SMT

LEMMA IdOfOwner == \A a : IdOf(a, "request").owner = a /\ IdOf(a, "request").method = "request"
BY SMT DEF IdOf

LEMMA AnswerKeeps == ASSUME IInv, Answer PROVE IInv'
<1>1. /\ worker.step = "answer" /\ worker' = Idle /\ proc' = Notify({worker.id}, "ok")
      /\ client' = client /\ toServer' = toServer /\ work' = work /\ Still
  BY Zenon DEF Answer, Still, serverVars
<1>i. /\ ClientInv /\ WorkerInv /\ TaskInv /\ QueueInv
      /\ RepliedWithConnection /\ AnswerIsDrawn /\ PendingInv
  BY DEF IInv
<1>2. MiscInv' /\ epoch' = epoch
  BY <1>1, StillKeeps
<1>3. QueueInv' /\ ClientInv' /\ SameRequests
  BY <1>1, <1>2, <1>i, ClientsSame, Zenon DEF SameRequests, QueueInv, Open
<1>4. WorkerInv' /\ worker'.step # "answer"
  BY <1>1 DEF WorkerInv, WorkerState, Idle
<1>5. "ok" \in Reply \ {"none"}
  BY DEF Reply
<1>w. PICK w : w = {worker.id}
  OBVIOUS
<1>6. PICK n : n = Notify(w, "ok")
  OBVIOUS
<1>7. TaskInv'
  <2>1. n \in [Initializers -> TaskType] /\ \A a \in Initializers : Fits(a, n[a])
    BY <1>5, <1>6, <1>i, NotifyTasks
  <2> QED
    BY <1>1, <1>w, <1>6, <2>1, Zenon DEF TaskInv
<1>8. \A a \in Callers : HasRequest(proc[a]) /\ ~Told(a, w) => (Held(a)' <=> Held(a))
  BY <1>4, <1>w, Zenon DEF Told, Held
<1>9. ASSUME NEW a \in Callers, proc[a].phase # "aborted", Told(a, w), NEW c \in Clients
      PROVE  Requests(c, a)' = {}
  <2>1. ~Waits(a) /\ Awaited(a)
    BY <1>1, <1>w, <1>9, <1>i, Zenon DEF Told, Waits, Held, PendingInv
  <2> QED
    BY <1>3, <2>1, Zenon DEF Awaited, SameRequests
<1>10. RepliedWithConnection' /\ AnswerIsDrawn' /\ PendingInv'
  <2>1. \A a \in Callers : proc'[a] = n[a]
    BY <1>1, <1>w, <1>6
  <2>2. \A a \in Callers : \A c \in Clients : Requests(c, a)' = Requests(c, a)
    BY <1>3 DEF SameRequests
  <2> QED
    BY <1>2, <1>4, <1>5, <1>6, <1>8, <1>9, <1>i, <2>1, <2>2, Notified
<1> QED
  BY <1>2, <1>3, <1>4, <1>7, <1>10 DEF IInv

LEMMA ResetKeeps == ASSUME IInv, NEW t \in RecoveryTasks, Reset(t) PROVE IInv'
<1>i. /\ ClientInv /\ WorkerInv /\ TaskInv /\ QueueInv /\ MiscInv
      /\ RepliedWithConnection /\ AnswerIsDrawn /\ PendingInv
  BY DEF IInv
<1>0. t \in Initializers /\ t \notin Callers /\ proc[t] \in TaskType
  BY <1>i, Kinds, Zenon DEF TaskInv
<1>1. PICK c \in Clients : c = proc[t].client
  BY <1>0, TaskFields
<1>2. PICK ids : ids = client[c].pending
  OBVIOUS
<1>3. PICK n : n = Notify(ids, "reinitialized")
  OBVIOUS
<1>4. /\ client' = [client EXCEPT ![c].initialized = FALSE, ![c].pending = {}]
      /\ proc' = [n EXCEPT ![t].phase = "initialize"]
      /\ toServer' = toServer /\ Frame
  <2>1. /\ client' = [client EXCEPT ![proc[t].client].initialized = FALSE,
                                    ![proc[t].client].pending = {}]
        /\ proc' = [Notify(client[proc[t].client].pending, "reinitialized")
                      EXCEPT ![t].phase = "initialize"]
        /\ toServer' = toServer /\ Frame
    BY Zenon DEF Reset, Frame, serverVars, IInv, MiscInv
  <2> QED
    BY <1>1, <1>2, <1>3, <2>1, Zenon
<1>5. /\ UNCHANGED <<epoch, work, worker>> /\ MiscInv' /\ toServer' \in Seq(EnvelopeType)
  BY <1>4, FrameKeeps
<1>6. QueueInv' /\ WorkerInv'
  BY <1>5, <1>i, QueueSame, Zenon DEF WorkerInv
<1>7. /\ ClientInv'
      /\ \A b : Requests(c, b)' = {}
      /\ \A b : \A d \in Clients : d # c => Requests(d, b)' = Requests(d, b)
  <2>1. PICK k : k = [client[c] EXCEPT !.initialized = FALSE, !.pending = {}]
    OBVIOUS
  <2>2. client[c] \in ClientType
    BY <1>i, ClientFields
  <2>3. k \in ClientType
    BY <2>1, <2>2, Zenon DEF ClientType
  <2>4. k.pending = {}
    BY <2>1, <2>2, Zenon DEF ClientType
  <2>5. client' = [client EXCEPT ![c] = k]
    BY <1>4, <2>1, Zenon
  <2>6. IsFiniteSet(k.pending)
    BY <2>4, FS_EmptySet
  <2>7. /\ ClientInv'
        /\ \A b : Requests(c, b)' = RequestsOf(b, k.pending)
        /\ \A b : \A d \in Clients : d # c => Requests(d, b)' = Requests(d, b)
    BY <1>i, <2>3, <2>5, <2>6, ClientStep
  <2>8. \A b : RequestsOf(b, k.pending) = {}
    BY <2>4 DEF RequestsOf
  <2> QED
    BY <2>7, <2>8, Zenon
<1>8. "reinitialized" \in Reply \ {"none"}
  BY DEF Reply
<1>9. /\ n \in [Initializers -> TaskType]
      /\ \A a \in Initializers : Fits(a, n[a]) /\ (~Told(a, ids) => n[a] = proc[a])
  BY <1>3, <1>8, <1>i, NotifyTasks
<1>10. TaskInv' /\ \A a \in Callers : proc'[a] = n[a]
  <2>1. proc' = [n EXCEPT ![t] = At(n[t], "initialize")]
    BY <1>4, Zenon DEF At
  <2>2. n[t] \in TaskType /\ "initialize" \in Phases
    BY <1>0, <1>9, Zenon DEF Phases, CallerPhase
  <2>3. PICK r : r = At(n[t], "initialize")
    OBVIOUS
  <2>4. r \in TaskType /\ r.phase = "initialize"
    BY <2>2, <2>3, AtTask
  <2>5. Fits(t, r)
    BY <1>0, <2>4, Kinds, Zenon DEF Fits, InKind, RecoveryPhase
  <2>6. /\ proc' \in [Initializers -> TaskType] /\ proc'[t] = r
        /\ \A a \in Initializers : a # t => proc'[a] = n[a]
    BY <1>0, <1>9, <2>1, <2>3, <2>4, Zenon
  <2>7. \A a \in Initializers : Fits(a, proc'[a])
    BY <1>9, <2>5, <2>6, Zenon
  <2> QED
    BY <1>0, <2>6, <2>7, Kinds, Zenon DEF TaskInv
<1>11. ASSUME NEW a \in Callers, proc[a].phase # "aborted", Told(a, ids), NEW d \in Clients
       PROVE  Requests(d, a)' = {}
  <2>1. IdOf(a, "request") \in client[c].pending
    BY <1>2, <1>11 DEF Told
  <2>2. \A e \in Clients : e # c => Requests(e, a) = {}
    <3>1. PICK id \in client[c].pending : id = IdOf(a, "request")
      BY <2>1
    <3>2. id.owner = a /\ id.method = "request"
      BY <3>1, IdOfOwner
    <3> QED
      BY <1>11, <3>2, PendingWaits
  <2> QED
    BY <1>7, <2>2, Zenon
<1>12. ASSUME NEW a \in Callers, proc[a].phase # "aborted", ~Told(a, ids), NEW d \in Clients
       PROVE  Requests(d, a)' = Requests(d, a)
  <2>1. Requests(c, a) = {}
    <3>1. ASSUME NEW id \in Requests(c, a) PROVE FALSE
      <4>1. id \in client[c].pending /\ id.method = "request" /\ id.owner = a
        BY <3>1, Zenon DEF Requests, RequestsOf
      <4>2. Waits(a) /\ id = IdOf(a, "request")
        BY <1>12, <4>1, PendingWaits
      <4> QED
        BY <1>2, <1>12, <4>1, <4>2, Zenon DEF Told, Waits
    <3> QED
      BY <3>1
  <2> QED
    BY <1>7, <2>1, Zenon
<1>13. RepliedWithConnection' /\ AnswerIsDrawn' /\ PendingInv'
  <2>1. \A a \in Callers : HasRequest(proc[a]) /\ ~Told(a, ids) => (Held(a)' <=> Held(a))
    <3>1. ASSUME NEW a \in Callers, ~Told(a, ids) PROVE Held(a)' <=> Held(a)
      BY <1>5, <1>9, <1>10, <3>1, Kinds, HeldSame
    <3> QED
      BY <3>1
  <2>2. \A a \in Callers : proc[a].phase # "aborted" /\ ~Told(a, ids) =>
          \A d \in Clients : Requests(d, a)' = Requests(d, a)
    BY <1>12
  <2>3. \A a \in Callers : proc[a].phase # "aborted" /\ Told(a, ids) =>
          \A d \in Clients : Requests(d, a)' = {}
    BY <1>11
  <2>4. epoch' = epoch /\ worker' = worker
    BY <1>5
  <2> QED
    BY <1>3, <1>8, <1>10, <1>i, <2>1, <2>2, <2>3, <2>4, Notified
<1> QED
  BY <1>5, <1>6, <1>7, <1>10, <1>13 DEF IInv

\* When a connection goes, everyone who has a request is told.
LEMMA CleanupKeeps == ASSUME IInv, Cleanup PROVE IInv'
<1>i. /\ ClientInv /\ WorkerInv /\ TaskInv /\ QueueInv /\ MiscInv
      /\ RepliedWithConnection /\ AnswerIsDrawn /\ PendingInv
  BY DEF IInv
<1>1. PICK held : held = IF worker.step = "answer" THEN {worker.id} ELSE {}
  OBVIOUS
<1>2. PICK ids : ids = held \cup UNION {client[c].pending : c \in Clients}
  OBVIOUS
<1>3. PICK n : n = Notify(ids, "closed")
  OBVIOUS
<1>4. /\ epoch' = 0 /\ closing' = FALSE /\ client' = [c \in Clients |-> NewClient]
      /\ toServer' = <<>> /\ work' = <<>> /\ worker' = Idle
      /\ known' = [c \in Clients |-> FALSE] /\ UNCHANGED <<opened, forgets, admitting>>
      /\ proc' = [a \in Initializers |-> IF a \in Callers THEN n[a] ELSE Ending(n[a].drawn)]
  BY <1>1, <1>2, <1>3 DEF Cleanup, Ending
<1>5. MiscInv'
  <2>1. 0 \in 0..MaxEpoch
    BY SMT
  <2> QED
    BY <1>4, <1>i, <2>1, Zenon DEF MiscInv
<1>6. QueueInv'
  BY <1>4 DEF QueueInv
<1>7. WorkerInv' /\ worker'.step # "answer"
  BY <1>4 DEF WorkerInv, WorkerState, Idle
<1>8. ClientInv' /\ \A a : \A c \in Clients : Requests(c, a)' = {}
  <2>1. NewClient \in ClientType /\ NewClient.pending = {}
    BY DEF NewClient, ClientType
  <2>2. client' \in [Clients -> ClientType] /\ \A c \in Clients : client'[c].pending = {}
    BY <1>4, <2>1, Zenon
  <2> QED
    BY <2>2, FS_EmptySet, Zenon DEF ClientInv, Requests, RequestsOf
<1>9. "closed" \in Reply \ {"none"}
  BY DEF Reply
<1>10. /\ n \in [Initializers -> TaskType]
       /\ \A a \in Initializers : /\ Fits(a, n[a]) /\ n[a].phase = proc[a].phase
                                  /\ Told(a, ids) => n[a].reply = "closed"
                                  /\ ~Told(a, ids) => n[a] = proc[a]
  BY <1>3, <1>9, <1>i, NotifyTasks
<1>11. TaskInv' /\ \A a \in Callers : proc'[a] = n[a]
  <2>1. ASSUME NEW a \in Initializers, a \notin Callers
        PROVE  /\ Ending(n[a].drawn) \in TaskType /\ Fits(a, Ending(n[a].drawn))
    <3>1. n[a].drawn \in Nat
      BY <1>10, TaskFields
    <3>2. Ending(n[a].drawn) \in TaskType /\ Ending(n[a].drawn).phase = "idle"
      BY <3>1, EndingTask
    <3> QED
      BY <2>1, <3>2, Kinds, Zenon DEF Fits, InKind, RecoveryPhase, OpenerPhase
  <2>2. ASSUME NEW a \in Initializers PROVE proc'[a] \in TaskType /\ Fits(a, proc'[a])
    BY <1>4, <1>10, <2>1, Zenon
  <2>3. proc' = [a \in Initializers |-> proc'[a]]
    BY <1>4, Zenon
  <2>4. proc' \in [Initializers -> TaskType]
    BY <2>2, <2>3, Zenon
  <2>5. \A a \in Callers : proc'[a] = n[a]
    BY <1>4, Kinds, Zenon
  <2> QED
    BY <2>2, <2>4, <2>5, Zenon DEF TaskInv
<1>12. \A c \in Clients : client[c].pending \subseteq ids
  BY <1>2
<1>13. \A a \in Callers : HasRequest(proc[a]) /\ ~Told(a, ids) => ~Held(a)
  <2>1. worker.step = "answer" => worker.id \in ids
    BY <1>1, <1>2
  <2> QED
    BY <2>1, Zenon DEF Told, Held
<1>14. ASSUME NEW a \in Callers, HasRequest(n[a]), n[a].reply = "none" PROVE FALSE
  <2>1. ~Told(a, ids) /\ n[a] = proc[a]
    BY <1>9, <1>10, <1>14, Kinds, Zenon
  <2>2. ~Held(a)
    BY <1>13, <1>14, <2>1
  <2>3. proc[a].client \in Clients /\ IdOf(a, "request") \in client[proc[a].client].pending
    BY <1>14, <2>1, <2>2, WaitsPending
  <2> QED
    BY <1>12, <1>14, <2>1, <2>3, Zenon DEF Told
<1>15. ASSUME NEW a \in Callers, proc[a].phase # "aborted", ~Told(a, ids), NEW c \in Clients
       PROVE  Requests(c, a) = {}
  <2>1. ASSUME NEW id \in Requests(c, a) PROVE FALSE
    <3>1. id \in client[c].pending /\ id.method = "request" /\ id.owner = a
      BY <2>1, Zenon DEF Requests, RequestsOf
    <3>2. Waits(a) /\ id = IdOf(a, "request")
      BY <1>15, <3>1, PendingWaits
    <3> QED
      BY <1>12, <1>15, <3>1, <3>2, Zenon DEF Told, Waits
  <2> QED
    BY <2>1
<1>16. RepliedWithConnection' /\ AnswerIsDrawn' /\ PendingInv'
  <2>1. \A a \in Callers : HasRequest(proc[a]) /\ ~Told(a, ids) => (Held(a)' <=> Held(a))
    <3>1. \A a \in Callers : ~Held(a)'
      BY <1>7, Zenon DEF Held
    <3> QED
      BY <1>13, <3>1
  <2>2. \A a \in Callers : proc[a].phase # "aborted" /\ ~Told(a, ids) =>
          \A c \in Clients : Requests(c, a)' = Requests(c, a)
    BY <1>8, <1>15
  <2>3. \A a \in Callers : proc[a].phase # "aborted" /\ Told(a, ids) =>
          \A c \in Clients : Requests(c, a)' = {}
    BY <1>8
  <2>4. \A a \in Callers : ~(HasRequest(n[a]) /\ n[a].reply = "none")
    BY <1>14
  <2> QED
    BY <1>3, <1>7, <1>9, <1>11, <1>i, <2>1, <2>2, <2>3, <2>4, Notified
<1> QED
  BY <1>5, <1>6, <1>7, <1>8, <1>11, <1>16 DEF IInv

\* The worker takes the request of a response out of the pending map.
LEMMA HandleResponseKeeps == ASSUME IInv, HandleResponse PROVE IInv'
<1>i. /\ ClientInv /\ WorkerInv /\ TaskInv /\ QueueInv /\ MiscInv
      /\ RepliedWithConnection /\ AnswerIsDrawn /\ PendingInv
  BY DEF IInv
<1>1. /\ NextItem /\ Item.type \in {"request", "initialize"} /\ proc' = proc
      /\ toServer' = toServer /\ Still
      /\ client' = [client EXCEPT ![Item.client].pending = @ \ {Item.id}]
  BY Zenon DEF HandleResponse, Still, serverVars
<1>2. MiscInv' /\ epoch' = epoch
  BY <1>1, StillKeeps
<1>3. QueueInv' /\ Item \in EnvelopeType \cup PongType /\ worker = Idle
  BY <1>1, <1>2, Taken
<1>4. Item \in EnvelopeType
  BY <1>1, <1>3 DEF PongType
<1>5. PICK c \in Clients, id \in RequestId : c = Item.client /\ id = Item.id
  BY <1>4, Zenon DEF EnvelopeType
<1>6. Item.type = id.method
  BY <1>4, <1>5, Zenon DEF EnvelopeType
<1>7. worker' \in IF id \notin client[c].pending THEN {Idle}
                  ELSE IF id.method = "request"
                       THEN {[step |-> "answer", client |-> c, id |-> id]}
                       ELSE {[step |-> "ready", client |-> c, id |-> id], Idle}
  BY <1>5, <1>6 DEF HandleResponse
<1>8. PICK ids : ids = client[c].pending \ {id}
  OBVIOUS
<1>9. /\ ClientInv'
      /\ \A b : Requests(c, b)' = RequestsOf(b, ids)
      /\ \A b : \A d \in Clients : d # c => Requests(d, b)' = Requests(d, b)
  <2>1. client' = [client EXCEPT ![c] = Pend(client[c], ids)]
    <3>1. client' = [client EXCEPT ![c].pending = client[c].pending \ {id}]
      BY <1>1, <1>5, Zenon
    <3> QED
      BY <1>8, <3>1, Zenon DEF Pend
  <2>2. ids \in SUBSET RequestId /\ IsFiniteSet(ids)
    BY <1>i, <1>8, ClientFields, FS_Subset
  <2> QED
    BY <1>i, <2>1, <2>2, PendStep
<1>10. TaskInv' /\ \A b \in Callers : proc'[b] = proc[b]
  BY <1>1, <1>i, Zenon DEF TaskInv
<1>11. worker.step # "answer"
  BY <1>3 DEF Idle
<1>12. \A b \in Callers : ~(id.owner = b /\ id.method = "request" /\ id \in client[c].pending) =>
         \A d \in Clients : Requests(d, b)' = Requests(d, b)
  <2>1. ASSUME NEW b \in Callers,
               ~(id.owner = b /\ id.method = "request" /\ id \in client[c].pending)
        PROVE  \A d \in Clients : Requests(d, b)' = Requests(d, b)
    <3>1. RequestsOf(b, ids) = Requests(c, b)
      BY <1>8, <2>1, Zenon DEF Requests, RequestsOf
    <3> QED
      BY <1>9, <3>1, OthersRequests
  <2> QED
    BY <2>1
<1>13. CASE id \in client[c].pending /\ id.method = "request"
  <2>1. worker' = [step |-> "answer", client |-> c, id |-> id]
    BY <1>7, <1>13
  <2>2. worker'.step = "answer" /\ worker'.id = id
    BY <2>1
  <2>3. WorkerInv'
    <3>1. [step |-> "answer", client |-> c, id |-> id]
            \in [step : {"answer", "ready", "replay"}, client : Clients, id : RequestId]
      OBVIOUS
    <3> QED
      BY <1>13, <2>1, <2>2, <3>1, Zenon DEF WorkerInv, WorkerState
  <2>4. RepliedWithConnection'
    BY <1>2, <1>10, <1>i, Zenon DEF RepliedWithConnection, HasRequest, OnConnection, Open
  <2>5. AnswerIsDrawn'
    <3> SUFFICES ASSUME NEW b \in Callers, id.owner = b, proc[b].phase \notin Finished
                 PROVE  id.n <= proc[b].drawn
      BY <1>10, <2>2, Zenon DEF AnswerIsDrawn
    <3>1. proc[b].phase # "aborted"
      BY Zenon DEF Finished
    <3>2. id = IdOf(b, "request")
      BY <1>13, <3>1, PendingWaits
    <3>3. id.n = proc[b].drawn /\ proc[b].drawn \in Nat
      <4>1. proc[b] \in TaskType
        BY <1>i, Kinds, Zenon DEF TaskInv
      <4> QED
        BY <3>2, <4>1, TaskFields, SMT DEF IdOf
    <3> QED
      BY <3>3, SMT
  <2>6. PendingInv'
    <3>1. ASSUME NEW b \in Callers, proc[b].phase # "aborted" PROVE Awaited(b)'
      <4>0. proc'[b] = proc[b] /\ IdOf(b, "request")' = IdOf(b, "request") /\ Awaited(b)
        BY <1>10, <1>i, <3>1, Zenon DEF IdOf, PendingInv
      <4>1. CASE id.owner = b
        <5>1. /\ id = IdOf(b, "request") /\ Requests(c, b) = {id}
              /\ \A d \in Clients : d # c => Requests(d, b) = {}
          <6>1. PICK i \in client[c].pending : i = id
            BY <1>13
          <6>2. i.method = "request" /\ i.owner = b
            BY <1>13, <4>1, <6>1
          <6>3. i = IdOf(b, "request")
            BY <3>1, <6>2, PendingWaits
          <6>4. Waits(b) /\ proc[b].client = c
            BY <3>1, <6>2, PendingWaits
          <6>5. /\ Requests(c, b) = {IdOf(b, "request")}
                /\ \A d \in Clients : d # c => Requests(d, b) = {}
            BY <4>0, <6>4, SMT DEF Awaited
          <6> QED
            BY <6>1, <6>3, <6>5
        <5>2. ~Waits(b)'
          BY <2>2, <4>0, <5>1, Zenon DEF Waits, Held
        <5>3. RequestsOf(b, ids) = {}
          BY <1>8, <5>1, SMT DEF Requests, RequestsOf
        <5>4. \A d \in Clients : Requests(d, b)' = {}
          BY <1>9, <5>1, <5>3
        <5> QED
          BY <5>2, <5>4, Zenon DEF Awaited
      <4>2. CASE id.owner # b
        <5>1. Held(b)' <=> Held(b)
          BY <1>11, <2>2, <4>0, <4>2, IdOfOwner, Zenon DEF Held
        <5>2. \A d \in Clients : Requests(d, b)' = Requests(d, b)
          BY <1>12, <4>2
        <5> QED
          BY <4>0, <5>1, <5>2, AwaitedSame
      <4> QED
        BY <4>1, <4>2
    <3> QED
      BY <1>10, <3>1, Zenon DEF PendingInv
  <2> QED
    BY <1>2, <1>3, <1>9, <1>10, <2>3, <2>4, <2>5, <2>6 DEF IInv
<1>14. CASE ~(id \in client[c].pending /\ id.method = "request")
  <2>1. worker' \in {[step |-> "ready", client |-> c, id |-> id], Idle}
    BY <1>7, <1>14
  <2>2. WorkerInv' /\ worker'.step # "answer"
    <3>1. [step |-> "ready", client |-> c, id |-> id]
            \in [step : {"answer", "ready", "replay"}, client : Clients, id : RequestId]
      OBVIOUS
    <3>2. [step |-> "ready", client |-> c, id |-> id].step # "answer" /\ Idle.step # "answer"
      BY DEF Idle
    <3>3. CASE worker' = Idle
      BY <3>2, <3>3, Zenon DEF WorkerInv, WorkerState
    <3>4. CASE worker' = [step |-> "ready", client |-> c, id |-> id]
      BY <3>1, <3>2, <3>4, Zenon DEF WorkerInv, WorkerState
    <3> QED
      BY <2>1, <3>3, <3>4
  <2>3. SameRequests
    BY <1>12, <1>14 DEF SameRequests
  <2> QED
    BY <1>1, <1>2, <1>3, <1>9, <1>11, <2>2, <2>3, NoTaskMoves
<1> QED
  BY <1>13, <1>14

-----------------------------------------------------------------------------
LEMMA NextKeeps == ASSUME IInv, [Next]_vars PROVE IInv'
<1>1. ASSUME NEW a \in Callers, CallerNext(a) PROVE IInv'
  <2>1. a \in Initializers
    BY Kinds
  <2> QED
    BY <1>1, <2>1, BeginKeeps, WaitInitializedKeeps, EnsureReadyKeeps, EnsureInitializedKeeps,
       RegisterInitializeKeeps, SendInitializeKeeps, RegisterRequestKeeps, SendRequestKeeps,
       ResolveKeeps, TimeoutKeeps
    DEF CallerNext
<1>2. ASSUME NEW t \in RecoveryTasks, RecoveryNext(t) PROVE IInv'
  <2>1. t \in Initializers
    BY Kinds
  <2> QED
    BY <1>2, <2>1, ResetKeeps, RegisterInitializeKeeps, SendInitializeKeeps, RecoveryWaitKeeps,
       RecoveryFinishKeeps
    DEF RecoveryNext
<1>3. ASSUME WorkerNext PROVE IInv'
  BY <1>3, HandleResponseKeeps, AnswerKeeps, HandleInitializeResultKeeps, ReplayPendingKeeps,
     HandlePongKeeps
  DEF WorkerNext
<1>4. ASSUME OpenerNext PROVE IInv'
  BY <1>4, Kinds, OpenerEnsureKeeps, RegisterInitializeKeeps, SendInitializeKeeps, CleanupKeeps
  DEF OpenerNext, OpenerRefused
<1>5. ASSUME Disconnect \/ CloseRequested \/ InitializeTimeout PROVE IInv'
  BY <1>5, CleanupKeeps DEF Disconnect, CloseRequested, InitializeTimeout
<1>6. ASSUME ServerNext PROVE IInv'
  BY <1>6, ServerInitializeKeeps, ServerRequestKeeps DEF ServerNext
<1>7. ASSUME NEW a \in Callers, Abandon(a) PROVE IInv'
  BY <1>7, AbandonKeeps
<1>8. ASSUME NEW c \in Clients, PongUnknown(c) \/ Forget(c) PROVE IInv'
  BY <1>8, PongUnknownKeeps, ForgetKeeps
<1> QED
  BY <1>1, <1>2, <1>3, <1>4, <1>5, <1>6, <1>7, <1>8, OpenConnectionKeeps, ToggleDrainKeeps,
     StutterKeeps, Zenon
  DEF Next

\* The pending maps and the queues are what the tasks and the worker take them to
\* be, whatever is lost, forgotten, aborted or closed.
THEOREM InvCorrect == Spec => []IInv
<1>1. Init => IInv
  BY InitInv
<1>2. IInv /\ [Next]_vars => IInv'
  BY NextKeeps
<1> QED
  BY <1>1, <1>2, PTL DEF Spec

\* A request is in its pending map exactly while its caller is to be woken, or the
\* worker holds it to do so: no entry, with its lifecycle permit, is left behind
\* by a timeout, a reset, a retry or a lost connection, and no caller waits for a
\* reply that nobody can give it any more.
THEOREM SessionCorrect == Spec => []SessionInv
<1>1. IInv => SessionInv
  BY InvCorrectParts
<1> QED
  BY <1>1, InvCorrect, PTL

-----------------------------------------------------------------------------
(* The owner of a recovery *)

\* Without drains nothing stops a recovery before its connection does.
RecoveryInv ==
    /\ admitting
    /\ \A t \in RecoveryTasks : proc[t].phase # "idle" => OnConnection(t)
    /\ RecoveryHasOwner

\* One task moves.
Moves(a) == \E r : proc' = [proc EXCEPT ![a] = r]

LEMMA Movement ==
    ASSUME NEW a
    PROVE  /\ \A p : Go(a, p) => Moves(a)
           /\ \A p : End(a, p) => Moves(a)
           /\ Fail(a) => Moves(a)
<1>1. ASSUME NEW p, Go(a, p) PROVE Moves(a)
  BY <1>1, Zenon DEF Go, Moves
<1>2. ASSUME NEW p, End(a, p) PROVE Moves(a)
  BY <1>2, Zenon DEF End, Moves
<1> QED
  BY <1>1, <1>2, Zenon DEF Fail

\* Clients keep their marks, whatever is pending.
Marked == \A c \in Clients : client'[c].recovering = client[c].recovering

LEMMA PendingMarked ==
    ASSUME ClientInv, NEW d \in Clients, NEW ids,
           client' = [client EXCEPT ![d].pending = ids]
    PROVE  Marked
<1>1. ASSUME NEW c \in Clients PROVE client'[c].recovering = client[c].recovering
  <2>1. client[c] \in ClientType /\ client \in [Clients -> ClientType]
    BY Zenon DEF ClientInv
  <2>2. CASE c = d
    <3>1. client'[c] = [client[c] EXCEPT !.pending = ids]
      BY <2>1, <2>2, Zenon
    <3> QED
      BY <2>1, <3>1, Zenon DEF ClientType
  <2>3. CASE c # d
    BY <2>1, <2>3, Zenon
  <2> QED
    BY <2>2, <2>3
<1> QED
  BY <1>1 DEF Marked

Same == UNCHANGED <<epoch, closing, admitting>>

\* What every step of a caller and of the opener does
LEMMA SendersRecovery ==
    ASSUME IInv, NEW a \in Initializers, RegisterInitialize(a) \/ SendInitialize(a)
    PROVE  Moves(a) /\ Same /\ Marked
<1>1. Same
  BY Zenon DEF RegisterInitialize, SendInitialize, Same
<1>2. ClientInv /\ proc[a] \in TaskType /\ proc[a].client \in Clients
  BY TaskFields, Zenon DEF IInv, TaskInv
<1>3. CASE RegisterInitialize(a)
  <2>1. PICK n : n = proc[a].drawn + 1
    OBVIOUS
  <2>2. PICK id : id = [owner |-> a, method |-> "initialize", n |-> n]
    OBVIOUS
  <2>3. \/ Fail(a) /\ client' = client
        \/ /\ client' = [client EXCEPT ![proc[a].client].pending =
                           client[proc[a].client].pending \cup {id}]
           /\ proc' = [proc EXCEPT ![a] = Drawing(proc[a], n, "sendInitialize")]
    BY <1>3, <2>1, <2>2, Zenon DEF RegisterInitialize, Drawing
  <2>4. Moves(a)
    BY <2>3, Movement, Zenon DEF Moves
  <2>5. Marked
    BY <1>2, <2>3, PendingMarked, Zenon DEF Marked
  <2> QED
    BY <1>1, <2>4, <2>5
<1>4. CASE SendInitialize(a)
  <2>1. client' = client /\ (Fail(a) \/ Go(a, AfterInitialize(a)))
    BY <1>4, Zenon DEF SendInitialize
  <2> QED
    BY <1>1, <2>1, Movement, Zenon DEF Marked
<1> QED
  BY <1>3, <1>4

LEMMA CallersRecovery ==
    ASSUME IInv, NEW a \in Callers, CallerNext(a) \/ Abandon(a)
    PROVE  Moves(a) /\ Same /\ Marked
<1>0. a \in Initializers /\ ClientInv /\ proc[a] \in TaskType /\ proc[a].client \in Clients
  BY Kinds, TaskFields, Zenon DEF IInv, TaskInv
<1>1. CASE RegisterInitialize(a) \/ SendInitialize(a)
  BY <1>0, <1>1, SendersRecovery
<1>2. ASSUME Begin(a) \/ WaitInitialized(a) \/ EnsureReady(a) \/ EnsureInitialized(a)
             \/ SendRequest(a) \/ Resolve(a) \/ Abandon(a)
      PROVE  Same /\ Marked
  BY <1>2, Zenon DEF Begin, WaitInitialized, EnsureReady, EnsureInitialized, SendRequest, Resolve,
     Abandon, Same, Marked
<1>3. ASSUME Begin(a) PROVE Moves(a)
  BY <1>3, Movement, Zenon DEF Begin, Moves
<1>4. ASSUME WaitInitialized(a) PROVE Moves(a)
  BY <1>4, Movement, Zenon DEF WaitInitialized
<1>5. ASSUME EnsureReady(a) PROVE Moves(a)
  BY <1>5, Movement, Zenon DEF EnsureReady, Moves
<1>6. ASSUME EnsureInitialized(a) \/ SendRequest(a) \/ Abandon(a) PROVE Moves(a)
  BY <1>6, Movement, Zenon DEF EnsureInitialized, SendRequest, Abandon
<1>7. ASSUME Resolve(a) PROVE Moves(a)
  BY <1>7, ResolveOutcome, Movement, Zenon DEF Moves
<1>8. ASSUME RegisterRequest(a) PROVE Moves(a) /\ Same /\ Marked
  <2>1. PICK n : n = proc[a].drawn + 1
    OBVIOUS
  <2>2. PICK id : id = [owner |-> a, method |-> "request", n |-> n]
    OBVIOUS
  <2>3. \/ Fail(a) /\ client' = client
        \/ /\ client' = [client EXCEPT ![proc[a].client].pending =
                           client[proc[a].client].pending \cup {id}]
           /\ proc' = [proc EXCEPT ![a] = Sending(proc[a], n, epoch)]
    BY <1>8, <2>1, <2>2, Zenon DEF RegisterRequest, Sending
  <2>4. Moves(a)
    BY <2>3, Movement, Zenon DEF Moves
  <2>5. Marked
    BY <1>0, <2>3, PendingMarked, Zenon DEF Marked
  <2>6. Same
    BY <1>8, Zenon DEF RegisterRequest, Same
  <2> QED
    BY <2>4, <2>5, <2>6
<1>9. ASSUME Timeout(a) PROVE Moves(a) /\ Same /\ Marked
  <2>1. /\ Fail(a) /\ Same
        /\ client' = [client EXCEPT ![proc[a].client].pending =
                        client[proc[a].client].pending \ {IdOf(a, "request")}]
    BY <1>9, Zenon DEF Timeout, Same
  <2> QED
    BY <1>0, <2>1, Movement, PendingMarked
<1> QED
  BY <1>1, <1>2, <1>3, <1>4, <1>5, <1>6, <1>7, <1>8, <1>9, Zenon DEF CallerNext

\* Nothing is marked, and the recoveries go on.
LEMMA RecoveriesGoOn ==
    ASSUME RecoveryInv, Same,
           \A c \in Clients : client'[c].recovering => client[c].recovering,
           \A t \in RecoveryTasks : /\ proc'[t].epoch = proc[t].epoch
                                    /\ proc'[t].client = proc[t].client
                                    /\ proc'[t].phase = "idle" <=> proc[t].phase = "idle"
    PROVE  RecoveryInv'
<1>1. admitting'
  BY DEF RecoveryInv, Same
<1>2. ASSUME NEW t \in RecoveryTasks, proc'[t].phase # "idle" PROVE OnConnection(t)'
  <2>1. OnConnection(t)
    BY <1>2, Zenon DEF RecoveryInv
  <2> QED
    BY <2>1, Zenon DEF OnConnection, Open, Same
<1>3. ASSUME NEW c \in Clients, client'[c].recovering
      PROVE  closing' \/ \E t \in RecoveryTasks : proc'[t].phase # "idle" /\ proc'[t].client = c
  <2>1. closing \/ \E t \in RecoveryTasks : proc[t].phase # "idle" /\ proc[t].client = c
    BY <1>3, Zenon DEF RecoveryInv, RecoveryHasOwner
  <2> QED
    BY <2>1, Zenon DEF Same
<1>4. RecoveryHasOwner'
  BY <1>3, Zenon DEF RecoveryHasOwner
<1> QED
  BY <1>1, <1>2, <1>4, Zenon DEF RecoveryInv

LEMMA OthersMove ==
    ASSUME IInv, RecoveryInv, Same, Marked, NEW a \in Initializers, a \notin RecoveryTasks, Moves(a)
    PROVE  RecoveryInv'
<1>1. PICK r : proc' = [proc EXCEPT ![a] = r]
  BY DEF Moves
<1>2. proc \in [Initializers -> TaskType]
  BY DEF IInv, TaskInv
<1>3. \A t \in RecoveryTasks : proc'[t] = proc[t]
  BY <1>1, <1>2, Kinds, Zenon
<1>4. \A c \in Clients : client'[c].recovering => client[c].recovering
  BY DEF Marked
<1> QED
  BY <1>3, <1>4, RecoveriesGoOn

LEMMA TasksRest ==
    ASSUME IInv, RecoveryInv, Same, proc' = proc,
           \A c \in Clients : client'[c].recovering => client[c].recovering
    PROVE  RecoveryInv'
BY RecoveriesGoOn

\* A recovery goes on at p.
LEMMA RecoveryGoes ==
    ASSUME IInv, RecoveryInv, Same, Marked, NEW t \in RecoveryTasks, proc[t].phase # "idle",
           NEW r \in TaskType, proc' = [proc EXCEPT ![t] = r],
           r.phase # "idle", r.client = proc[t].client, r.epoch = proc[t].epoch
    PROVE  RecoveryInv'
<1>1. proc \in [Initializers -> TaskType] /\ t \in Initializers
  BY Kinds DEF IInv, TaskInv
<1>2. proc'[t] = r /\ \A u \in RecoveryTasks : u # t => proc'[u] = proc[u]
  BY <1>1, Kinds, Zenon
<1>3. \A u \in RecoveryTasks : /\ proc'[u].epoch = proc[u].epoch
                               /\ proc'[u].client = proc[u].client
                               /\ proc'[u].phase = "idle" <=> proc[u].phase = "idle"
  BY <1>2
<1>4. \A c \in Clients : client'[c].recovering => client[c].recovering
  BY DEF Marked
<1> QED
  BY <1>3, <1>4, RecoveriesGoOn

LEMMA RecoverySends ==
    ASSUME IInv, RecoveryInv, NEW t \in RecoveryTasks, RegisterInitialize(t) \/ SendInitialize(t)
    PROVE  RecoveryInv'
<1>0. t \in Initializers /\ t \notin Callers /\ t # Opener
  BY Kinds
<1>1. Same /\ Marked
  BY <1>0, SendersRecovery
<1>2. proc[t] \in TaskType /\ proc[t].phase # "idle"
  BY <1>0, Zenon DEF IInv, TaskInv, RegisterInitialize, SendInitialize
<1>3. admitting /\ OnConnection(t)
  BY <1>2 DEF RecoveryInv
<1>4. CASE RegisterInitialize(t)
  <2>1. PICK n : n = proc[t].drawn + 1
    OBVIOUS
  <2>2. proc' = [proc EXCEPT ![t] = Drawing(proc[t], n, "sendInitialize")]
    BY <1>3, <1>4, <2>1, Zenon DEF RegisterInitialize, Drawing
  <2>3. proc[t].drawn \in Nat /\ "sendInitialize" \in Phases
    BY <1>2, TaskFields, Zenon DEF Phases, CallerPhase
  <2>4. n \in Nat
    BY <2>1, <2>3, SMT
  <2>5. PICK r : r = Drawing(proc[t], n, "sendInitialize")
    OBVIOUS
  <2>6. /\ r \in TaskType /\ r.phase # "idle" /\ r.client = proc[t].client
        /\ r.epoch = proc[t].epoch
    BY <1>2, <2>3, <2>4, <2>5, DrawingTask
  <2> QED
    BY <1>1, <1>2, <2>2, <2>5, <2>6, RecoveryGoes
<1>5. CASE SendInitialize(t)
  <2>1. proc' = [proc EXCEPT ![t] = At(proc[t], "waitInitialize")]
    <3>1. Go(t, AfterInitialize(t)) /\ AfterInitialize(t) = "waitInitialize"
      BY <1>0, <1>3, <1>5, Zenon DEF SendInitialize, AfterInitialize
    <3> QED
      BY <3>1, Zenon DEF Go, At
  <2>2. "waitInitialize" \in Phases
    BY Zenon DEF Phases, RecoveryPhase
  <2>3. PICK r : r = At(proc[t], "waitInitialize")
    OBVIOUS
  <2>4. /\ r \in TaskType /\ r.phase # "idle" /\ r.client = proc[t].client
        /\ r.epoch = proc[t].epoch
    BY <1>2, <2>2, <2>3, AtTask
  <2> QED
    BY <1>1, <1>2, <2>1, <2>3, <2>4, RecoveryGoes
<1> QED
  BY <1>4, <1>5

\* A reset wakes callers and goes on.
LEMMA ResetRecovery ==
    ASSUME IInv, RecoveryInv, NEW t \in RecoveryTasks, Reset(t) PROVE RecoveryInv'
<1>0. t \in Initializers /\ t \notin Callers /\ proc[t] \in TaskType /\ TaskInv /\ ClientInv
  BY Kinds, Zenon DEF IInv, TaskInv
<1>1. PICK c \in Clients : c = proc[t].client
  BY <1>0, TaskFields
<1>2. PICK n : n = Notify(client[c].pending, "reinitialized")
  OBVIOUS
<1>3. /\ proc[t].phase = "reset" /\ Same
      /\ client' = [client EXCEPT ![c].initialized = FALSE, ![c].pending = {}]
      /\ proc' = [n EXCEPT ![t].phase = "initialize"]
  BY <1>1, <1>2, Zenon DEF Reset, Same
<1>4. "reinitialized" \in Reply
  BY DEF Reply
<1>5. n \in [Initializers -> TaskType] /\ \A u \in RecoveryTasks : n[u] = proc[u]
  <2>1. \A u \in RecoveryTasks : u \in Initializers /\ ~Told(u, client[c].pending)
    BY Kinds, Zenon DEF Told
  <2> QED
    BY <1>0, <1>2, <1>4, <2>1, NotifyTasks
<1>6. \A u \in RecoveryTasks : /\ proc'[u].epoch = proc[u].epoch
                               /\ proc'[u].client = proc[u].client
                               /\ proc'[u].phase = "idle" <=> proc[u].phase = "idle"
  <2>1. proc' = [n EXCEPT ![t] = At(n[t], "initialize")]
    BY <1>3, Zenon DEF At
  <2>2. n[t] = proc[t] /\ "initialize" \in Phases
    BY <1>5, Zenon DEF Phases, CallerPhase
  <2>3. PICK r : r = At(proc[t], "initialize")
    OBVIOUS
  <2>4. /\ r \in TaskType /\ r.phase = "initialize" /\ r.client = proc[t].client
        /\ r.epoch = proc[t].epoch
    BY <1>0, <2>2, <2>3, AtTask
  <2>5. proc'[t] = r /\ \A u \in RecoveryTasks : u # t => proc'[u] = proc[u]
    BY <1>0, <1>5, <2>1, <2>2, <2>3, Kinds, Zenon
  <2> QED
    BY <1>3, <2>4, <2>5
<1>7. ASSUME NEW d \in Clients, client'[d].recovering PROVE client[d].recovering
  <2>1. client \in [Clients -> ClientType] /\ client[c] \in ClientType
    BY <1>0, Zenon DEF ClientInv
  <2>2. PICK k : k = [client[c] EXCEPT !.initialized = FALSE, !.pending = {}]
    OBVIOUS
  <2>3. client' = [client EXCEPT ![c] = k]
    BY <1>3, <2>2, Zenon
  <2>4. k.recovering = client[c].recovering
    BY <2>1, <2>2, Zenon DEF ClientType
  <2>5. CASE d = c
    BY <1>7, <2>1, <2>3, <2>4, <2>5, Zenon
  <2>6. CASE d # c
    BY <1>7, <2>1, <2>3, <2>6, Zenon
  <2> QED
    BY <2>5, <2>6
<1> QED
  BY <1>3, <1>6, <1>7, RecoveriesGoOn

\* A recovery that does not see its client initialized in time closes the connection.
LEMMA RecoveryWaitRecovery ==
    ASSUME IInv, RecoveryInv, NEW t \in RecoveryTasks, RecoveryWait(t) PROVE RecoveryInv'
<1>0. t \in Initializers /\ t \notin Callers /\ proc[t] \in TaskType /\ TaskInv
  BY Kinds, Zenon DEF IInv, TaskInv
<1>1. /\ proc[t].phase = "waitInitialize" /\ client' = client /\ UNCHANGED <<epoch, admitting>>
      /\ \/ Go(t, "finish") /\ closing' = closing
         \/ End(t, "idle") /\ closing' = TRUE
  BY Zenon DEF RecoveryWait
<1>2. CASE Go(t, "finish") /\ closing' = closing
  <2>1. "finish" \in Phases
    BY Zenon DEF Phases, RecoveryPhase
  <2>2. PICK r : r = At(proc[t], "finish")
    OBVIOUS
  <2>3. /\ r \in TaskType /\ r.phase = "finish" /\ r.client = proc[t].client
        /\ r.epoch = proc[t].epoch
    BY <1>0, <2>1, <2>2, AtTask
  <2>4. proc' = [proc EXCEPT ![t] = r]
    BY <1>2, <2>2, Zenon DEF Go, At
  <2>5. Same /\ Marked
    BY <1>1, <1>2, Zenon DEF Same, Marked
  <2>6. proc[t].phase # "idle" /\ r.phase # "idle"
    BY <1>1, <2>3
  <2> QED
    BY <2>3, <2>4, <2>5, <2>6, RecoveryGoes
<1>3. CASE End(t, "idle") /\ closing' = TRUE
  <2>1. "idle" \in Phases
    BY Zenon DEF Phases, RecoveryPhase
  <2>2. PICK r \in TaskType : proc' = [proc EXCEPT ![t] = r] /\ r.phase = "idle"
    BY <1>0, <1>3, <2>1, Ends
  <2>3. proc'[t] = r /\ \A u \in RecoveryTasks : u # t => proc'[u] = proc[u]
    BY <1>0, <2>2, Kinds, Zenon DEF TaskInv
  <2>4. ASSUME NEW u \in RecoveryTasks, proc'[u].phase # "idle" PROVE OnConnection(u)'
    <3>1. proc'[u] = proc[u]
      BY <2>2, <2>3, <2>4, Zenon
    <3>2. OnConnection(u)
      BY <2>4, <3>1, Zenon DEF RecoveryInv
    <3> QED
      BY <1>1, <3>1, <3>2, Zenon DEF OnConnection, Open
  <2>5. RecoveryHasOwner'
    BY <1>3, Zenon DEF RecoveryHasOwner
  <2> QED
    BY <1>1, <2>4, <2>5, Zenon DEF RecoveryInv
<1> QED
  BY <1>1, <1>2, <1>3

LEMMA RecoveryFinishRecovery ==
    ASSUME IInv, RecoveryInv, NEW t \in RecoveryTasks, RecoveryFinish(t) PROVE RecoveryInv'
<1>0. t \in Initializers /\ t \notin Callers /\ proc[t] \in TaskType /\ TaskInv /\ ClientInv
  BY Kinds, Zenon DEF IInv, TaskInv
<1>1. PICK c \in Clients : c = proc[t].client
  BY <1>0, TaskFields
<1>2. /\ client' = [client EXCEPT ![c].recovering = FALSE] /\ End(t, "idle") /\ Same
  BY <1>1, Zenon DEF RecoveryFinish, Same
<1>3. "idle" \in Phases
  BY Zenon DEF Phases, RecoveryPhase
<1>4. PICK r \in TaskType : proc' = [proc EXCEPT ![t] = r] /\ r.phase = "idle"
  BY <1>0, <1>2, <1>3, Ends
<1>5. proc'[t] = r /\ \A u \in RecoveryTasks : u # t => proc'[u] = proc[u]
  BY <1>0, <1>4, Kinds, Zenon DEF TaskInv
<1>6. ASSUME NEW u \in RecoveryTasks, proc'[u].phase # "idle" PROVE OnConnection(u)'
  <2>1. proc'[u] = proc[u]
    BY <1>4, <1>5, <1>6, Zenon
  <2>2. OnConnection(u)
    BY <1>6, <2>1, Zenon DEF RecoveryInv
  <2> QED
    BY <1>2, <2>1, <2>2, Zenon DEF OnConnection, Open, Same
<1>7. ASSUME NEW d \in Clients, client'[d].recovering
      PROVE  closing' \/ \E u \in RecoveryTasks : proc'[u].phase # "idle" /\ proc'[u].client = d
  <2>1. client \in [Clients -> ClientType] /\ client[c] \in ClientType
    BY <1>0, Zenon DEF ClientInv
  <2>2. d # c
    <3>1. [client[c] EXCEPT !.recovering = FALSE].recovering = FALSE
      BY <2>1, Zenon DEF ClientType
    <3> QED
      BY <1>2, <1>7, <2>1, <3>1, Zenon
  <2>3. client[d].recovering
    BY <1>2, <1>7, <2>1, <2>2, Zenon
  <2>4. closing \/ \E u \in RecoveryTasks : proc[u].phase # "idle" /\ proc[u].client = d
    BY <2>3, Zenon DEF RecoveryInv, RecoveryHasOwner
  <2>5. ASSUME NEW u \in RecoveryTasks, proc[u].phase # "idle", proc[u].client = d
        PROVE  proc'[u].phase # "idle" /\ proc'[u].client = d
    BY <1>1, <1>5, <2>2, <2>5, Zenon
  <2> QED
    BY <1>2, <2>4, <2>5, Zenon DEF Same
<1>8. admitting' /\ RecoveryHasOwner'
  BY <1>2, <1>7, Zenon DEF RecoveryInv, RecoveryHasOwner, Same
<1> QED
  BY <1>6, <1>8, Zenon DEF RecoveryInv

\* A client that is marked gets a recovery, on the open connection.
LEMMA HandlePongRecovery == ASSUME IInv, RecoveryInv, HandlePong PROVE RecoveryInv'
<1>i. ClientInv /\ TaskInv /\ QueueInv /\ MiscInv
  BY DEF IInv
<1>1. NextItem /\ Same /\ toServer' = toServer /\ epoch' = epoch
  BY Zenon DEF HandlePong, Same
<1>2. Open
  BY <1>1, <1>i DEF NextItem, QueueInv
<1>3. PICK c \in Clients : c = Item.client
  BY <1>1, Taken
<1>4. CASE client[c].recovering
  <2>1. client' = client /\ proc' = proc
    BY <1>3, <1>4, Zenon DEF HandlePong
  <2> QED
    BY <1>1, <2>1, TasksRest
<1>5. CASE ~client[c].recovering
  <2>1. PICK k : k = Lost(client[c])
    OBVIOUS
  <2>2. client' = [client EXCEPT ![c] = k]
    <3>1. client' = [client EXCEPT ![c].recovering = TRUE, ![c].initialized = FALSE]
      BY <1>3, <1>5 DEF HandlePong
    <3> QED
      BY <2>1, <3>1, Zenon DEF Lost
  <2>3. PICK t \in RecoveryTasks :
          /\ proc[t].phase = "idle"
          /\ proc' = [proc EXCEPT ![t].phase = "reset", ![t].client = c, ![t].epoch = epoch]
    BY <1>3, <1>5 DEF HandlePong
  <2>4. t \in Initializers /\ proc[t] \in TaskType /\ proc \in [Initializers -> TaskType]
    BY <1>i, Kinds, Zenon DEF TaskInv
  <2>5. PICK e \in 0..MaxEpoch : e = epoch
    BY <1>i DEF MiscInv
  <2>6. PICK r : r = Recovering(proc[t], c, e)
    OBVIOUS
  <2>7. r.phase = "reset" /\ r.client = c /\ r.epoch = e
    BY <2>4, <2>6, RecoveringTask
  <2>8. proc' = [proc EXCEPT ![t] = Recovering(proc[t], c, epoch)]
    BY <2>3, Zenon DEF Recovering
  <2>9. proc'[t] = r /\ \A u \in RecoveryTasks : u # t => proc'[u] = proc[u]
    BY <2>4, <2>5, <2>6, <2>8, Kinds, Zenon
  <2>10. ASSUME NEW u \in RecoveryTasks, proc'[u].phase # "idle" PROVE OnConnection(u)'
    <3>1. CASE u = t
      BY <1>1, <1>2, <2>5, <2>7, <2>9, <3>1, Zenon DEF OnConnection, Open
    <3>2. CASE u # t
      <4>1. proc'[u] = proc[u] /\ OnConnection(u)
        BY <2>9, <2>10, <3>2, Zenon DEF RecoveryInv
      <4> QED
        BY <1>1, <4>1, Zenon DEF OnConnection, Open
    <3> QED
      BY <3>1, <3>2
  <2>11. ASSUME NEW d \in Clients, client'[d].recovering
         PROVE  closing' \/ \E u \in RecoveryTasks : proc'[u].phase # "idle" /\ proc'[u].client = d
    <3>1. CASE d = c
      BY <2>7, <2>9, <3>1, Zenon
    <3>2. CASE d # c
      <4>1. client[d].recovering
        BY <1>i, <2>2, <2>11, <3>2, Zenon DEF ClientInv
      <4>2. closing \/ \E u \in RecoveryTasks : proc[u].phase # "idle" /\ proc[u].client = d
        BY <4>1, Zenon DEF RecoveryInv, RecoveryHasOwner
      <4>3. ASSUME NEW u \in RecoveryTasks, proc[u].phase # "idle", proc[u].client = d
            PROVE  proc'[u].phase # "idle" /\ proc'[u].client = d
        BY <2>3, <2>9, <4>3, Zenon
      <4> QED
        BY <1>1, <4>2, <4>3, Zenon DEF Same
    <3> QED
      BY <3>1, <3>2
  <2>12. admitting' /\ RecoveryHasOwner'
    BY <1>1, <2>11, Zenon DEF RecoveryInv, RecoveryHasOwner, Same
  <2> QED
    BY <2>10, <2>12, Zenon DEF RecoveryInv
<1> QED
  BY <1>4, <1>5

\* A new connection finds no recovery; an old one takes its recoveries along.
LEMMA OpenConnectionRecovery == ASSUME IInv, RecoveryInv, OpenConnection PROVE RecoveryInv'
<1>1. ~Open /\ client' = client /\ closing' = closing /\ admitting' = admitting
  BY Zenon DEF OpenConnection
<1>2. Moves(Opener)
  BY Zenon DEF OpenConnection, Moves
<1>3. \A t \in RecoveryTasks : proc'[t] = proc[t]
  <2>1. PICK r : proc' = [proc EXCEPT ![Opener] = r]
    BY <1>2 DEF Moves
  <2> QED
    BY <2>1, Kinds, Zenon DEF IInv, TaskInv
<1>4. \A t \in RecoveryTasks : proc[t].phase = "idle"
  BY <1>1, Zenon DEF RecoveryInv, OnConnection
<1> QED
  BY <1>1, <1>3, <1>4, Zenon DEF RecoveryInv, RecoveryHasOwner

LEMMA CleanupRecovery == ASSUME IInv, RecoveryInv, Cleanup PROVE RecoveryInv'
<1>1. client' = [c \in Clients |-> NewClient] /\ admitting' = admitting
  BY Zenon DEF Cleanup
<1>2. \A c \in Clients : ~client'[c].recovering
  BY <1>1, SMT DEF NewClient
<1>3. \A t \in RecoveryTasks : proc'[t].phase = "idle"
  <2>1. PICK n :
          proc' = [a \in Initializers |-> IF a \in Callers THEN n[a] ELSE Ending(n[a].drawn)]
    BY DEF Cleanup, Ending
  <2>2. \A d : Ending(d).phase = "idle"
    BY SMT DEF Ending, Task
  <2> QED
    BY <2>1, <2>2, Kinds, Zenon
<1> QED
  BY <1>1, <1>2, <1>3, Zenon DEF RecoveryInv, RecoveryHasOwner

LEMMA WorkerRecovery == ASSUME IInv, RecoveryInv, WorkerNext PROVE RecoveryInv'
<1>i. ClientInv /\ TaskInv /\ WorkerInv
  BY DEF IInv
<1>1. CASE HandleResponse
  <2>1. NextItem /\ Same /\ proc' = proc /\ toServer' = toServer /\ epoch' = epoch
    BY <1>1, Zenon DEF HandleResponse, Same
  <2>2. PICK c \in Clients : c = Item.client
    BY <2>1, Taken
  <2>3. PICK ids : ids = client[c].pending \ {Item.id}
    OBVIOUS
  <2>4. client' = [client EXCEPT ![c].pending = ids]
    BY <1>1, <2>2, <2>3, Zenon DEF HandleResponse
  <2>5. \A d \in Clients : client'[d].recovering => client[d].recovering
    BY <1>i, <2>4, PendingMarked DEF Marked
  <2> QED
    BY <2>1, <2>5, TasksRest
<1>2. CASE Answer
  <2>1. Same /\ client' = client /\ proc' = Notify({worker.id}, "ok")
    BY <1>2, Zenon DEF Answer, Same
  <2>2. PICK w : w = {worker.id}
    OBVIOUS
  <2>3. PICK n : n = Notify(w, "ok")
    OBVIOUS
  <2>4. "ok" \in Reply
    BY DEF Reply
  <2>5. \A t \in RecoveryTasks : t \in Initializers /\ ~Told(t, w)
    BY Kinds, Zenon DEF Told
  <2>6. \A t \in RecoveryTasks : n[t] = proc[t]
    BY <1>i, <2>3, <2>4, <2>5, NotifyTasks
  <2>7. \A t \in RecoveryTasks : proc'[t] = proc[t]
    BY <2>1, <2>2, <2>3, <2>6
  <2> QED
    BY <2>1, <2>7, RecoveriesGoOn
<1>3. CASE HandleInitializeResult
  <2>1. /\ Same /\ proc' = proc /\ worker.step = "ready"
        /\ client' = [client EXCEPT ![worker.client] = Mark(client[worker.client], TRUE, FALSE)]
    BY <1>3, Zenon DEF HandleInitializeResult, Mark, Same
  <2>2. PICK c \in Clients : c = worker.client
    BY <1>i, <2>1, WorkerHolds
  <2>3. PICK k : k = Mark(client[c], TRUE, FALSE)
    OBVIOUS
  <2>4. client' = [client EXCEPT ![c] = k]
    BY <2>1, <2>2, <2>3
  <2>5. client[c] \in ClientType /\ client \in [Clients -> ClientType]
    BY <1>i, Zenon DEF ClientInv
  <2>6. k.recovering = FALSE
    BY <2>3, <2>5, SMT DEF Mark, ClientType
  <2>7. ASSUME NEW d \in Clients, client'[d].recovering PROVE client[d].recovering
    <3>1. CASE d = c
      BY <2>4, <2>5, <2>6, <2>7, <3>1, Zenon
    <3>2. CASE d # c
      BY <2>4, <2>5, <2>7, <3>2, Zenon
    <3> QED
      BY <3>1, <3>2
  <2> QED
    BY <2>1, <2>7, TasksRest
<1>4. CASE ReplayPending
  <2>1. Same /\ proc' = proc /\ client' = client
    BY <1>4, Zenon DEF ReplayPending, Same
  <2> QED
    BY <2>1, TasksRest
<1> QED
  BY <1>1, <1>2, <1>3, <1>4, HandlePongRecovery DEF WorkerNext

LEMMA OpenerRecovery == ASSUME IInv, RecoveryInv, OpenerNext PROVE RecoveryInv'
<1>1. Opener \in Initializers /\ Opener \notin RecoveryTasks
  BY Kinds
<1>2. CASE OpenerEnsure
  <2>1. Same /\ Marked
    BY <1>2, Zenon DEF OpenerEnsure, Same, Marked
  <2>2. \/ End(Opener, "idle")
        \/ \E l, c, p : proc' = [proc EXCEPT ![Opener].left = l, ![Opener].client = c,
                                             ![Opener].phase = p]
    BY <1>2 DEF OpenerEnsure
  <2>3. Moves(Opener)
    BY <2>2, Movement, Zenon DEF Moves
  <2> QED
    BY <1>1, <2>1, <2>3, OthersMove
<1>3. CASE RegisterInitialize(Opener) \/ SendInitialize(Opener)
  BY <1>1, <1>3, SendersRecovery, OthersMove
<1>4. CASE OpenerRefused
  BY <1>4, CleanupRecovery DEF OpenerRefused
<1> QED
  BY <1>2, <1>3, <1>4 DEF OpenerNext

LEMMA NextKeepsRecovery ==
    ASSUME ~Drains, IInv, RecoveryInv, [Next]_vars PROVE RecoveryInv'
<1>1. ASSUME NEW a \in Callers, CallerNext(a) \/ Abandon(a) PROVE RecoveryInv'
  <2>1. a \in Initializers /\ a \notin RecoveryTasks
    BY Kinds
  <2>2. Moves(a) /\ Same /\ Marked
    BY <1>1, CallersRecovery
  <2> QED
    BY <2>1, <2>2, OthersMove
<1>2. ASSUME NEW t \in RecoveryTasks, RecoveryNext(t) PROVE RecoveryInv'
  BY <1>2, ResetRecovery, RecoverySends, RecoveryWaitRecovery, RecoveryFinishRecovery
  DEF RecoveryNext
<1>3. ASSUME Disconnect \/ CloseRequested \/ InitializeTimeout PROVE RecoveryInv'
  BY <1>3, CleanupRecovery DEF Disconnect, CloseRequested, InitializeTimeout
<1>4. ASSUME ServerNext PROVE RecoveryInv'
  <2>1. Same /\ proc' = proc /\ client' = client
    BY <1>4, Zenon DEF ServerNext, ServerInitialize, ServerRequest, Same
  <2> QED
    BY <2>1, TasksRest
<1>5. ASSUME NEW c \in Clients, PongUnknown(c) \/ Forget(c) PROVE RecoveryInv'
  <2>1. Same /\ proc' = proc /\ client' = client
    BY <1>5, Zenon DEF PongUnknown, Forget, Same
  <2> QED
    BY <2>1, TasksRest
<1>6. ASSUME UNCHANGED vars PROVE RecoveryInv'
  <2>1. Same /\ proc' = proc /\ client' = client
    BY <1>6, Zenon DEF vars, Same
  <2> QED
    BY <2>1, TasksRest
<1>7. ~ToggleDrain
  BY DEF ToggleDrain
<1> QED
  BY <1>1, <1>2, <1>3, <1>4, <1>5, <1>6, <1>7, WorkerRecovery, OpenerRecovery,
     OpenConnectionRecovery, Zenon
  DEF Next

\* Where no drain begins, a client that is marked as recovering has a recovery
\* task, or its connection is about to be closed: no request waits for a recovery
\* that nobody runs.  (A drain refuses the initialize of a recovery and leaves the
\* mark behind.)
THEOREM RecoveryOwned == ASSUME ~Drains PROVE Spec => []RecoveryHasOwner
<1>1. Init => RecoveryInv
  <2> SUFFICES ASSUME Init PROVE RecoveryInv
    OBVIOUS
  <2>1. \A c \in Clients : ~client[c].recovering
    BY SMT DEF Init, NewClient
  <2>2. \A t \in RecoveryTasks : proc[t].phase = "idle"
    BY Kinds, SMT DEF Init, Task
  <2> QED
    BY <2>1, <2>2, Zenon DEF RecoveryInv, RecoveryHasOwner, Init
<1>2. IInv /\ RecoveryInv /\ [Next]_vars => RecoveryInv'
  BY NextKeepsRecovery
<1>3. RecoveryInv => RecoveryHasOwner
  BY DEF RecoveryInv
<1> QED
  BY <1>1, <1>2, <1>3, InvCorrect, PTL DEF Spec

-----------------------------------------------------------------------------
(* Server envelopes: how the reader takes what an app-server sends on a stream *)

USE EnvelopeAssumption

\* The pieces of an envelope, and the last envelope of a message.
LEMMA EnvelopeParts ==
    ASSUME NEW e \in Envelopes
    PROVE  /\ e = <<e[1], e[2]>> /\ e[1] \in Seqs /\ e[1] \in Nat /\ e[2] \in Nat
           /\ ~Whole(e[1]) => e[2] < Segments[e[1]]
           /\ Whole(e[1]) => e[2] = USIZE_MAX
<1>1. e \in Seqs \X (0..USIZE_MAX)
  BY DEF Envelopes
<1>2. e = <<e[1], e[2]>> /\ e[1] \in Seqs /\ e[2] \in 0..USIZE_MAX
  BY <1>1
<1>3. IF Whole(e[1]) THEN e[2] = USIZE_MAX ELSE e[2] < Segments[e[1]]
  BY DEF Envelopes
<1> QED BY <1>2, <1>3

LEMMA LastEnvelope ==
    ASSUME NEW s \in Seqs
    PROVE  <<s, LastSegment(s)>> \in Envelopes /\ LastSegment(s) \in Nat
  BY DEF Envelopes, LastSegment, Whole

\* What handling an envelope does to the state: one of four outcomes.
Fails == open' = FALSE /\ UNCHANGED <<cursor, chunks, delivered, acked>>
Ignores(e) == acked' = acked \cup {e} /\ ~Newer(e) /\ UNCHANGED <<open, cursor, chunks, delivered>>
Keeps(e) == \E next \in Nat : /\ next = 0 \/ next < Segments[e[1]]
                              /\ Keep(e, next)
Delivers(e) == /\ Len(delivered) - done < Capacity
               /\ Newer(e)
               /\ e[2] = LastSegment(e[1])
               /\ delivered' = Append(delivered, e[1])
               /\ chunks' = [chunks EXCEPT ![e[1]] = 0]
               /\ Acknowledge(e) /\ UNCHANGED open

LEMMA Outcomes ==
    ASSUME EnvelopesTypeOK, NEW e \in Envelopes, NEW damaged \in BOOLEAN, HandleEnvelope(e, damaged)
    PROVE  Fails \/ Ignores(e) \/ Keeps(e) \/ Delivers(e)
<1> USE EnvelopeParts DEF EnvelopesTypeOK
<1>1. CASE damaged /\ Whole(e[1])
  BY <1>1 DEF HandleEnvelope, ReaderFails, Fails
<1>2. CASE ~(damaged /\ Whole(e[1])) /\ ~current
  <2>1. Keep(e, chunks[e[1]])
    BY <1>2 DEF HandleEnvelope
  <2>2. chunks[e[1]] \in Nat /\ (chunks[e[1]] = 0 \/ chunks[e[1]] < Segments[e[1]])
    OBVIOUS
  <2> QED BY <2>1, <2>2 DEF Keeps
<1>3. CASE ~(damaged /\ Whole(e[1])) /\ current /\ ~Newer(e)
  BY <1>3 DEF HandleEnvelope, Ignores
<1>4. CASE ~(damaged /\ Whole(e[1])) /\ current /\ Newer(e) /\ Whole(e[1])
  <2>1. Deliver(e)
    BY <1>4 DEF HandleEnvelope
  <2>2. e[2] = LastSegment(e[1])
    BY <1>4 DEF LastSegment
  <2> QED BY <1>4, <2>1, <2>2 DEF Deliver, Delivers, ReaderFails, Fails
<1>5. CASE current /\ Newer(e) /\ ~Whole(e[1])
  <2> DEFINE next == chunks[e[1]]
  <2>0. /\ next \in Nat /\ (next = 0 \/ next < Segments[e[1]])
        /\ e[2] \in Nat /\ Segments[e[1]] \in Nat
    OBVIOUS
  <2>1. ObserveChunk(e, damaged)
    BY <1>5 DEF HandleEnvelope
  <2>2. CASE e[2] < next
    <3>1. Keep(e, next)
      BY <2>0, <2>1, <2>2 DEF ObserveChunk
    <3> QED BY <2>0, <3>1 DEF Keeps
  <2>3. CASE e[2] >= next /\ (damaged \/ e[2] # next)
    <3>1. Keep(e, 0)
      BY <2>0, <2>1, <2>3 DEF ObserveChunk
    <3> QED BY <3>1 DEF Keeps
  <2>4. CASE e[2] = next /\ ~damaged /\ e[2] + 1 < Segments[e[1]]
    <3>1. PICK m \in Nat : m = next + 1
      BY <2>0
    <3>2. Keep(e, m)
      BY <2>0, <2>1, <2>4, <3>1 DEF ObserveChunk
    <3>3. m < Segments[e[1]]
      BY <2>4, <3>1
    <3> QED BY <3>2, <3>3 DEF Keeps
  <2>5. CASE e[2] = next /\ ~damaged /\ ~(e[2] + 1 < Segments[e[1]])
    <3>1. Deliver(e)
      BY <2>0, <2>1, <2>5 DEF ObserveChunk
    <3>2. e[2] = LastSegment(e[1])
      <4>1. LastSegment(e[1]) = Segments[e[1]] - 1
        BY <1>5 DEF LastSegment
      <4>2. e[2] < Segments[e[1]]
        BY <1>5
      <4> QED BY <2>0, <2>5, <4>1, <4>2
    <3> QED BY <1>5, <3>1, <3>2 DEF Deliver, Delivers, ReaderFails, Fails
  <2>6. e[2] < next \/ (e[2] >= next /\ (e[2] = next \/ e[2] # next))
    BY <2>0
  <2> QED BY <2>2, <2>3, <2>4, <2>5, <2>6, Zenon
<1> QED BY <1>1, <1>2, <1>3, <1>4, <1>5

-----------------------------------------------------------------------------
\* Type correctness: in particular the work queue of a connection never holds
\* more than REMOTE_CONTROL_SERVER_WORK_QUEUE_CAPACITY items, and no assembly
\* reaches its segment_count.
THEOREM EnvelopesTypeCorrect == EnvelopesSpec => []EnvelopesTypeOK
<1>1. EnvelopesInit => EnvelopesTypeOK
  BY DEF EnvelopesInit, EnvelopesTypeOK
<1>2. EnvelopesTypeOK /\ [EnvelopesNext]_envelopeVars => EnvelopesTypeOK'
  <2> SUFFICES ASSUME EnvelopesTypeOK, [EnvelopesNext]_envelopeVars PROVE EnvelopesTypeOK'
    OBVIOUS
  <2> USE EnvelopeParts DEF EnvelopesTypeOK
  <2>1. ASSUME NEW e \in Envelopes, NEW damaged \in BOOLEAN, ReceiveEnvelope(e, damaged)
        PROVE  EnvelopesTypeOK'
    <3>1. /\ arrived' \subseteq Envelopes /\ faulty' \subseteq Seqs
          /\ current' = current /\ done' = done
          /\ ordered' \in BOOLEAN
      BY <2>1 DEF ReceiveEnvelope
    <3>2. Fails \/ Ignores(e) \/ Keeps(e) \/ Delivers(e)
      BY <2>1, Outcomes DEF ReceiveEnvelope
    <3>3. CASE Fails
      BY <3>1, <3>3 DEF Fails
    <3>4. CASE Ignores(e)
      BY <3>1, <3>4 DEF Ignores
    <3>5. CASE Keeps(e)
      BY <3>1, <3>5 DEF Keeps, Keep, Acknowledge
    <3>6. CASE Delivers(e)
      <4>1. /\ delivered' \in Seq(Seqs) /\ Len(delivered') = Len(delivered) + 1
            /\ Len(delivered) \in Nat /\ Len(delivered) - done < Capacity
        BY <3>6 DEF Delivers
      <4>2. done' \in 0..Len(delivered') /\ Len(delivered') - done' <= Capacity
        BY <3>1, <4>1, SMTT(30)
      <4>3. acked' \subseteq Envelopes /\ cursor' \subseteq Envelopes
            /\ \A c, f \in cursor' : c = f
        BY <3>6 DEF Delivers, Acknowledge
      <4>4. /\ chunks' \in [Seqs -> Nat] /\ open' \in BOOLEAN
            /\ \A s \in Seqs : chunks'[s] = 0 \/ chunks'[s] < Segments[s]
        BY <3>6 DEF Delivers
      <4> QED BY <3>1, <4>1, <4>2, <4>3, <4>4
    <3> QED BY <3>2, <3>3, <3>4, <3>5, <3>6
  <2>2. CASE Work
    <3>1. /\ Len(delivered) \in Nat /\ delivered' = delivered
          /\ done' = done + 1 /\ done < Len(delivered)
          /\ done \in Nat /\ Capacity \in Nat /\ Len(delivered) - done <= Capacity
      BY <2>2 DEF Work
    <3>2. \A m, n, c \in Nat : n < m /\ m - n <= c => n + 1 \in 0..m /\ m - (n + 1) <= c
      OBVIOUS
    <3>3. done' \in 0..Len(delivered') /\ Len(delivered') - done' <= Capacity
      BY <3>1, <3>2, Zenon
    <3> QED BY <2>2, <3>3 DEF Work
  <2>3. CASE CreateClient
    BY <2>3 DEF CreateClient
  <2>4. CASE WebsocketEnds
    BY <2>4 DEF WebsocketEnds
  <2>5. CASE UNCHANGED envelopeVars
    BY <2>5 DEF envelopeVars
  <2> QED BY <2>1, <2>2, <2>3, <2>4, <2>5 DEF EnvelopesNext
<1> QED BY <1>1, <1>2, PTL DEF EnvelopesSpec
-----------------------------------------------------------------------------
\* What StrictlyOrdered needs: everything delivered lies at or before the cursor,
\* up to its last segment.  A message could otherwise come back complete.
Behind(s, c) == s < c[1] \/ (s = c[1] /\ LastSegment(s) <= c[2])
BehindCursor == \A i \in 1..Len(delivered) : \E c \in cursor : Behind(delivered[i], c)

OrderInv == EnvelopesTypeOK /\ BehindCursor /\ StrictlyOrdered

\* The cursor only moves forward.
LEMMA CursorAdvances ==
    ASSUME EnvelopesTypeOK, BehindCursor, NEW e \in Envelopes, Acknowledge(e),
           NEW i \in 1..Len(delivered)
    PROVE  \E c \in cursor' : Behind(delivered[i], c)
<1>1. PICK c \in cursor : Behind(delivered[i], c)
  BY DEF BehindCursor
<1>2. delivered[i] \in Seqs /\ delivered[i] \in Nat /\ LastSegment(delivered[i]) \in Nat
  <2>1. delivered \in Seq(Seqs)
    BY DEF EnvelopesTypeOK
  <2>2. delivered[i] \in Seqs
    BY <2>1
  <2> QED BY <2>2, LastEnvelope
<1>3. c[1] \in Nat /\ c[2] \in Nat /\ e[1] \in Nat /\ e[2] \in Nat
  <2>1. c \in Envelopes
    BY DEF EnvelopesTypeOK
  <2> QED BY <2>1, EnvelopeParts
<1>4. CASE Newer(e)
  <2>1. cursor' = {e} /\ AckCursorGt(e, c)
    BY <1>4 DEF Acknowledge, Newer
  <2> QED BY <1>1, <1>2, <1>3, <2>1 DEF AckCursorGt, Behind
<1>5. CASE ~Newer(e)
  BY <1>1, <1>5 DEF Acknowledge
<1> QED BY <1>4, <1>5

\* A message that is delivered is newer than all that were.
LEMMA DeliveredIsNew ==
    ASSUME EnvelopesTypeOK, BehindCursor, NEW e \in Envelopes, Newer(e), e[2] = LastSegment(e[1]),
           NEW i \in 1..Len(delivered)
    PROVE  delivered[i] < e[1]
<1>1. PICK c \in cursor : Behind(delivered[i], c)
  BY DEF BehindCursor
<1>2. delivered[i] \in Seqs /\ delivered[i] \in Nat /\ LastSegment(delivered[i]) \in Nat
  <2>1. delivered \in Seq(Seqs)
    BY DEF EnvelopesTypeOK
  <2>2. delivered[i] \in Seqs
    BY <2>1
  <2> QED BY <2>2, LastEnvelope
<1>3. c[1] \in Nat /\ c[2] \in Nat /\ e[1] \in Nat /\ e[2] \in Nat
  <2>1. c \in Envelopes
    BY DEF EnvelopesTypeOK
  <2> QED BY <2>1, EnvelopeParts
<1>4. e[1] > c[1] \/ (e[1] = c[1] /\ e[2] > c[2])
  BY DEF Newer, AckCursorGt
<1> QED BY <1>1, <1>2, <1>3, <1>4 DEF Behind

\* Whatever is sent again, lost, damaged or reordered, the work queue gets the
\* messages of a stream in the order of their seq_ids and none of them twice.
THEOREM OrderCorrect == EnvelopesSpec => []StrictlyOrdered
<1>1. EnvelopesInit => OrderInv
  BY DEF EnvelopesInit, OrderInv, EnvelopesTypeOK, BehindCursor, StrictlyOrdered
<1>2. OrderInv /\ EnvelopesTypeOK' /\ [EnvelopesNext]_envelopeVars => OrderInv'
  <2> SUFFICES ASSUME OrderInv, EnvelopesTypeOK', [EnvelopesNext]_envelopeVars PROVE BehindCursor' /\ StrictlyOrdered'
    BY DEF OrderInv
  <2> USE DEF OrderInv
  <2>1. ASSUME NEW e \in Envelopes, NEW damaged \in BOOLEAN, ReceiveEnvelope(e, damaged)
        PROVE  BehindCursor' /\ StrictlyOrdered'
    <3>2. Fails \/ Ignores(e) \/ Keeps(e) \/ Delivers(e)
      BY <2>1, Outcomes DEF ReceiveEnvelope
    <3>3. CASE Fails
      BY <3>3 DEF Fails, BehindCursor, Behind, StrictlyOrdered, LastSegment, Whole
    <3>4. CASE Ignores(e)
      BY <3>4 DEF Ignores, BehindCursor, Behind, StrictlyOrdered, LastSegment, Whole
    <3>5. CASE Keeps(e)
      <4>1. delivered' = delivered /\ Acknowledge(e)
        BY <3>5 DEF Keeps, Keep
      <4>2. BehindCursor'
        BY <4>1, CursorAdvances DEF BehindCursor, Behind, LastSegment, Whole
      <4>3. StrictlyOrdered'
        BY <4>1 DEF StrictlyOrdered
      <4> QED BY <4>2, <4>3
    <3>6. CASE Delivers(e)
      <4>1. /\ delivered' = Append(delivered, e[1])
            /\ Acknowledge(e) /\ Newer(e) /\ e[2] = LastSegment(e[1])
        BY <3>6 DEF Delivers
      <4>2. /\ delivered \in Seq(Seqs) /\ e[1] \in Nat /\ e[2] \in Nat
            /\ e[1] \in Seqs
        BY EnvelopeParts DEF EnvelopesTypeOK
      <4>3. /\ Len(delivered') = Len(delivered) + 1
            /\ \A i \in 1..Len(delivered) : delivered'[i] = delivered[i]
            /\ delivered'[Len(delivered) + 1] = e[1]
        BY <4>1, <4>2
      <4>4. cursor' = {e}
        BY <4>1 DEF Acknowledge
      <4>5. BehindCursor'
        <5> SUFFICES ASSUME NEW i \in 1..Len(delivered')
                     PROVE  \E c \in cursor' : Behind(delivered'[i], c)
          BY DEF BehindCursor, Behind, LastSegment, Whole
        <5>1. CASE i \in 1..Len(delivered)
          BY <4>1, <4>3, <5>1, CursorAdvances
        <5>2. CASE i = Len(delivered) + 1
          BY <4>1, <4>2, <4>3, <4>4, <5>2 DEF Behind
        <5> QED BY <4>2, <4>3, <5>1, <5>2
      <4>6. StrictlyOrdered'
        <5> SUFFICES ASSUME NEW i \in 1..Len(delivered'), NEW j \in 1..Len(delivered'), i < j
                     PROVE  delivered'[i] < delivered'[j]
          BY DEF StrictlyOrdered
        <5>0. Len(delivered) \in Nat
          BY <4>2
        <5>1. i \in 1..Len(delivered) /\ (j \in 1..Len(delivered) \/ j = Len(delivered) + 1)
          BY <4>3, <5>0
        <5>2. CASE j \in 1..Len(delivered)
          BY <4>3, <5>1, <5>2 DEF StrictlyOrdered
        <5>3. CASE j = Len(delivered) + 1
          BY <4>1, <4>3, <5>1, <5>3, DeliveredIsNew
        <5> QED BY <5>1, <5>2, <5>3
      <4> QED BY <4>5, <4>6
    <3> QED BY <3>2, <3>3, <3>4, <3>5, <3>6
  <2>2. CASE Work
    BY <2>2 DEF Work, BehindCursor, Behind, StrictlyOrdered, LastSegment, Whole
  <2>3. CASE CreateClient
    BY <2>3 DEF CreateClient, BehindCursor, Behind, StrictlyOrdered, LastSegment, Whole
  <2>4. CASE WebsocketEnds
    BY <2>4 DEF WebsocketEnds, BehindCursor, Behind, StrictlyOrdered, LastSegment, Whole
  <2>5. CASE UNCHANGED envelopeVars
    BY <2>5 DEF envelopeVars, BehindCursor, Behind, StrictlyOrdered, LastSegment, Whole
  <2> QED BY <2>1, <2>2, <2>3, <2>4, <2>5 DEF EnvelopesNext
<1>3. OrderInv => StrictlyOrdered
  BY DEF OrderInv
<1> QED BY <1>1, <1>2, <1>3, EnvelopesTypeCorrect, PTL DEF EnvelopesSpec
-----------------------------------------------------------------------------
\* What AckedIsKept needs of an app-server that keeps the order, while the reader
\* runs: what has arrived is acknowledged and is exactly what the cursor covers,
\* and the first segment of an intact message that has not come yet is the one
\* its assembly waits for.
CursorCovers == \A f \in Envelopes : f \in acked <=> \E c \in cursor : ~AckCursorGt(f, c)
AssemblyWaits ==
    \A s \in Seqs \ faulty : \A k \in Nat :
        (k < Segments[s] /\ <<s, k>> \notin acked /\ (k = 0 \/ <<s, k - 1>> \in acked))
            => chunks[s] = k
KeptInv == /\ EnvelopesTypeOK
           /\ AckedIsKept
           /\ ordered /\ open => arrived = acked /\ CursorCovers /\ AssemblyWaits

\* An envelope that arrives for the first time is newer than the cursor, and
\* afterwards the cursor covers it and no other envelope.
LEMMA FirstArrival ==
    ASSUME KeptInv, ordered, open, NEW e \in Envelopes, e \notin arrived
    PROVE  Newer(e)
  BY DEF KeptInv, CursorCovers, Newer

LEMMA CoversNext ==
    ASSUME KeptInv, ordered, open, NEW e \in Envelopes, e \notin arrived,
           \A f \in Envelopes : AckCursorGt(e, f) => f \in arrived,
           acked' = acked \cup {e}, cursor' = {e}
    PROVE  CursorCovers'
<1> SUFFICES ASSUME NEW f \in Envelopes
             PROVE  f \in acked \cup {e} <=> ~AckCursorGt(f, e)
  BY DEF CursorCovers
<1>1. /\ e = <<e[1], e[2]>> /\ e[1] \in Nat /\ e[2] \in Nat
      /\ f = <<f[1], f[2]>> /\ f[1] \in Nat /\ f[2] \in Nat
  BY EnvelopeParts
<1>2. ASSUME f \in acked PROVE ~AckCursorGt(f, e)
  <2>1. PICK c \in cursor : ~AckCursorGt(f, c)
    BY <1>2 DEF KeptInv, CursorCovers
  <2>2. c \in Envelopes /\ AckCursorGt(e, c)
    BY FirstArrival DEF Newer, KeptInv, EnvelopesTypeOK
  <2>3. c[1] \in Nat /\ c[2] \in Nat
    BY <2>2, EnvelopeParts
  <2> QED BY <1>1, <2>1, <2>2, <2>3 DEF AckCursorGt
<1>3. ASSUME f = e PROVE ~AckCursorGt(f, e)
  BY <1>1, <1>3 DEF AckCursorGt
<1>4. ASSUME f # e, ~AckCursorGt(f, e) PROVE f \in acked
  <2>1. f[1] # e[1] \/ f[2] # e[2]
    BY <1>1, <1>4
  <2>2. AckCursorGt(e, f)
    BY <1>1, <1>4, <2>1 DEF AckCursorGt
  <2> QED BY <2>2 DEF KeptInv
<1> QED BY <1>2, <1>3, <1>4

\* An intact envelope that arrives for the first time extends the assembly of
\* its message, completes it, or ends the connection; it is never dropped.
LEMMA IntactArrival ==
    ASSUME KeptInv, ordered, open, current, NEW e \in Envelopes, e \notin arrived,
           e[1] \notin faulty,
           \A f \in Envelopes : AckCursorGt(e, f) => f \in arrived,
           HandleEnvelope(e, FALSE)
    PROVE  \/ Fails \/ Delivers(e)
           \/ ~Whole(e[1]) /\ e[2] + 1 < Segments[e[1]] /\ Keep(e, e[2] + 1)
<1>1. /\ e = <<e[1], e[2]>> /\ e[1] \in Seqs /\ e[1] \in Nat /\ e[2] \in Nat
      /\ Newer(e)
  BY EnvelopeParts, FirstArrival
<1>2. CASE Whole(e[1])
  <2>1. Deliver(e)
    BY <1>1, <1>2 DEF HandleEnvelope
  <2>2. e[2] = LastSegment(e[1])
    BY <1>2, EnvelopeParts DEF LastSegment
  <2> QED BY <1>1, <2>1, <2>2 DEF Deliver, Delivers, ReaderFails, Fails
<1>3. CASE ~Whole(e[1])
  <2>1. e[2] < Segments[e[1]] /\ Segments[e[1]] \in Nat
    BY <1>1, <1>3, EnvelopeParts
  <2>2. ASSUME e[2] # 0 PROVE <<e[1], e[2] - 1>> \in acked
    <3> DEFINE f == <<e[1], e[2] - 1>>
    <3>1. e[2] - 1 \in Nat /\ e[2] - 1 < Segments[e[1]] /\ Segments[e[1]] <= USIZE_MAX
      BY <1>1, <2>1, <2>2
    <3>2. f \in Envelopes
      BY <1>1, <1>3, <3>1 DEF Envelopes
    <3>3. AckCursorGt(e, f)
      BY <1>1 DEF AckCursorGt
    <3> QED BY <3>2, <3>3 DEF KeptInv
  <2>3. <<e[1], e[2]>> \notin acked
    BY <1>1 DEF KeptInv
  <2>4. chunks[e[1]] = e[2]
    BY <1>1, <2>1, <2>2, <2>3 DEF KeptInv, AssemblyWaits
  <2>5. ObserveChunk(e, FALSE)
    BY <1>1, <1>3 DEF HandleEnvelope
  <2>6. CASE e[2] + 1 < Segments[e[1]]
    BY <1>1, <1>3, <2>4, <2>5, <2>6 DEF ObserveChunk
  <2>7. CASE ~(e[2] + 1 < Segments[e[1]])
    <3>1. Deliver(e)
      BY <1>1, <2>4, <2>5, <2>7 DEF ObserveChunk
    <3>2. e[2] = LastSegment(e[1])
      BY <1>1, <1>3, <2>1, <2>7 DEF LastSegment
    <3> QED BY <1>1, <3>1, <3>2 DEF Deliver, Delivers, ReaderFails, Fails
  <2> QED BY <2>6, <2>7
<1> QED BY <1>2, <1>3
\* An app-server that sends in order never loses a message it was told to
\* forget, unless the message arrived damaged or on a stream without a client:
\* acknowledging after try_send, and dropping the connection when the queue is
\* full, is enough.
THEOREM KeptCorrect == EnvelopesSpec => []AckedIsKept
<1>1. EnvelopesInit => KeptInv
  BY DEF EnvelopesInit, KeptInv, EnvelopesTypeOK, AckedIsKept, CursorCovers, AssemblyWaits
<1>2. KeptInv /\ EnvelopesTypeOK' /\ [EnvelopesNext]_envelopeVars => KeptInv'
  <2> SUFFICES ASSUME KeptInv, EnvelopesTypeOK', [EnvelopesNext]_envelopeVars, ordered'
               PROVE  /\ AckedIsKept'
                      /\ open' => arrived' = acked' /\ CursorCovers' /\ AssemblyWaits'
    BY DEF KeptInv, AckedIsKept
  <2> DEFINE Kept == /\ AckedIsKept'
                     /\ open' => arrived' = acked' /\ CursorCovers' /\ AssemblyWaits'
  <2>1. ASSUME NEW e \in Envelopes, NEW damaged \in BOOLEAN, ReceiveEnvelope(e, damaged)
        PROVE  Kept
    <3>1. /\ open /\ ordered
          /\ arrived' = arrived \cup {e} /\ HandleEnvelope(e, damaged)
          /\ \A f \in Envelopes : AckCursorGt(e, f) => f \in arrived
          /\ faulty \subseteq faulty'
          /\ e \in arrived => faulty' = faulty
          /\ e \notin arrived /\ e[1] \notin faulty' =>
                 damaged = FALSE /\ current /\ e[1] \notin faulty
      BY <2>1 DEF ReceiveEnvelope, Overtakes
    <3>2. Fails \/ Ignores(e) \/ Keeps(e) \/ Delivers(e)
      BY <3>1, Outcomes DEF KeptInv
    <3>3. CASE Fails
      BY <3>1, <3>3 DEF Fails, KeptInv, AckedIsKept, LastSegment, Whole
    <3>4. CASE e \in arrived /\ ~Fails
      <4>1. e \in acked /\ ~Newer(e) /\ arrived' = arrived /\ faulty' = faulty
        BY <3>1, <3>4 DEF KeptInv, CursorCovers, Newer
      <4>2. ~Delivers(e)
        BY <4>1 DEF Delivers
      <4>3. /\ acked' = acked /\ cursor' = cursor /\ delivered' = delivered /\ open' = open
            /\ chunks' = chunks
        <5>1. CASE Ignores(e)
          BY <4>1, <5>1 DEF Ignores
        <5>2. CASE ~Ignores(e)
          <6>1. ~current
            BY <3>1, <3>4, <4>1, <5>2 DEF HandleEnvelope, Ignores, ReaderFails, Fails
          <6>2. Keep(e, chunks[e[1]])
            BY <3>1, <3>4, <6>1 DEF HandleEnvelope, ReaderFails, Fails
          <6>3. chunks' = chunks
            BY <6>2 DEF Keep, KeptInv, EnvelopesTypeOK
          <6> QED BY <4>1, <6>2, <6>3 DEF Keep, Acknowledge
        <5> QED BY <5>1, <5>2
      <4> QED BY <3>1, <4>1, <4>3
            DEF KeptInv, AckedIsKept, CursorCovers, AssemblyWaits, LastSegment, Whole
    <3>5. CASE e \notin arrived /\ ~Fails
      <4>1. Newer(e)
        BY <3>1, <3>5, FirstArrival
      <4>2. /\ acked' = acked \cup {e} /\ cursor' = {e} /\ open' = open
            /\ \E next \in Nat : chunks' = [chunks EXCEPT ![e[1]] = next]
            /\ delivered' \in {delivered, Append(delivered, e[1])}
        BY <3>2, <3>5, <4>1 DEF Ignores, Keeps, Keep, Delivers, Acknowledge
      <4>3. arrived' = acked' /\ CursorCovers'
        BY <3>1, <3>5, <4>2, CoversNext DEF KeptInv
      <4>4. /\ e = <<e[1], e[2]>> /\ e[1] \in Seqs /\ e[2] \in Nat
            /\ Segments[e[1]] \in Nat
        BY EnvelopeParts
      <4>5. \A s \in Seqs : s # e[1] => chunks'[s] = chunks[s]
        BY <4>2 DEF KeptInv, EnvelopesTypeOK
      <4>6. /\ delivered \in Seq(Seqs)
            /\ \A i \in 1..Len(delivered) :
                  i \in 1..Len(delivered') /\ delivered'[i] = delivered[i]
        <5>1. delivered \in Seq(Seqs)
          BY DEF KeptInv, EnvelopesTypeOK
        <5>2. CASE delivered' = delivered
          BY <5>1, <5>2
        <5>3. CASE delivered' = Append(delivered, e[1])
          BY <4>4, <5>1, <5>3
        <5> QED BY <4>2, <5>1, <5>2, <5>3
      <4>7. e[1] \notin faulty' =>
               \/ Delivers(e)
               \/ ~Whole(e[1]) /\ e[2] + 1 < Segments[e[1]] /\ Keep(e, e[2] + 1)
        BY <3>1, <3>5, IntactArrival
      <4>8. AckedIsKept'
        <5> SUFFICES ASSUME NEW s \in Seqs \ faulty', <<s, LastSegment(s)>> \in acked'
                     PROVE  \E i \in 1..Len(delivered') : delivered'[i] = s
          BY DEF AckedIsKept, LastSegment, Whole
        <5>1. CASE <<s, LastSegment(s)>> \in acked
          <6>1. PICK i \in 1..Len(delivered) : delivered[i] = s
            BY <3>1, <5>1 DEF KeptInv, AckedIsKept
          <6> QED BY <4>6, <6>1
        <5>2. CASE <<s, LastSegment(s)>> \notin acked
          <6>1. e[1] = s /\ e[2] = LastSegment(s)
            BY <4>2, <5>2
          <6>2. Delivers(e)
            BY <4>4, <4>7, <6>1 DEF LastSegment
          <6>3. delivered' = Append(delivered, s)
            BY <6>1, <6>2 DEF Delivers
          <6> QED BY <4>6, <6>3
        <5> QED BY <5>1, <5>2
      <4>9. AssemblyWaits'
        <5> SUFFICES ASSUME NEW s \in Seqs \ faulty', NEW k \in Nat, k < Segments[s],
                            <<s, k>> \notin acked', k = 0 \/ <<s, k - 1>> \in acked'
                     PROVE  chunks'[s] = k
          BY DEF AssemblyWaits
        <5>1. CASE s # e[1]
          <6>1. <<s, k>> \notin acked /\ (k = 0 \/ <<s, k - 1>> \in acked)
            BY <4>2, <4>4, <5>1
          <6> QED BY <3>1, <4>5, <5>1, <6>1 DEF KeptInv, AssemblyWaits
        <5>2. CASE s = e[1]
          <6>1. <<s, k>> \in Envelopes
            BY <5>2, <4>4 DEF Envelopes, Whole
          <6>2. AckCursorGt(<<s, k>>, e)
            BY <4>2, <4>3, <6>1 DEF CursorCovers
          <6>3. k > e[2]
            BY <4>4, <5>2, <6>2 DEF AckCursorGt
          <6>4. k - 1 = e[2]
            <7>1. <<s, k - 1>> \in acked'
              BY <4>4, <6>3
            <7>2. ~AckCursorGt(<<s, k - 1>>, e)
              BY <4>2, <4>3, <7>1, ZenonT(40) DEF CursorCovers, EnvelopesTypeOK
            <7> QED BY <4>4, <5>2, <6>3, <7>2 DEF AckCursorGt
          <6>5. e[2] + 1 < Segments[e[1]]
            BY <4>4, <5>2, <6>4
          <6>6. ~Delivers(e)
            BY <4>4, <5>2, <6>5 DEF Delivers, LastSegment, Whole
          <6>7. Keep(e, e[2] + 1)
            BY <4>7, <5>2, <6>6
          <6> QED BY <4>4, <5>2, <6>4, <6>7 DEF Keep, KeptInv, EnvelopesTypeOK
        <5> QED BY <5>1, <5>2
      <4> QED BY <4>3, <4>8, <4>9
    <3> QED BY <3>3, <3>4, <3>5
  <2>2. CASE Work
    BY <2>2 DEF Work, KeptInv, AckedIsKept, CursorCovers, AssemblyWaits, LastSegment, Whole
  <2>3. CASE CreateClient
    BY <2>3 DEF CreateClient, KeptInv, AckedIsKept, CursorCovers, AssemblyWaits, LastSegment, Whole
  <2>4. CASE WebsocketEnds
    BY <2>4 DEF WebsocketEnds, KeptInv, AckedIsKept, LastSegment, Whole
  <2>5. CASE UNCHANGED envelopeVars
    BY <2>5 DEF envelopeVars, KeptInv, AckedIsKept, CursorCovers, AssemblyWaits, LastSegment, Whole
  <2> QED BY <2>1, <2>2, <2>3, <2>4, <2>5 DEF EnvelopesNext
<1>3. KeptInv => AckedIsKept
  BY DEF KeptInv
<1> QED BY <1>1, <1>2, <1>3, EnvelopesTypeCorrect, PTL DEF EnvelopesSpec
============================================================================
