------------------------ MODULE TelegramTurnsProofs ------------------------
(* Proofs about TelegramTurns: for any number of turns, queued messages,
   commands, timers and restarts, for any capacity of the queue and any faults. *)
EXTENDS TelegramTurns, FiniteSetTheorems, SequenceTheorems, TLAPS

USE TurnsAssumption

Pc == {"idle", "asleep", "finish", "notice", "stop", "exit", "leave", "unbind", "lock", "take",
       "route", "mark", "await", "requeue", "clear"}
Task == [pc : Pc, turn : 0..MaxTurns, item : 0..MaxItems, failed : BOOLEAN, ok : BOOLEAN]
Kind == {"started", "error", "completed", "status"}
Notification == [kind : Kind, turn : Turns, failed : BOOLEAN]
Farewell == {"error", "completed", "status"}
AppServer == [turn : 0..MaxTurns, running : BOOLEAN, started : BOOLEAN, failed : BOOLEAN,
              owes : SUBSET Farewell]
Latch == [turn : 0..MaxTurns, token : 0..MaxTokens, event : BOOLEAN, server : BOOLEAN]
Notice == [turn : Turns, failed : BOOLEAN]

-----------------------------------------------------------------------------
(* The inductive invariant, by the variables it is about *)

\* The small variables
MiscOK ==
    /\ bound \in BOOLEAN /\ starting \in BOOLEAN
    /\ excused \in BOOLEAN /\ forsaken \in BOOLEAN
    /\ current \in 0..MaxTurns /\ client_turn \in 0..MaxTurns /\ announced \in 0..MaxTurns
    /\ messages \in 0..MaxMessages /\ restarts \in 0..MaxRestarts
    /\ start_ops \in Actors \cup {Nobody}

\* A status that the router has not received may cost a token, one that the
\* app-server has not sent two: one on each side.
StatusIn(s) == {i \in DOMAIN s : s[i].kind = "status"}
Owed(s) == IF "status" \in s.owes THEN 2 ELSE 0
Spent == token + Cardinality(StatusIn(channel)) + Owed(server)

\* A turn costs at most two tokens, and only once it has ended.
TokenBudget ==
    /\ Spent <= MaxTokens /\ Spent <= 2 * server.turn
    /\ server.running => Spent <= 2 * (server.turn - 1) /\ server.owes = {}
    /\ server.running \/ server.owes # {} => server.turn # 0

ServerInv ==
    /\ server \in AppServer /\ channel \in Seq(Notification) /\ token \in 0..MaxTokens
    /\ TokenBudget

\* The timer of a token that was not given out, or whose latch the IM side has
\* not armed, does not run: schedule_terminal_status_fallback starts it once.
TimersFresh ==
    /\ \A k \in Tokens : k > token => actor[k].pc = "idle"
    /\ latch # NoLatch => /\ latch.token \in 1..token
                          /\ ~latch.event => actor[latch.token].pc = "idle"

TimerInv == latch \in Latch /\ orphans \subseteq (Tokens \X Turns) /\ TimersFresh

\* A task that acts on a turn has one, and one that puts a message back has that.
Sound(r) ==
    /\ r.pc \in {"asleep", "finish", "notice", "stop", "exit", "leave"} => r.turn # 0
    /\ r.pc = "requeue" => r.item # 0

TaskInv == actor \in [Actors -> Task] /\ \A a \in Actors : Sound(actor[a])

\* The task is between the lock of the queue and its release.
Owns(a) == \/ actor[a].pc \in {"take", "requeue", "clear"}
           \/ actor[a].pc \in {"route", "mark", "await"} /\ actor[a].item # 0

\* telegram_queue_start_ops is a lock.
OpsHeld == \A a \in Actors : Owns(a) => start_ops = a

\* What was sent is older than what a task holds, and that older than the queue.
InQueueOrder ==
    /\ \A i, j \in DOMAIN queue : i < j => queue[i] < queue[j]
    /\ \A i \in DOMAIN queue : queue[i] <= items
    /\ \A i \in DOMAIN submitted : submitted[i] <= items
    /\ \A i \in DOMAIN queue : \A j \in DOMAIN submitted : submitted[j] < queue[i]
    /\ \A a \in Actors : \A n \in Held(a) :
         /\ n <= items
         /\ \A i \in DOMAIN queue : n < queue[i]
         /\ \A j \in DOMAIN submitted : submitted[j] < n

\* A message that was accepted is somewhere.
Accounted(n) ==
    \/ \E i \in DOMAIN queue : queue[i] = n
    \/ \E a \in Actors : n \in Held(a)
    \/ \E i \in DOMAIN submitted : submitted[i] = n
    \/ n \in dropped

QueueInv ==
    /\ queue \in Seq(1..MaxItems) /\ submitted \in Seq(1..MaxItems)
    /\ items \in 0..MaxItems /\ dropped \subseteq 1..MaxItems
    /\ OpsHeld /\ InQueueOrder /\ QueuedInOrder
    /\ \A n \in 1..items : Accounted(n)

\* Without a binding nothing is reserved, nor about to be, unless a start has
\* lost its binding.
UnboundIsFree == ~bound /\ ~forsaken => ~starting /\ \A a \in Actors : actor[a].pc # "mark"

ReservationInv == UnboundIsFree /\ ReservationHasOwner

\* Without a binding there is no queue.
UnboundIsEmpty ==
    ~bound /\ ~forsaken /\ ~excused =>
        queue = <<>> /\ \A a \in Actors : actor[a].pc # "requeue"

\* A message that is being put back waits as well.
Waiting == queue # <<>> \/ \E a \in Actors : actor[a].pc = "requeue"

WaitingHasStarter ==
    Waiting /\ ~TurnInProgress /\ ~excused /\ ~forsaken => \E a \in Actors : WillStart(a)

StarterInv == UnboundIsEmpty /\ WaitingHasStarter

IInv == /\ MiscOK /\ ServerInv /\ TimerInv /\ TaskInv /\ QueueInv /\ ReservationInv
        /\ StarterInv /\ notices \in Seq(Notice) /\ told \in [Turns -> Nat]

-----------------------------------------------------------------------------
(* Tasks *)

\* The step is one of task a, from p to q.
Moves(a, p, q) ==
    /\ a \in Actors /\ actor[a].pc = p /\ actor'[a].pc = q
    /\ \A b \in Actors : b # a => actor'[b] = actor[b]

At(r, p) == [r EXCEPT !.pc = p]

LEMMA Numbers ==
    /\ 0 \in 0..MaxTurns /\ 0 \in 0..MaxItems /\ 0 \in 0..MaxTokens
    /\ Turns \subseteq 0..MaxTurns /\ (\A t \in Turns : t # 0)
    /\ \A t \in 0..MaxTurns : t # 0 => t \in Turns
BY SMT DEF Turns

LEMMA ActorNumbers ==
    /\ Router \in Actors /\ Worker \in Actors /\ Router # Worker
    /\ Tokens \subseteq Actors /\ Router \notin Tokens /\ Worker \notin Tokens
    /\ Nobody \notin Actors
BY SMT DEF Router, Worker, Actors, Tokens, Nobody

LEMMA IdleTask ==
    /\ Idle \in Task
    /\ Idle.pc = "idle" /\ Idle.turn = 0 /\ Idle.item = 0 /\ Idle.failed = FALSE /\ Idle.ok = FALSE
<1>1. Idle \in Task
  BY Numbers, Zenon DEF Idle, Task, Pc
<1> QED
  BY <1>1, SMT DEF Idle

LEMMA TaskFields ==
    ASSUME NEW r \in Task
    PROVE  /\ r.pc \in Pc /\ r.turn \in 0..MaxTurns /\ r.item \in 0..MaxItems
           /\ r.failed \in BOOLEAN /\ r.ok \in BOOLEAN
BY Zenon DEF Task

LEMMA AtTask ==
    ASSUME NEW r \in Task, NEW p \in Pc
    PROVE  /\ At(r, p) \in Task
           /\ At(r, p).pc = p /\ At(r, p).turn = r.turn /\ At(r, p).item = r.item
           /\ At(r, p).failed = r.failed /\ At(r, p).ok = r.ok
<1>1. At(r, p) \in Task
  BY Zenon DEF Task, At
<1> QED
  BY <1>1, Zenon DEF At, Task

LEMMA Becomes ==
    ASSUME actor \in [Actors -> Task], NEW a \in Actors, NEW r \in Task,
           actor' = [actor EXCEPT ![a] = r]
    PROVE  /\ actor' \in [Actors -> Task] /\ actor'[a] = r
           /\ Moves(a, actor[a].pc, r.pc)
BY Zenon DEF Moves

\* The other steps that tasks take
Begin(p) == [Idle EXCEPT !.pc = p]
Taking(n) == [Idle EXCEPT !.pc = "route", !.item = n]
Working(p, t, o) == [Idle EXCEPT !.pc = p, !.turn = t, !.ok = o]
Timer(t, f) == [Idle EXCEPT !.pc = "asleep", !.turn = t, !.failed = f]
Finishing(t, f) == [pc |-> "finish", turn |-> t, item |-> 0, ok |-> FALSE, failed |-> f]
Answered(r, t) == [r EXCEPT !.turn = t]
Noticing(r, o) == [r EXCEPT !.pc = "notice", !.ok = o]

LEMMA BeginTask ==
    ASSUME NEW p \in Pc
    PROVE  Begin(p) \in Task /\ Begin(p).pc = p /\ Begin(p).item = 0
<1>1. Idle \in Task /\ Idle.item = 0
  BY IdleTask
<1>2. Begin(p) \in Task
  BY <1>1, Zenon DEF Begin, Task
<1>3. Begin(p).pc = p /\ Begin(p).item = Idle.item
  BY <1>1, Zenon DEF Begin, Task
<1> QED
  BY <1>1, <1>2, <1>3, Zenon

LEMMA TakingTask ==
    ASSUME NEW n \in 0..MaxItems
    PROVE  Taking(n) \in Task /\ Taking(n).pc = "route" /\ Taking(n).item = n
<1>1. Idle \in Task
  BY IdleTask
<1>2. Taking(n) \in Task
  BY <1>1, Zenon DEF Taking, Task, Pc
<1>3. Taking(n).pc = "route" /\ Taking(n).item = n
  BY <1>1, Zenon DEF Taking, Task
<1> QED
  BY <1>2, <1>3

LEMMA WorkingTask ==
    ASSUME NEW p \in Pc, NEW t \in 0..MaxTurns, NEW o \in BOOLEAN
    PROVE  /\ Working(p, t, o) \in Task /\ Working(p, t, o).pc = p
           /\ Working(p, t, o).turn = t /\ Working(p, t, o).item = 0
<1>1. Idle \in Task /\ Idle.item = 0
  BY IdleTask
<1>2. Working(p, t, o) \in Task
  BY <1>1, Zenon DEF Working, Task
<1>3. /\ Working(p, t, o).pc = p /\ Working(p, t, o).turn = t
      /\ Working(p, t, o).item = Idle.item
  BY <1>1, Zenon DEF Working, Task
<1> QED
  BY <1>1, <1>2, <1>3, Zenon

LEMMA TimerTask ==
    ASSUME NEW t \in 0..MaxTurns, NEW f \in BOOLEAN
    PROVE  Timer(t, f) \in Task /\ Timer(t, f).pc = "asleep" /\ Timer(t, f).turn = t
<1>1. Idle \in Task
  BY IdleTask
<1>2. Timer(t, f) \in Task
  BY <1>1, Zenon DEF Timer, Task, Pc
<1>3. Timer(t, f).pc = "asleep" /\ Timer(t, f).turn = t
  BY <1>1, Zenon DEF Timer, Task
<1> QED
  BY <1>2, <1>3

LEMMA FinishingTask ==
    ASSUME NEW t \in 0..MaxTurns, NEW f \in BOOLEAN
    PROVE  Finishing(t, f) \in Task /\ Finishing(t, f).pc = "finish" /\ Finishing(t, f).turn = t
<1>1. Finishing(t, f) \in Task
  BY Numbers, Zenon DEF Finishing, Task, Pc
<1> QED
  BY <1>1, SMT DEF Finishing

LEMMA AnsweredTask ==
    ASSUME NEW r \in Task, NEW t \in 0..MaxTurns
    PROVE  /\ Answered(r, t) \in Task /\ Answered(r, t).pc = r.pc
           /\ Answered(r, t).turn = t /\ Answered(r, t).item = r.item
<1>1. Answered(r, t) \in Task
  BY Zenon DEF Answered, Task
<1> QED
  BY <1>1, Zenon DEF Answered, Task

LEMMA NoticingTask ==
    ASSUME NEW r \in Task, NEW o \in BOOLEAN
    PROVE  /\ Noticing(r, o) \in Task /\ Noticing(r, o).pc = "notice"
           /\ Noticing(r, o).turn = r.turn /\ Noticing(r, o).item = r.item
           /\ Noticing(r, o).ok = o
<1>1. Noticing(r, o) \in Task
  BY Zenon DEF Noticing, Task, Pc
<1> QED
  BY <1>1, Zenon DEF Noticing, Task

\* One task takes a step.
LEMMA TaskStep ==
    ASSUME TaskInv, NEW a \in Actors, NEW r \in Task, Sound(r),
           actor' = [actor EXCEPT ![a] = r]
    PROVE  TaskInv' /\ actor'[a] = r /\ Moves(a, actor[a].pc, r.pc)
<1>1. /\ actor' \in [Actors -> Task] /\ actor'[a] = r /\ Moves(a, actor[a].pc, r.pc)
  BY Becomes, Zenon DEF TaskInv
<1>2. ASSUME NEW b \in Actors PROVE Sound(actor'[b])
  BY <1>1, Zenon DEF Moves, TaskInv
<1> QED
  BY <1>1, <1>2, Zenon DEF TaskInv

\* No task takes one.
LEMMA NoTaskStep ==
    ASSUME actor' = actor
    PROVE  Moves(Router, actor[Router].pc, actor[Router].pc) /\ (TaskInv => TaskInv')
<1>1. Moves(Router, actor[Router].pc, actor[Router].pc)
  BY ActorNumbers, Zenon DEF Moves
<1> QED
  BY <1>1, Zenon DEF TaskInv

-----------------------------------------------------------------------------
(* The queue *)

\* A task without the lock holds no message.
LEMMA FreeHoldsNothing ==
    ASSUME NEW a, ~Owns(a)
    PROVE  Held(a) = {}
BY Zenon DEF Owns, Held

\* Only one task has the lock, so only one holds a message.
LEMMA OneOwner ==
    ASSUME OpsHeld, NEW a \in Actors, Owns(a), NEW b \in Actors, b # a
    PROVE  ~Owns(b) /\ Held(b) = {}
BY FreeHoldsNothing, Zenon DEF OpsHeld

LEMMA HeldSame ==
    ASSUME NEW a, actor'[a] = actor[a]
    PROVE  Held(a)' = Held(a) /\ (Owns(a)' <=> Owns(a))
BY Zenon DEF Held, Owns

\* The locks are kept, whoever else a is.
OthersKeepLock(a) == \A b \in Actors : b # a /\ start_ops = b => start_ops' = b

LEMMA LockStep ==
    ASSUME OpsHeld, NEW a \in Actors, NEW p, NEW q, Moves(a, p, q), OthersKeepLock(a),
           Owns(a)' => start_ops' = a
    PROVE  OpsHeld'
<1> SUFFICES ASSUME NEW b \in Actors, Owns(b)' PROVE start_ops' = b
  BY DEF OpsHeld
<1>1. CASE b = a
  BY <1>1
<1>2. CASE b # a
  <2>1. Owns(b)
    BY <1>2, HeldSame, Zenon DEF Moves
  <2> QED
    BY <1>2, <2>1, Zenon DEF OpsHeld, OthersKeepLock
<1> QED
  BY <1>1, <1>2

\* A step that takes nothing from the queue but what it gives up
LEMMA QueueShrinks ==
    ASSUME QueueInv, OpsHeld', UNCHANGED <<items, submitted>>,
           queue' = queue \/ (queue' = <<>> /\ \A i \in DOMAIN queue : queue[i] \in dropped'),
           dropped \subseteq dropped', dropped' \subseteq 1..MaxItems,
           \A b \in Actors : Held(b)' \subseteq Held(b) /\ Held(b) \subseteq Held(b)' \cup dropped'
    PROVE  QueueInv'
<1>1. \A b \in Actors : Held(b)' \subseteq Held(b) /\ Held(b) \subseteq Held(b)' \cup dropped'
  OBVIOUS
<1>3. queue' \in Seq(1..MaxItems)
  <2>1. <<>> \in Seq(1..MaxItems)
    OBVIOUS
  <2> QED
    BY <2>1, Zenon DEF QueueInv
<1>4. DOMAIN queue' \subseteq DOMAIN queue /\ \A i \in DOMAIN queue' : queue'[i] = queue[i]
  BY SMT DEF QueueInv
<1>5. InQueueOrder'
  <2>0. InQueueOrder /\ submitted' = submitted /\ items' = items
    BY Zenon DEF QueueInv
  <2>1. /\ \A i, j \in DOMAIN queue' : i < j => queue'[i] < queue'[j]
        /\ \A i \in DOMAIN queue' : queue'[i] <= items'
        /\ \A i \in DOMAIN submitted' : submitted'[i] <= items'
        /\ \A i \in DOMAIN queue' : \A j \in DOMAIN submitted' : submitted'[j] < queue'[i]
    BY <1>4, <2>0, SMT DEF InQueueOrder
  <2>2. ASSUME NEW b \in Actors, NEW n \in Held(b)'
        PROVE  /\ n <= items' /\ \A i \in DOMAIN queue' : n < queue'[i]
               /\ \A j \in DOMAIN submitted' : submitted'[j] < n
    <3>1. n \in Held(b)
      BY <1>1, <2>2, Zenon
    <3> QED
      BY <1>4, <2>0, <3>1, SMT DEF InQueueOrder
  <2> QED
    BY <2>1, <2>2, Zenon DEF InQueueOrder
<1>6. ASSUME NEW n \in 1..items PROVE Accounted(n)'
  BY <1>1, Zenon DEF QueueInv, Accounted
<1> QED
  BY <1>3, <1>5, <1>6, Zenon DEF QueueInv, QueuedInOrder

LEMMA QueueKeeps ==
    ASSUME QueueInv, NEW a \in Actors, NEW p, NEW q, Moves(a, p, q), OthersKeepLock(a),
           Owns(a)' => start_ops' = a,
           UNCHANGED <<items, submitted>>,
           queue' = queue \/ (queue' = <<>> /\ \A i \in DOMAIN queue : queue[i] \in dropped'),
           dropped \subseteq dropped', dropped' \subseteq 1..MaxItems,
           Held(a)' \subseteq Held(a), Held(a) \subseteq Held(a)' \cup dropped'
    PROVE  QueueInv'
<1>1. OpsHeld'
  BY LockStep DEF QueueInv
<1>2. \A b \in Actors : Held(b)' \subseteq Held(b) /\ Held(b) \subseteq Held(b)' \cup dropped'
  BY HeldSame, Zenon DEF Moves
<1> QED
  BY <1>1, <1>2, QueueShrinks

LEMMA QueueQuiet ==
    ASSUME QueueInv, UNCHANGED <<queue, queueHistory, start_ops>>,
           NEW a \in Actors, NEW p, NEW q, Moves(a, p, q), ~Owns(a), ~Owns(a)'
    PROVE  QueueInv'
<1>1. Held(a) = {}
  BY FreeHoldsNothing
<1>2. Held(a)' = {}
  BY Zenon DEF Owns, Held
<1> QED
  BY <1>1, <1>2, QueueKeeps, Zenon DEF OthersKeepLock, queueHistory, QueueInv

LEMMA QueueSame ==
    ASSUME QueueInv, UNCHANGED <<queue, queueHistory, start_ops, actor>>
    PROVE  QueueInv'
BY Zenon DEF QueueInv, queueHistory, OpsHeld, InQueueOrder, QueuedInOrder, Accounted, Held, Owns

\* enqueue_telegram_turn_if_active
LEMMA QueueEnqueue == ASSUME QueueInv, TaskInv, Enqueue PROVE QueueInv'
<1>0. /\ queue' = Append(queue, items + 1) /\ items' = items + 1 /\ items < MaxItems
      /\ UNCHANGED <<submitted, dropped, actor, start_ops>>
  BY Zenon DEF Enqueue
<1>1. /\ items' \in 0..MaxItems /\ items + 1 \in 1..MaxItems
      /\ queue' \in Seq(1..MaxItems) /\ DOMAIN queue = 1..Len(queue) /\ Len(queue) \in Nat
      /\ DOMAIN queue' = 1..(Len(queue) + 1) /\ queue'[Len(queue) + 1] = items + 1
      /\ \A i \in DOMAIN queue : i \in DOMAIN queue' /\ queue'[i] = queue[i]
  BY <1>0, SMT DEF QueueInv
<1>2. \A a \in Actors : Held(a)' = Held(a) /\ (Owns(a)' <=> Owns(a))
  BY <1>0, HeldSame, Zenon
<1>3. \A i \in DOMAIN queue' : i \in DOMAIN queue \/ i = Len(queue) + 1
  BY <1>1, SMT
<1>4. OpsHeld'
  BY <1>0, <1>2, Zenon DEF OpsHeld, QueueInv
<1>5. /\ \A i, j \in DOMAIN queue' : i < j => queue'[i] < queue'[j]
      /\ \A i \in DOMAIN queue' : queue'[i] <= items'
  <2>1. \A i \in DOMAIN queue : queue[i] <= items /\ queue[i] \in Int
    BY SMT DEF QueueInv, InQueueOrder
  <2>2. \A i, j \in DOMAIN queue : i < j => queue[i] < queue[j]
    BY Zenon DEF QueueInv, InQueueOrder
  <2> QED
    BY <1>0, <1>1, <1>3, <2>1, <2>2, SMT DEF QueueInv
<1>6. /\ \A i \in DOMAIN submitted' : submitted'[i] <= items'
      /\ \A i \in DOMAIN queue' : \A j \in DOMAIN submitted' : submitted'[j] < queue'[i]
  <2>1. \A j \in DOMAIN submitted : submitted[j] <= items /\ submitted[j] \in Int /\ items \in Int
    BY SMT DEF QueueInv, InQueueOrder
  <2>2. \A i \in DOMAIN queue : \A j \in DOMAIN submitted : submitted[j] < queue[i]
    BY Zenon DEF QueueInv, InQueueOrder
  <2> QED
    BY <1>0, <1>1, <1>3, <2>1, <2>2, SMT
<1>7. ASSUME NEW a \in Actors, NEW n \in Held(a)'
      PROVE  /\ n <= items' /\ \A i \in DOMAIN queue' : n < queue'[i]
             /\ \A j \in DOMAIN submitted' : submitted'[j] < n
  <2>1. /\ n <= items /\ (\A i \in DOMAIN queue : n < queue[i])
        /\ (\A j \in DOMAIN submitted : submitted[j] < n)
    BY <1>2, <1>7, Zenon DEF QueueInv, InQueueOrder
  <2>2. n \in Int /\ items \in Int
    <3>1. n = actor[a].item
      BY <1>2, <1>7, Zenon DEF Held
    <3>2. actor[a].item \in 0..MaxItems
      BY TaskFields, Zenon DEF TaskInv
    <3> QED
      BY <3>1, <3>2, SMT DEF QueueInv
  <2> QED
    BY <1>0, <1>1, <1>3, <2>1, <2>2, SMT
<1>8. InQueueOrder'
  BY <1>5, <1>6, <1>7, Zenon DEF InQueueOrder
<1>9. ASSUME NEW n \in 1..items' PROVE Accounted(n)'
  <2>1. n \in 1..items \/ n = items + 1
    BY <1>0, SMT DEF QueueInv
  <2>2. Len(queue) + 1 \in DOMAIN queue'
    BY <1>1, SMT
  <2> QED
    BY <2>1, <2>2, <1>0, <1>1, <1>2, Zenon DEF QueueInv, Accounted
<1> QED
  BY <1>0, <1>1, <1>4, <1>8, <1>9, Zenon DEF QueueInv, QueuedInOrder

\* The next queued message is taken.
LEMMA QueueTake ==
    ASSUME QueueInv, TaskInv, NEW a \in Actors, Moves(a, "take", "route"),
           queue # <<>>, queue' = Tail(queue), actor'[a].item = Head(queue),
           UNCHANGED <<queueHistory, start_ops>>
    PROVE  QueueInv'
<1>0. /\ items' = items /\ submitted' = submitted /\ dropped' = dropped /\ start_ops' = start_ops
  BY Zenon DEF queueHistory
<1>q. /\ queue' \in Seq(1..MaxItems) /\ DOMAIN queue = 1..Len(queue) /\ Len(queue) \in Nat
      /\ DOMAIN queue' = 1..(Len(queue) - 1) /\ 1 \in DOMAIN queue /\ Head(queue) = queue[1]
      /\ Head(queue) \in 1..MaxItems /\ items \in 0..MaxItems
      /\ \A i \in DOMAIN queue' : i + 1 \in DOMAIN queue /\ queue'[i] = queue[i + 1]
  BY SMT DEF QueueInv
<1>1. Owns(a)
  BY Zenon DEF Owns, Moves
<1>2. Held(a) = {} /\ \A b \in Actors : b # a => Held(b) = {}
  BY <1>1, OneOwner, Zenon DEF QueueInv, Held, Moves
<1>3. Held(a)' = {Head(queue)}
  <2>1. Head(queue) # 0
    BY <1>q, SMT
  <2> QED
    BY <2>1, Zenon DEF Held, Moves
<1>4. \A b \in Actors : b # a => Held(b)' = {}
  BY <1>2, HeldSame, Zenon DEF Moves
<1>5. OpsHeld'
  BY <1>1, LockStep, Zenon DEF QueueInv, OthersKeepLock, queueHistory, OpsHeld
<1>6. InQueueOrder'
  <2>0. InQueueOrder
    BY DEF QueueInv
  <2>1. /\ \A i, j \in DOMAIN queue' : i < j => queue'[i] < queue'[j]
        /\ \A i \in DOMAIN queue' : queue'[i] <= items'
        /\ \A i \in DOMAIN submitted' : submitted'[i] <= items'
        /\ \A i \in DOMAIN queue' : \A j \in DOMAIN submitted' : submitted'[j] < queue'[i]
    BY <1>0, <1>q, <2>0, SMT DEF InQueueOrder
  <2>2. /\ Head(queue) <= items' /\ \A i \in DOMAIN queue' : Head(queue) < queue'[i]
        /\ \A j \in DOMAIN submitted' : submitted'[j] < Head(queue)
    <3>1. \A i \in DOMAIN queue' : i + 1 \in DOMAIN queue /\ 1 < i + 1 /\ queue'[i] = queue[i + 1]
      BY <1>q, SMT
    <3> QED
      BY <1>0, <1>q, <2>0, <3>1, Zenon DEF InQueueOrder
  <2>3. ASSUME NEW b \in Actors, NEW n \in Held(b)' PROVE n = Head(queue)
    <3>1. b = a
      BY <1>4, <2>3, Zenon
    <3> QED
      BY <1>3, <2>3, <3>1
  <2> QED
    BY <2>1, <2>2, <2>3, Zenon DEF InQueueOrder
<1>7. ASSUME NEW n \in 1..items' PROVE Accounted(n)'
  <2>1. Accounted(n)
    BY <1>0, Zenon DEF QueueInv
  <2>2. ASSUME NEW i \in DOMAIN queue, queue[i] = n
        PROVE  n = Head(queue) \/ \E j \in DOMAIN queue' : queue'[j] = n
    <3>1. CASE i = 1
      BY <3>1, <2>2, <1>q, SMT
    <3>2. CASE i # 1
      <4>1. i - 1 \in DOMAIN queue' /\ queue'[i - 1] = n
        BY <3>2, <2>2, <1>q, SMT
      <4> QED BY <4>1
    <3> QED BY <3>1, <3>2
  <2>3. n = Head(queue) => n \in Held(a)'
    BY <1>3, Zenon
  <2> QED
    BY <2>1, <2>2, <2>3, <1>0, <1>2, Zenon DEF Accounted
<1> QED
  BY <1>0, <1>q, <1>5, <1>6, <1>7, Zenon DEF QueueInv, QueuedInOrder

\* turn/start is sent for the message.
LEMMA QueueSubmit ==
    ASSUME QueueInv, TaskInv, NEW a \in Actors, Moves(a, "mark", "await"),
           actor[a].item # 0, actor'[a].item = actor[a].item,
           submitted' = Append(submitted, actor[a].item),
           UNCHANGED <<queue, items, dropped, start_ops>>
    PROVE  QueueInv'
<1> DEFINE n0 == actor[a].item
<1>0. /\ items' = items /\ queue' = queue /\ dropped' = dropped /\ start_ops' = start_ops
  OBVIOUS
<1>t. n0 \in 0..MaxItems
  BY TaskFields, Zenon DEF TaskInv
<1>1. Owns(a)
  BY Zenon DEF Owns, Moves
<1>2. Held(a) = {n0} /\ \A b \in Actors : b # a => Held(b) = {}
  BY <1>1, OneOwner, Zenon DEF QueueInv, Held, Moves
<1>3. Held(a)' = {}
  BY Zenon DEF Held, Moves
<1>4. \A b \in Actors : Held(b)' = {}
  BY <1>2, <1>3, HeldSame, Zenon DEF Moves
<1>5. OpsHeld'
  BY <1>1, LockStep, Zenon DEF QueueInv, OthersKeepLock, OpsHeld
<1>6. /\ n0 <= items /\ (\A i \in DOMAIN queue : n0 < queue[i])
      /\ (\A j \in DOMAIN submitted : submitted[j] < n0)
  BY <1>2, Zenon DEF QueueInv, InQueueOrder
<1> HIDE DEF n0
<1>q. submitted' = Append(submitted, n0) /\ n0 # 0
  BY DEF n0
<1>s. /\ submitted' \in Seq(1..MaxItems) /\ DOMAIN submitted = 1..Len(submitted)
      /\ Len(submitted) \in Nat
      /\ DOMAIN submitted' = 1..(Len(submitted) + 1) /\ submitted'[Len(submitted) + 1] = n0
      /\ \A i \in DOMAIN submitted : i \in DOMAIN submitted' /\ submitted'[i] = submitted[i]
      /\ \A i \in DOMAIN submitted' : i \in DOMAIN submitted \/ i = Len(submitted) + 1
  BY <1>q, <1>t, SMT DEF QueueInv
<1>7. QueuedInOrder'
  <2>1. \A i, j \in DOMAIN submitted' : i < j => submitted'[i] < submitted'[j]
    BY <1>s, <1>6, SMT DEF QueueInv, QueuedInOrder
  <2> QED
    BY <2>1, Zenon DEF QueuedInOrder
<1>8. InQueueOrder'
  <2>0. InQueueOrder
    BY DEF QueueInv
  <2>1. /\ \A i, j \in DOMAIN queue' : i < j => queue'[i] < queue'[j]
        /\ \A i \in DOMAIN queue' : queue'[i] <= items'
    BY <1>0, <2>0, Zenon DEF InQueueOrder
  <2>2. \A i \in DOMAIN submitted' : submitted'[i] <= items'
    BY <1>0, <1>s, <1>6, <2>0, Zenon DEF InQueueOrder
  <2>3. \A i \in DOMAIN queue' : \A j \in DOMAIN submitted' : submitted'[j] < queue'[i]
    BY <1>0, <1>s, <1>6, <2>0, Zenon DEF InQueueOrder
  <2> QED
    BY <1>4, <2>1, <2>2, <2>3, Zenon DEF InQueueOrder
<1>9. ASSUME NEW n \in 1..items' PROVE Accounted(n)'
  <2>1. Accounted(n)
    BY <1>0, Zenon DEF QueueInv
  <2>2. Len(submitted) + 1 \in DOMAIN submitted'
    BY <1>s, SMT
  <2>3. \A b \in Actors : \A m \in Held(b) : m = n0
    BY <1>2, Zenon
  <2> QED
    BY <2>1, <2>2, <2>3, <1>0, <1>s, Zenon DEF Accounted
<1> QED
  BY <1>0, <1>s, <1>5, <1>7, <1>8, <1>9, Zenon DEF QueueInv

\* requeue_telegram_turn_front
LEMMA QueueRequeue ==
    ASSUME QueueInv, TaskInv, NEW a \in Actors, Moves(a, "requeue", "idle"),
           queue' = <<actor[a].item>> \o queue, start_ops' = Nobody,
           UNCHANGED queueHistory
    PROVE  QueueInv'
<1> DEFINE n0 == actor[a].item
<1>0. /\ items' = items /\ submitted' = submitted /\ dropped' = dropped
  BY Zenon DEF queueHistory
<1>t. n0 \in 0..MaxItems /\ n0 # 0
  BY TaskFields, Zenon DEF TaskInv, Sound, Moves
<1>1. Owns(a)
  BY Zenon DEF Owns, Moves
<1>2. Held(a) = {n0} /\ \A b \in Actors : b # a => Held(b) = {} /\ ~Owns(b)
  BY <1>1, <1>t, OneOwner, Zenon DEF QueueInv, Held, Moves
<1>3. Held(a)' = {} /\ ~Owns(a)'
  BY Zenon DEF Held, Moves, Owns
<1>4. \A b \in Actors : Held(b)' = {} /\ ~Owns(b)'
  BY <1>2, <1>3, HeldSame, Zenon DEF Moves
<1>5. OpsHeld'
  BY <1>4, Zenon DEF OpsHeld
<1>6. /\ n0 <= items /\ (\A i \in DOMAIN queue : n0 < queue[i])
      /\ (\A j \in DOMAIN submitted : submitted[j] < n0)
  BY <1>2, Zenon DEF QueueInv, InQueueOrder
<1> HIDE DEF n0
<1>p. queue' = <<n0>> \o queue
  BY DEF n0
<1>q. /\ queue' \in Seq(1..MaxItems) /\ DOMAIN queue = 1..Len(queue) /\ Len(queue) \in Nat
      /\ DOMAIN queue' = 1..(Len(queue) + 1) /\ queue'[1] = n0
      /\ \A i \in DOMAIN queue : i + 1 \in DOMAIN queue' /\ queue'[i + 1] = queue[i]
      /\ \A i \in DOMAIN queue' : i = 1 \/ (i - 1 \in DOMAIN queue /\ queue'[i] = queue[i - 1])
  BY <1>p, <1>t, SMT DEF QueueInv
<1>8. InQueueOrder'
  <2>0. InQueueOrder
    BY DEF QueueInv
  <2>1. ASSUME NEW i \in DOMAIN queue', NEW j \in DOMAIN queue', i < j
        PROVE  queue'[i] < queue'[j]
    <3>1. j # 1 /\ j - 1 \in DOMAIN queue /\ queue'[j] = queue[j - 1]
      BY <1>q, <2>1, SMT
    <3>2. CASE i = 1
      BY <1>q, <1>6, <3>1, <3>2, Zenon
    <3>3. CASE i # 1
      <4>1. i - 1 \in DOMAIN queue /\ queue'[i] = queue[i - 1] /\ i - 1 < j - 1
        BY <1>q, <2>1, <3>1, <3>3, SMTT(30)
      <4> QED
        BY <2>0, <3>1, <4>1, Zenon DEF InQueueOrder
    <3> QED
      BY <3>2, <3>3
  <2>2. \A i \in DOMAIN queue' : queue'[i] <= items'
    BY <1>0, <1>q, <1>6, <2>0, Zenon DEF InQueueOrder
  <2>3. \A i \in DOMAIN submitted' : submitted'[i] <= items'
    BY <1>0, <2>0, Zenon DEF InQueueOrder
  <2>4. \A i \in DOMAIN queue' : \A j \in DOMAIN submitted' : submitted'[j] < queue'[i]
    BY <1>0, <1>q, <1>6, <2>0, Zenon DEF InQueueOrder
  <2> QED
    BY <1>4, <2>1, <2>2, <2>3, <2>4, Zenon DEF InQueueOrder
<1>9. ASSUME NEW n \in 1..items' PROVE Accounted(n)'
  <2>1. Accounted(n)
    BY <1>0, Zenon DEF QueueInv
  <2>2. 1 \in DOMAIN queue'
    BY <1>q, SMT
  <2>3. \A b \in Actors : \A m \in Held(b) : m = n0
    BY <1>2, Zenon
  <2>4. (\E i \in DOMAIN queue : queue[i] = n) => \E i \in DOMAIN queue' : queue'[i] = n
    BY <1>q, Zenon
  <2>5. n = n0 => \E i \in DOMAIN queue' : queue'[i] = n
    BY <1>q, <2>2, Zenon
  <2> QED
    BY <2>1, <2>3, <2>4, <2>5, <1>0, Zenon DEF Accounted
<1> QED
  BY <1>0, <1>q, <1>5, <1>8, <1>9, Zenon DEF QueueInv, QueuedInOrder

-----------------------------------------------------------------------------
(* The app-server and the tokens *)

LEMMA StatusFinite ==
    ASSUME NEW s \in Seq(Notification)
    PROVE  IsFiniteSet(StatusIn(s)) /\ Cardinality(StatusIn(s)) \in Nat
<1>1. StatusIn(s) \in SUBSET (1..Len(s)) /\ Len(s) \in Int
  BY SMT DEF StatusIn
<1>2. IsFiniteSet(1..Len(s))
  BY <1>1, FS_Interval
<1>3. IsFiniteSet(StatusIn(s))
  BY <1>1, <1>2, FS_Subset
<1> QED
  BY <1>3, FS_CardinalityType

\* A status costs what it may cost; the other notifications nothing.
LEMMA AppendStatus ==
    ASSUME NEW s \in Seq(Notification), NEW e \in Notification
    PROVE  /\ e.kind = "status" => Cardinality(StatusIn(Append(s, e))) = Cardinality(StatusIn(s)) + 1
           /\ e.kind # "status" => Cardinality(StatusIn(Append(s, e))) = Cardinality(StatusIn(s))
<1>1. /\ Len(s) \in Nat /\ DOMAIN s = 1..Len(s) /\ DOMAIN Append(s, e) = 1..(Len(s) + 1)
      /\ Append(s, e)[Len(s) + 1] = e /\ \A i \in DOMAIN s : Append(s, e)[i] = s[i]
      /\ \A i \in DOMAIN Append(s, e) : i \in DOMAIN s \/ i = Len(s) + 1
      /\ \A i \in DOMAIN s : i \in DOMAIN Append(s, e)
      /\ Len(s) + 1 \in DOMAIN Append(s, e) /\ Len(s) + 1 \notin DOMAIN s
  BY SMT
<1>2. e.kind # "status" => StatusIn(Append(s, e)) = StatusIn(s)
  BY <1>1, Zenon DEF StatusIn
<1>3. e.kind = "status" => StatusIn(Append(s, e)) = StatusIn(s) \cup {Len(s) + 1}
  BY <1>1, Zenon DEF StatusIn
<1>4. Len(s) + 1 \notin StatusIn(s)
  BY <1>1, Zenon DEF StatusIn
<1> QED
  BY <1>2, <1>3, <1>4, StatusFinite, FS_AddElement

LEMMA TailStatus ==
    ASSUME NEW s \in Seq(Notification), s # <<>>
    PROVE  /\ Cardinality(StatusIn(Tail(s))) <= Cardinality(StatusIn(s))
           /\ Head(s).kind = "status" =>
                 Cardinality(StatusIn(Tail(s))) <= Cardinality(StatusIn(s)) - 1
<1>1. /\ Len(s) \in Nat /\ DOMAIN s = 1..Len(s) /\ 1 \in DOMAIN s /\ Head(s) = s[1]
      /\ DOMAIN Tail(s) = 1..(Len(s) - 1) /\ Tail(s) \in Seq(Notification)
      /\ \A i \in DOMAIN Tail(s) : i + 1 \in DOMAIN s /\ i + 1 # 1 /\ Tail(s)[i] = s[i + 1]
  BY SMT
<1> DEFINE f == [i \in StatusIn(Tail(s)) |-> i + 1]
<1>2. \A i \in StatusIn(Tail(s)) : f[i] \in StatusIn(s) \ {1}
  BY <1>1, Zenon DEF StatusIn
<1>3. \A i, j \in StatusIn(Tail(s)) : f[i] = f[j] => i = j
  <2>1. StatusIn(Tail(s)) \subseteq Int
    BY <1>1, SMT DEF StatusIn
  <2> QED
    BY <2>1, SMT
<1>4. f \in Injection(StatusIn(Tail(s)), StatusIn(s) \ {1})
  <2>1. f \in [StatusIn(Tail(s)) -> StatusIn(s) \ {1}]
    BY <1>2, Zenon
  <2> HIDE DEF f
  <2> QED
    BY <1>3, <2>1, Zenon DEF Injection, IsInjective
<1> HIDE DEF f
<1>5. IsFiniteSet(StatusIn(s) \ {1}) /\ Cardinality(StatusIn(s)) \in Nat
  BY StatusFinite, FS_RemoveElement
<1>6. Cardinality(StatusIn(Tail(s))) <= Cardinality(StatusIn(s) \ {1})
  BY <1>4, <1>5, FS_Injection
<1>7. Cardinality(StatusIn(s) \ {1}) =
          IF 1 \in StatusIn(s) THEN Cardinality(StatusIn(s)) - 1 ELSE Cardinality(StatusIn(s))
  BY StatusFinite, FS_RemoveElement
<1>8. Head(s).kind = "status" => 1 \in StatusIn(s)
  BY <1>1, Zenon DEF StatusIn
<1>9. Cardinality(StatusIn(Tail(s))) \in Nat
  BY <1>1, StatusFinite
<1> QED
  BY <1>5, <1>6, <1>7, <1>8, <1>9

LEMMA ServerFields ==
    ASSUME NEW s \in AppServer
    PROVE  /\ s.turn \in 0..MaxTurns /\ s.running \in BOOLEAN /\ s.started \in BOOLEAN
           /\ s.failed \in BOOLEAN /\ s.owes \subseteq Farewell
BY Zenon DEF AppServer

LEMMA OwedType == \A s : Owed(s) \in {0, 2}
BY SMT DEF Owed

LEMMA SpentType ==
    ASSUME ServerInv
    PROVE  /\ token \in Nat /\ server.turn \in Nat /\ Owed(server) \in Nat
           /\ Cardinality(StatusIn(channel)) \in Nat
<1>1. server \in AppServer /\ channel \in Seq(Notification) /\ token \in 0..MaxTokens
  BY Zenon DEF ServerInv
<1>2. server.turn \in 0..MaxTurns
  BY <1>1, ServerFields
<1> QED
  BY <1>1, <1>2, StatusFinite, OwedType, SMT

LEMMA ServerSame == ASSUME ServerInv, UNCHANGED <<server, channel, token>> PROVE ServerInv'
<1>1. server' = server /\ channel' = channel /\ token' = token
  OBVIOUS
<1> QED
  BY <1>1, Zenon DEF ServerInv, TokenBudget, Spent

\* A turn starts.
LEMMA ServerStarts ==
    ASSUME ServerInv, ~server.running, server.owes = {}, server.turn < MaxTurns,
           server' = NewTurn, UNCHANGED <<channel, token>>
    PROVE  ServerInv' /\ server.turn + 1 \in Turns
<1>0. channel' = channel /\ token' = token
  OBVIOUS
<1>1. server.turn + 1 \in Turns /\ server.turn + 1 \in 0..MaxTurns
  BY SpentType, SMT DEF Turns
<1>2. server' \in AppServer
  BY <1>1, Zenon DEF NewTurn, AppServer
<1>3. /\ server'.turn = server.turn + 1 /\ server'.running = TRUE /\ server'.owes = {}
      /\ Owed(server') = 0 /\ Owed(server) = 0
  BY SMT DEF NewTurn, Owed
<1>4. TokenBudget'
  <2>1. Spent' = Spent
    BY <1>0, <1>3, Zenon DEF Spent
  <2>2. Spent <= MaxTokens /\ Spent <= 2 * server.turn /\ Spent \in Nat
    BY SpentType, SMT DEF ServerInv, TokenBudget, Spent
  <2>3. /\ Spent' <= MaxTokens /\ Spent' <= 2 * server'.turn
        /\ Spent' <= 2 * (server'.turn - 1) /\ server'.turn # 0
    BY <1>3, <2>1, <2>2, SpentType, SMT
  <2> QED
    BY <1>3, <2>3, Zenon DEF TokenBudget
<1> QED
  BY <1>0, <1>1, <1>2, <1>4, Zenon DEF ServerInv

Ended(failed, s) == [server EXCEPT !.running = FALSE, !.failed = failed, !.owes = s]

\* A turn ends, by itself or by an interrupt.
LEMMA ServerEnds ==
    ASSUME ServerInv, server.running, NEW failed \in BOOLEAN, NEW s \in Farewells(failed),
           server' = Ended(failed, s), UNCHANGED <<channel, token>>
    PROVE  ServerInv' /\ server'.turn = server.turn
<1>0. channel' = channel /\ token' = token
  OBVIOUS
<1>1. /\ s \subseteq Farewell
      /\ "status" \in s => 2 * server.turn <= MaxTokens
  BY Zenon DEF Farewells, Farewell
<1>2. server \in AppServer
  BY Zenon DEF ServerInv
<1>3. server' \in AppServer
  BY <1>1, <1>2, Zenon DEF AppServer, Ended
<1>4. server'.turn = server.turn /\ server'.running = FALSE /\ server'.owes = s
  BY <1>2, Zenon DEF AppServer, Ended
<1>5. TokenBudget'
  <2>1. server.owes = {} /\ server.turn # 0 /\ Spent <= 2 * (server.turn - 1) /\ Spent <= MaxTokens
    BY Zenon DEF ServerInv, TokenBudget
  <2>2. Owed(server) = 0 /\ Owed(server') = IF "status" \in s THEN 2 ELSE 0
    BY <1>4, <2>1, SMT DEF Owed
  <2>3. Spent \in Nat /\ Spent' = Spent + Owed(server')
    BY <1>0, <2>2, SpentType, OwedType, SMT DEF Spent
  <2>4. Spent' <= MaxTokens /\ Spent' <= 2 * server.turn
    BY <1>1, <2>1, <2>2, <2>3, SpentType, SMT
  <2> QED
    BY <1>4, <2>1, <2>4, Zenon DEF TokenBudget
<1> QED
  BY <1>0, <1>3, <1>4, <1>5, Zenon DEF ServerInv

\* Something is said that costs no more than was reserved for it.
LEMMA ServerSays1 ==
    ASSUME ServerInv, server' \in AppServer, server'.turn = server.turn,
           server'.running = server.running, server'.owes \subseteq server.owes,
           channel' \in Seq(Notification), token' \in Nat, Spent' <= Spent
    PROVE  ServerInv'
<1>1. Spent \in Nat /\ Spent' \in Nat /\ Cardinality(StatusIn(channel')) \in Nat
  <2>1. Cardinality(StatusIn(channel')) \in Nat /\ Owed(server') \in Nat
    BY StatusFinite, OwedType, SMT
  <2>2. Spent' = token' + Cardinality(StatusIn(channel')) + Owed(server')
    BY Zenon DEF Spent
  <2>3. Spent \in Nat
    BY SpentType, SMT DEF Spent
  <2>4. Spent' \in Nat
    BY <2>1, <2>2, SMT
  <2> QED
    BY <2>1, <2>3, <2>4
<1>2. TokenBudget'
  <2>1. TokenBudget
    BY DEF ServerInv
  <2>2. /\ Spent <= MaxTokens /\ Spent <= 2 * server.turn
        /\ server.running => Spent <= 2 * (server.turn - 1)
    BY <2>1, Zenon DEF TokenBudget
  <2>3. /\ Spent' <= MaxTokens /\ Spent' <= 2 * server.turn
        /\ server.running => Spent' <= 2 * (server.turn - 1)
    <3>1. \A n \in Int : Spent <= n => Spent' <= n
      BY <1>1, SMT
    <3>2. MaxTokens \in Int /\ 2 * server.turn \in Int /\ 2 * (server.turn - 1) \in Int
      BY SpentType, SMT
    <3> QED
      BY <2>2, <3>1, <3>2, Zenon
  <2>4. server.running => server'.owes = {}
    BY <2>1, Zenon DEF TokenBudget
  <2>5. server'.owes # {} => server.owes # {}
    OBVIOUS
  <2> QED
    BY <2>1, <2>3, <2>4, <2>5, Zenon DEF TokenBudget
<1>3. token' \in 0..MaxTokens
  <2>1. Spent' <= MaxTokens
    BY <1>2, Zenon DEF TokenBudget
  <2>2. Owed(server') \in Nat
    BY OwedType, SMT
  <2> QED
    BY <1>1, <2>1, <2>2, SMT DEF Spent
<1> QED
  BY <1>2, <1>3, Zenon DEF ServerInv

\* What is said about a turn that there is
LEMMA EventType ==
    ASSUME ServerInv, NEW kind \in Kind, server.running \/ server.owes # {}
    PROVE  /\ Event(kind) \in Notification /\ Event(kind).kind = kind
           /\ server.turn \in Turns
<1>1. server.turn # 0 /\ server \in AppServer
  BY Zenon DEF ServerInv, TokenBudget
<1>2. server.turn \in Turns /\ server.failed \in BOOLEAN
  BY <1>1, ServerFields, Numbers, Zenon
<1>3. Event(kind) \in Notification
  BY <1>2, Zenon DEF Event, Notification
<1> QED
  BY <1>2, <1>3, Zenon DEF Event

LEMMA SayStartedServer ==
    ASSUME ServerInv, SayStarted
    PROVE  ServerInv' /\ client_turn' \in 0..MaxTurns
<1>0. /\ server.running /\ server' = [server EXCEPT !.started = TRUE]
      /\ channel' = Append(channel, Event("started")) /\ token' = token
      /\ client_turn' = server.turn
  BY Zenon DEF SayStarted, runtimeVars
<1>1. /\ server \in AppServer /\ channel \in Seq(Notification)
  BY Zenon DEF ServerInv
<1>2. server' \in AppServer
  BY <1>0, <1>1, Zenon DEF AppServer
<1>3. server'.turn = server.turn /\ server'.running = server.running /\ server'.owes = server.owes
  BY <1>0, <1>1, Zenon DEF AppServer
<1>4. Event("started") \in Notification /\ Event("started").kind # "status" /\ server.turn \in Turns
  <2>1. "started" \in Kind /\ "started" # "status"
    BY Zenon DEF Kind
  <2> QED
    BY <1>0, <2>1, EventType, Zenon
<1> HIDE DEF Event
<1>5. channel' \in Seq(Notification)
  BY <1>0, <1>1, <1>4, SMT
<1>6. Spent' = Spent
  <2>1. Owed(server') = Owed(server)
    BY <1>3, Zenon DEF Owed
  <2>2. Cardinality(StatusIn(channel')) = Cardinality(StatusIn(channel))
    BY <1>0, <1>1, <1>4, AppendStatus, Zenon
  <2> QED
    BY <1>0, <2>1, <2>2, Zenon DEF Spent
<1>7. Spent' <= Spent /\ token' \in Nat
  <2>1. Spent \in Nat
    BY SpentType, SMT DEF Spent
  <2> QED
    BY <1>0, <1>6, <2>1, SpentType, SMT
<1> QED
  BY <1>0, <1>2, <1>3, <1>4, <1>5, <1>7, ServerSays1, Numbers, Zenon

Less(kind) == [server EXCEPT !.owes = server.owes \ {kind}]

LEMMA LessFields ==
    ASSUME server \in AppServer, NEW kind
    PROVE  /\ Less(kind) \in AppServer /\ Less(kind).turn = server.turn
           /\ Less(kind).running = server.running /\ Less(kind).owes = server.owes \ {kind}
<1>1. server.owes \ {kind} \subseteq Farewell
  BY ServerFields
<1>2. Less(kind) \in AppServer
  BY <1>1, Zenon DEF Less, AppServer
<1> QED
  BY <1>2, Zenon DEF Less, AppServer

LEMMA SayTerminalServer ==
    ASSUME ServerInv, NEW kind \in {"error", "completed"}, SayTerminal(kind)
    PROVE  ServerInv'
<1>0. /\ kind \in server.owes /\ server' = Less(kind)
      /\ channel' = Append(channel, Event(kind)) /\ token' = token
  BY Zenon DEF SayTerminal, Less
<1>1. /\ server \in AppServer /\ channel \in Seq(Notification)
  BY Zenon DEF ServerInv
<1>2. /\ server' \in AppServer /\ server'.turn = server.turn /\ server'.running = server.running
      /\ server'.owes = server.owes \ {kind}
  BY <1>0, <1>1, LessFields, Zenon
<1>3. Event(kind) \in Notification /\ Event(kind).kind # "status"
  <2>1. kind \in Kind /\ kind # "status" /\ server.owes # {}
    BY <1>0, Zenon DEF Kind
  <2> QED
    BY <2>1, EventType, Zenon
<1>4. channel' \in Seq(Notification)
  BY <1>0, <1>1, <1>3, AppendProperties
<1>5. Owed(server') = Owed(server)
  BY <1>2, SMT DEF Owed
<1>6. Cardinality(StatusIn(channel')) = Cardinality(StatusIn(channel))
  BY <1>0, <1>1, <1>3, AppendStatus, Zenon
<1>7. Spent' <= Spent /\ token' \in Nat
  BY <1>0, <1>5, <1>6, SpentType, SMT DEF Spent
<1>8. server'.owes \subseteq server.owes
  BY <1>2
<1> QED
  BY <1>2, <1>4, <1>7, <1>8, ServerSays1, Zenon

LEMMA SayStatusServer ==
    ASSUME ServerInv, SayStatus
    PROVE  ServerInv'
<1>0. /\ "status" \in server.owes /\ server' = Less("status")
      /\ channel' = Append(channel, Event("status")) /\ token' \in {token, token + 1}
  BY Zenon DEF SayStatus, Less
<1>1. /\ server \in AppServer /\ channel \in Seq(Notification)
  BY Zenon DEF ServerInv
<1>2. /\ server' \in AppServer /\ server'.turn = server.turn /\ server'.running = server.running
      /\ server'.owes = server.owes \ {"status"}
  BY <1>0, <1>1, LessFields, Zenon
<1>3. Event("status") \in Notification /\ Event("status").kind = "status"
  <2>1. "status" \in Kind /\ server.owes # {}
    BY <1>0, Zenon DEF Kind
  <2> QED
    BY <2>1, EventType, Zenon
<1>4. channel' \in Seq(Notification)
  BY <1>0, <1>1, <1>3, AppendProperties
<1>5. Owed(server') = 0 /\ Owed(server) = 2
  BY <1>0, <1>2, SMT DEF Owed
<1>6. Cardinality(StatusIn(channel')) = Cardinality(StatusIn(channel)) + 1
  BY <1>0, <1>1, <1>3, AppendStatus, Zenon
<1>7. Spent' <= Spent /\ token' \in Nat
  BY <1>0, <1>5, <1>6, SpentType, SMT DEF Spent
<1>8. server'.owes \subseteq server.owes
  BY <1>2
<1> QED
  BY <1>2, <1>4, <1>7, <1>8, ServerSays1, Zenon

\* The router takes a notification.
LEMMA ReceiveServer ==
    ASSUME ServerInv, channel # <<>>, channel' = Tail(channel), server' = server,
           \/ token' = token
           \/ token' = token + 1 /\ Head(channel).kind = "status"
    PROVE  ServerInv' /\ Head(channel) \in Notification
<1>1. /\ server \in AppServer /\ channel \in Seq(Notification)
  BY Zenon DEF ServerInv
<1>2. channel' \in Seq(Notification) /\ Head(channel) \in Notification
  BY <1>1, HeadTailProperties
<1>3. Owed(server') = Owed(server)
  BY Zenon
<1>4. /\ Cardinality(StatusIn(channel')) <= Cardinality(StatusIn(channel))
      /\ Head(channel).kind = "status" =>
            Cardinality(StatusIn(channel')) <= Cardinality(StatusIn(channel)) - 1
      /\ Cardinality(StatusIn(channel')) \in Nat
  BY <1>1, <1>2, TailStatus, StatusFinite, Zenon
<1>5. Spent' <= Spent /\ token' \in Nat
  BY <1>3, <1>4, SpentType, SMT DEF Spent
<1>6. server'.turn = server.turn /\ server'.running = server.running /\ server'.owes \subseteq server.owes
  BY Zenon
<1> QED
  BY <1>1, <1>2, <1>5, <1>6, ServerSays1, Zenon

\* A new bridge subscribes anew.
LEMMA RestartServer ==
    ASSUME ServerInv, channel' = <<>>, UNCHANGED <<server, token>>
    PROVE  ServerInv'
<1>1. server' = server /\ token' = token /\ channel' \in Seq(Notification)
  OBVIOUS
<1>2. StatusIn(channel') = {}
  BY SMT DEF StatusIn
<1>3. Cardinality(StatusIn(channel')) = 0
  BY <1>2, FS_EmptySet
<1>4. Spent' <= Spent /\ token' \in Nat
  <2>1. Owed(server') = Owed(server)
    BY <1>1, Zenon
  <2> QED
    BY <1>1, <1>3, <2>1, SpentType, SMT DEF Spent
<1>5. /\ server' \in AppServer /\ server'.turn = server.turn /\ server'.running = server.running
      /\ server'.owes \subseteq server.owes
  BY <1>1, Zenon DEF ServerInv
<1> QED
  BY <1>1, <1>4, <1>5, ServerSays1, Zenon

-----------------------------------------------------------------------------
(* The timers *)

\* The tasks of the tokens may stop and go on, and the latch may be cleared.
LEMMA TimerKeeps ==
    ASSUME TimerInv, token \in 0..MaxTokens, token' = token, orphans' \subseteq orphans,
           latch' = latch \/ latch' = NoLatch,
           NEW a \in Actors, NEW p, NEW q, Moves(a, p, q),
           a \in Tokens /\ p = "idle" => q = "idle"
    PROVE  TimerInv'
<1>1. NoLatch \in Latch
  BY Numbers, Zenon DEF NoLatch, Latch
<1>2. latch' \in Latch /\ orphans' \subseteq (Tokens \X Turns)
  BY <1>1, Zenon DEF TimerInv
<1>3. \A k \in Tokens : actor[k].pc = "idle" => actor'[k].pc = "idle"
  BY ActorNumbers, Zenon DEF Moves
<1>4. ASSUME latch' # NoLatch
      PROVE  latch'.token \in 1..token' /\ (~latch'.event => actor'[latch'.token].pc = "idle")
  <2>1. latch' = latch /\ latch.token \in 1..token /\ (~latch.event => actor[latch.token].pc = "idle")
    BY <1>4, Zenon DEF TimerInv, TimersFresh
  <2>2. \A k \in 1..token : k \in Tokens
    BY SMT DEF Tokens
  <2> QED
    BY <1>3, <2>1, <2>2, Zenon
<1>5. \A k \in Tokens : k > token' => actor'[k].pc = "idle"
  BY <1>3, Zenon DEF TimerInv, TimersFresh
<1> QED
  BY <1>2, <1>4, <1>5, Zenon DEF TimerInv, TimersFresh

-----------------------------------------------------------------------------
(* The reservation *)

LEMMA ReservationKeeps ==
    ASSUME ReservationInv, bound' = bound, forsaken' = forsaken, starting' => starting,
           NEW a \in Actors, NEW p, NEW q, Moves(a, p, q),
           q = "mark" => bound \/ p = "mark", p = "await" /\ starting' => q = "await"
    PROVE  ReservationInv'
<1>1. UnboundIsFree'
  BY Zenon DEF ReservationInv, UnboundIsFree, Moves
<1>2. ReservationHasOwner'
  BY Zenon DEF ReservationInv, ReservationHasOwner, Moves
<1> QED
  BY <1>1, <1>2 DEF ReservationInv

\* try_mark_turn_starting reserves the thread.
LEMMA ReservationMade ==
    ASSUME ReservationInv, UNCHANGED <<bound, forsaken>>,
           NEW a \in Actors, Moves(a, "mark", "await")
    PROVE  ReservationInv'
<1>1. UnboundIsFree'
  BY Zenon DEF ReservationInv, UnboundIsFree, Moves
<1>2. ReservationHasOwner'
  BY Zenon DEF ReservationInv, ReservationHasOwner, Moves
<1> QED
  BY <1>1, <1>2 DEF ReservationInv

\* The binding is dropped; a task that has looked it up is forsaken.
LEMMA ReservationLoses ==
    ASSUME ReservationInv, bound' = FALSE, Forsake, starting' => starting /\ ~bound,
           NEW a \in Actors, NEW p, NEW q, Moves(a, p, q), q # "mark"
    PROVE  ReservationInv'
<1>1. ~forsaken' => ~forsaken /\ \A b \in Actors : actor[b].pc # "mark"
  BY Zenon DEF Forsake
<1>2. ~forsaken' => ~starting'
  BY <1>1, Zenon DEF ReservationInv, UnboundIsFree
<1>3. ~forsaken' => \A b \in Actors : actor'[b].pc # "mark"
  BY <1>1, Zenon DEF Moves
<1> QED
  BY <1>2, <1>3, Zenon DEF ReservationInv, UnboundIsFree, ReservationHasOwner

-----------------------------------------------------------------------------
(* The task that starts the queue *)

LEMMA WillStartSame ==
    ASSUME NEW a, actor'[a] = actor[a]
    PROVE  WillStart(a)' <=> WillStart(a)
BY Zenon DEF WillStart

\* Nothing begins to wait without a binding.
LEMMA EmptyStep ==
    ASSUME UnboundIsEmpty, bound' = bound, forsaken => forsaken', excused => excused',
           queue' # <<>> => Waiting \/ bound,
           NEW a \in Actors, NEW p, NEW q, Moves(a, p, q),
           q = "requeue" => bound \/ excused' \/ forsaken
    PROVE  UnboundIsEmpty'
<1> SUFFICES ASSUME ~bound', ~forsaken', ~excused'
             PROVE  queue' = <<>> /\ \A b \in Actors : actor'[b].pc # "requeue"
  BY Zenon DEF UnboundIsEmpty
<1>1. ~Waiting
  BY Zenon DEF UnboundIsEmpty, Waiting
<1> QED
  BY <1>1, Zenon DEF Waiting, Moves

\* What waits, waits as before; the task that was to start it still is.
LEMMA StarterKeeps ==
    ASSUME WaitingHasStarter, Waiting' => Waiting, TurnInProgress => TurnInProgress',
           forsaken => forsaken', excused => excused',
           NEW a \in Actors, NEW p, NEW q, Moves(a, p, q), WillStart(a) => WillStart(a)'
    PROVE  WaitingHasStarter'
<1>1. \A b \in Actors : WillStart(b) => WillStart(b)'
  BY WillStartSame, Zenon DEF Moves
<1> QED
  BY <1>1, Zenon DEF WaitingHasStarter

\* A task that does not put a message back leaves as much waiting.
LEMMA WaitingStep ==
    ASSUME queue' # <<>> => Waiting, NEW a \in Actors, NEW p, NEW q, Moves(a, p, q),
           q = "requeue" => p = "requeue"
    PROVE  Waiting' => Waiting
BY Zenon DEF Waiting, Moves

\* A task that ends up on its way to the queue is the starter.
LEMMA StarterThere ==
    ASSUME NEW a \in Actors, WillStart(a)' PROVE WaitingHasStarter'
BY Zenon DEF WaitingHasStarter

LEMMA StarterExcused ==
    ASSUME excused' \/ forsaken' \/ ~Waiting' \/ TurnInProgress' PROVE WaitingHasStarter'
BY Zenon DEF WaitingHasStarter

\* The binding is dropped with the queue; a task about to put a message back is
\* forsaken.
LEMMA StarterLoses ==
    ASSUME StarterInv, bound' = FALSE, Forsake, excused' = excused,
           queue' = <<>> \/ (~bound /\ queue' = queue),
           NEW a \in Actors, NEW p, NEW q, Moves(a, p, q), q # "requeue"
    PROVE  StarterInv'
<1>1. ~forsaken' => ~forsaken /\ \A b \in Actors : actor[b].pc # "requeue"
  BY Zenon DEF Forsake
<1>2. ~forsaken' => \A b \in Actors : actor'[b].pc # "requeue"
  BY <1>1, Zenon DEF Moves
<1>3. ~forsaken' /\ ~excused' => queue' = <<>>
  BY <1>1, Zenon DEF StarterInv, UnboundIsEmpty
<1> QED
  BY <1>2, <1>3, Zenon DEF StarterInv, UnboundIsEmpty, WaitingHasStarter, Waiting

-----------------------------------------------------------------------------
(* The bookkeeping of a turn *)

\* No reservation is made ...
TurnGoesOn ==
    /\ current' \in 0..MaxTurns /\ starting' \in BOOLEAN
    /\ starting' => starting

\* ... and no latch.
LatchGoesOn == latch' = latch \/ latch' = NoLatch

LEMMA MarkStarted ==
    ASSUME NEW t \in Turns, MarkTurnStarted(t)
    PROVE  TurnGoesOn /\ LatchGoesOn /\ TurnInProgress' /\ ~starting'
<1>1. current' = t /\ starting' = FALSE /\ latch' = NoLatch /\ t \in 0..MaxTurns /\ t # 0
  BY Numbers, Zenon DEF MarkTurnStarted
<1> QED
  BY <1>1, Zenon DEF TurnGoesOn, LatchGoesOn, TurnInProgress

LEMMA MarkCompleted ==
    ASSUME MiscOK, NEW t, MarkTurnCompleted(t)
    PROVE  TurnGoesOn /\ LatchGoesOn
<1>1. \/ current' = 0 /\ starting' = FALSE /\ latch' = NoLatch
      \/ current' = current /\ starting' = starting /\ latch' = latch
  BY Zenon DEF MarkTurnCompleted
<1>2. CASE current' = 0 /\ starting' = FALSE /\ latch' = NoLatch
  BY <1>2, Numbers, Zenon DEF TurnGoesOn, LatchGoesOn
<1>3. CASE current' = current /\ starting' = starting /\ latch' = latch
  BY <1>3, Zenon DEF TurnGoesOn, LatchGoesOn, MiscOK
<1> QED
  BY <1>1, <1>2, <1>3

LEMMA TurnStays ==
    ASSUME MiscOK, current' = current, starting' = starting
    PROVE  TurnGoesOn /\ (TurnInProgress' <=> TurnInProgress)
BY Zenon DEF TurnGoesOn, MiscOK, TurnInProgress

LEMMA Cancelled ==
    ASSUME NEW t, CancelTerminalStatusFallback(t) PROVE LatchGoesOn
BY Zenon DEF CancelTerminalStatusFallback, LatchGoesOn

-----------------------------------------------------------------------------
(* The notices *)

LEMMA NoticeFields ==
    ASSUME NEW n \in Notice PROVE n.turn \in Turns /\ n.failed \in BOOLEAN
BY Zenon DEF Notice

Claim(t, failed) == [turn |-> t, failed |-> failed]
Also(n, failed) == [n EXCEPT !.failed = n.failed \/ failed]

LEMMA NoticesAfterClaimType ==
    ASSUME notices \in Seq(Notice), NEW t \in Turns, NEW failed \in BOOLEAN
    PROVE  NoticesAfterClaim(t, failed) \in Seq(Notice)
<1>1. CASE ClaimOf(t) # {}
  <2> DEFINE g(i) == IF i \in ClaimOf(t) THEN Also(notices[i], failed) ELSE notices[i]
  <2>1. NoticesAfterClaim(t, failed) = [i \in DOMAIN notices |-> g(i)]
    BY <1>1, Zenon DEF NoticesAfterClaim, Also
  <2>2. ASSUME NEW i \in DOMAIN notices PROVE g(i) \in Notice
    <3>1. notices[i] \in Notice
      BY SMT
    <3>2. Also(notices[i], failed) \in Notice
      BY <3>1, Zenon DEF Also, Notice
    <3> QED
      BY <3>1, <3>2
  <2> HIDE DEF g
  <2>3. DOMAIN notices = 1..Len(notices) /\ Len(notices) \in Nat
    BY SMT
  <2>4. [i \in DOMAIN notices |-> g(i)] \in [1..Len(notices) -> Notice]
    BY <2>2, <2>3, Zenon
  <2> QED
    BY <2>1, <2>3, <2>4, SeqDef
<1>2. CASE ClaimOf(t) = {}
  <2> DEFINE all == Append(notices, Claim(t, failed))
  <2>1. Claim(t, failed) \in Notice
    BY Zenon DEF Claim, Notice
  <2>2. all \in Seq(Notice) /\ all # <<>>
    BY <2>1, AppendProperties
  <2>3. Tail(all) \in Seq(Notice)
    BY <2>2, HeadTailProperties
  <2>4. NoticesAfterClaim(t, failed) = IF Len(all) > NoticeHistory THEN Tail(all) ELSE all
    BY <1>2, Zenon DEF NoticesAfterClaim, Claim
  <2> HIDE DEF all
  <2> QED
    BY <2>2, <2>3, <2>4, Zenon
<1> QED
  BY <1>1, <1>2

LEMMA ReleaseType ==
    ASSUME notices \in Seq(Notice), NEW t, ReleaseNotice(t)
    PROVE  notices' \in Seq(Notice)
<1>1. CASE ClaimOf(t) = {}
  BY <1>1, Zenon DEF ReleaseNotice
<1>2. CASE ClaimOf(t) # {}
  <2>1. PICK i \in ClaimOf(t) : notices' = RemoveAt(notices, i)
    <3>1. (CHOOSE i \in ClaimOf(t) : TRUE) \in ClaimOf(t)
      BY <1>2
    <3> QED
      BY <1>2, <3>1, Zenon DEF ReleaseNotice
  <2>2. i \in 1..Len(notices) /\ Len(notices) \in Nat
    BY SMT DEF ClaimOf
  <2>3. SubSeq(notices, 1, i - 1) \in Seq(Notice) /\ SubSeq(notices, i + 1, Len(notices)) \in Seq(Notice)
    BY <2>2, SMT
  <2> QED
    BY <2>1, <2>3, ConcatProperties DEF RemoveAt
<1> QED
  BY <1>1, <1>2

-----------------------------------------------------------------------------
(* The actions *)

\* A latch as a notification arms it
Armed(t, k, e, s) == [turn |-> t, token |-> k, event |-> e, server |-> s]

LEMMA ArmedType ==
    ASSUME NEW t \in 0..MaxTurns, NEW k \in 0..MaxTokens, NEW e \in BOOLEAN, NEW s \in BOOLEAN
    PROVE  /\ Armed(t, k, e, s) \in Latch
           /\ Armed(t, k, e, s).token = k /\ (e => Armed(t, k, e, s).event)
<1>1. Armed(t, k, e, s) \in Latch
  BY Zenon DEF Latch, Armed
<1> QED
  BY <1>1, SMT DEF Armed

\* The server side's notice of a status
LEMMA SayStatusTimer ==
    ASSUME TimerInv, MiscOK, ServerInv, SayStatus
    PROVE  TimerInv'
<1>0. actor' = actor /\ token \in 0..MaxTokens /\ token' \in 0..MaxTokens
  BY SayStatusServer, Zenon DEF SayStatus, ServerInv
<1>1. CASE UNCHANGED <<latch, token, orphans>>
  BY <1>0, <1>1, Zenon DEF TimerInv, TimersFresh
<1>a. CASE client_turn # 0 /\ client_turn = current
  <2>t. client_turn \in Turns /\ client_turn \in 0..MaxTurns
    BY <1>a, Numbers, Zenon DEF MiscOK
  <2>2. CASE latch.turn = client_turn
    <3>1. /\ latch' = [latch EXCEPT !.server = TRUE] /\ token' = token
          /\ orphans' \subseteq orphans \cup {<<latch.token, client_turn>>}
      BY <1>a, <2>2, Zenon DEF SayStatus
    <3>2. latch # NoLatch
      BY <1>a, <2>2, SMT DEF NoLatch
    <3>3. latch \in Latch /\ latch.token \in 1..token
          /\ (~latch.event => actor[latch.token].pc = "idle")
      BY <3>2, Zenon DEF TimerInv, TimersFresh
    <3>4. latch' \in Latch /\ latch'.token = latch.token /\ latch'.event = latch.event
      BY <3>1, <3>3, Zenon DEF Latch
    <3>5. latch.token \in Tokens
      BY <1>0, <3>3, SMT DEF Tokens
    <3>6. orphans' \subseteq (Tokens \X Turns)
      BY <2>t, <3>1, <3>5, SMT DEF TimerInv
    <3> QED
      BY <1>0, <3>1, <3>3, <3>4, <3>6, Zenon DEF TimerInv, TimersFresh
  <2>3. CASE latch.turn # client_turn
    <3>1. /\ latch' = Armed(client_turn, token + 1, FALSE, TRUE) /\ token' = token + 1
          /\ orphans' = orphans \cup {<<token + 1, client_turn>>}
      BY <1>a, <2>3, Zenon DEF SayStatus, Armed
    <3>2. /\ token + 1 \in Tokens /\ token + 1 \in 0..MaxTokens /\ token + 1 > token
          /\ token + 1 \in 1..(token + 1) /\ \A k \in Tokens : k > token + 1 => k > token
      BY <1>0, <3>1, SMT DEF Tokens
    <3>3. latch' \in Latch /\ latch'.token = token + 1
      BY <2>t, <3>1, <3>2, ArmedType, Zenon
    <3>4. orphans' \subseteq (Tokens \X Turns)
      BY <2>t, <3>1, <3>2, SMT DEF TimerInv
    <3>5. actor[token + 1].pc = "idle"
      BY <3>2, Zenon DEF TimerInv, TimersFresh
    <3>6. \A k \in Tokens : k > token' => actor'[k].pc = "idle"
      BY <1>0, <3>1, <3>2, Zenon DEF TimerInv, TimersFresh
    <3> QED
      BY <1>0, <3>1, <3>2, <3>3, <3>4, <3>5, <3>6, Zenon DEF TimerInv, TimersFresh
  <2> QED
    BY <2>2, <2>3
<1> QED
  BY <1>1, <1>a, Zenon DEF SayStatus

\* schedule_terminal_status_fallback starts the timer of a token that is fresh,
\* or whose latch the server side has armed alone.
LEMMA HandleStatusTimer ==
    ASSUME IInv, HandleStatus, ~UNCHANGED <<latch, token, actor>>
    PROVE  /\ TimerInv'
           /\ \E k \in Tokens : /\ TaskInv' /\ Moves(k, "idle", "asleep")
                                /\ token' \in {token, token + 1}
<1>0. /\ channel # <<>> /\ Head(channel).kind = "status" /\ channel' = Tail(channel)
      /\ server' = server /\ orphans' = orphans /\ current # 0
      /\ latch # NoLatch => ~latch.event
  BY Zenon DEF HandleStatus, Received
<1> DEFINE k == IF latch # NoLatch THEN latch.token ELSE token + 1
           r == Timer(current, Head(channel).failed)
<1>1. /\ token' = IF k > token THEN k ELSE token
      /\ latch' = Armed(current, k, TRUE, latch.server)
      /\ actor' = [actor EXCEPT ![k] = r]
  BY Zenon DEF HandleStatus, Armed, Timer
<1>i. TimerInv /\ MiscOK /\ ServerInv /\ TaskInv
  BY DEF IInv
<1>t. token \in 0..MaxTokens /\ channel \in Seq(Notification) /\ latch \in Latch
  BY <1>i DEF ServerInv, TimerInv
<1>2. token + 1 <= MaxTokens
  <2>1. Spent <= MaxTokens
    BY <1>i, Zenon DEF ServerInv, TokenBudget
  <2>2. Cardinality(StatusIn(channel)) # 0
    <3>1. 1 \in StatusIn(channel)
      <4>1. 1 \in DOMAIN channel /\ Head(channel) = channel[1]
        BY <1>0, <1>t, SMT
      <4> QED
        BY <1>0, <4>1, Zenon DEF StatusIn
    <3> QED
      BY <1>t, <3>1, StatusFinite, FS_EmptySet
  <2> QED
    BY <1>i, <2>1, <2>2, SpentType, SMT DEF Spent
<1>3. /\ k \in Tokens /\ k \in 0..MaxTokens /\ actor[k].pc = "idle"
      /\ token' \in {token, token + 1} /\ k \in 1..token'
      /\ token' \in 0..MaxTokens
      /\ \A j \in Tokens : j > token' => j > token /\ j # k
  <2>1. CASE latch # NoLatch
    <3>1. k = latch.token /\ latch.token \in 1..token /\ actor[latch.token].pc = "idle"
      BY <1>0, <1>i, <2>1, Zenon DEF TimerInv, TimersFresh
    <3> HIDE DEF k
    <3>2. /\ token' = token /\ k \in Tokens /\ k \in 0..MaxTokens
          /\ \A j \in Tokens : j > token' => j > token /\ j # k
      BY <1>1, <1>t, <3>1, SMT DEF Tokens
    <3> QED
      BY <1>t, <3>1, <3>2, Zenon
  <2>2. CASE latch = NoLatch
    <3>1. k = token + 1
      BY <2>2
    <3> HIDE DEF k
    <3>2. /\ token' = token + 1 /\ k \in Tokens /\ k \in 0..MaxTokens /\ k > token
          /\ k \in 1..token' /\ token' \in 0..MaxTokens
          /\ \A j \in Tokens : j > token' => j > token /\ j # k
      BY <1>1, <1>2, <1>t, <3>1, SMT DEF Tokens
    <3>3. actor[k].pc = "idle"
      BY <1>i, <3>2, Zenon DEF TimerInv, TimersFresh
    <3> QED
      BY <3>2, <3>3, Zenon
  <2> QED
    BY <2>1, <2>2
<1> HIDE DEF k
<1>4. Head(channel).failed \in BOOLEAN /\ current \in 0..MaxTurns
  <2>1. Head(channel) \in Notification
    BY <1>0, <1>t, HeadTailProperties
  <2> QED
    BY <1>i, <2>1, Zenon DEF Notification, MiscOK
<1>6. r \in Task /\ Sound(r) /\ r.pc = "asleep"
  BY <1>0, <1>4, TimerTask, Zenon DEF Sound
<1> HIDE DEF r
<1>7. k \in Actors
  BY <1>3, ActorNumbers
<1>8. TaskInv' /\ Moves(k, "idle", "asleep")
  <2>1. TaskInv' /\ Moves(k, actor[k].pc, r.pc)
    BY <1>1, <1>6, <1>7, <1>i, TaskStep
  <2> QED
    BY <1>3, <1>6, <2>1, Zenon
<1>9. latch' \in Latch /\ latch'.token = k /\ latch'.event
  <2>1. latch.server \in BOOLEAN
    BY <1>t, Zenon DEF Latch
  <2>2. TRUE \in BOOLEAN
    OBVIOUS
  <2>3. /\ Armed(current, k, TRUE, latch.server) \in Latch
        /\ Armed(current, k, TRUE, latch.server).token = k
        /\ Armed(current, k, TRUE, latch.server).event
    <3>1. k \in 0..MaxTokens /\ current \in 0..MaxTurns
      BY <1>3, <1>4
    <3> QED
      BY <2>1, <2>2, <3>1, ArmedType, Zenon
  <2> QED
    BY <1>1, <2>3, Zenon
<1>10. \A j \in Tokens : j > token' => actor'[j].pc = "idle"
  BY <1>3, <1>8, <1>i, ActorNumbers, Zenon DEF TimerInv, TimersFresh, Moves
<1>11. TimerInv'
  BY <1>0, <1>3, <1>9, <1>10, <1>i, Zenon DEF TimerInv, TimersFresh
<1> QED
  BY <1>3, <1>8, <1>11

\* invalidate_bridge_generation and start_bridge_generation
LEMMA RestartTasks ==
    ASSUME TaskInv, RestartBridge
    PROVE  /\ TaskInv' /\ actor'[Router].pc = "idle" /\ actor'[Worker].pc = "idle"
           /\ \A b \in Actors : b \notin {Router, Worker} => actor'[b] = actor[b]
<1>1. actor' = [actor EXCEPT ![Router] = Idle, ![Worker] = Idle]
  BY Zenon DEF RestartBridge
<1>2. PICK f : f = [actor EXCEPT ![Router] = Idle]
  OBVIOUS
<1>3. actor' = [f EXCEPT ![Worker] = Idle]
  BY <1>1, <1>2, Zenon
<1>4. f \in [Actors -> Task] /\ f[Router] = Idle /\ \A b \in Actors : b # Router => f[b] = actor[b]
  BY <1>2, ActorNumbers, IdleTask, Zenon DEF TaskInv
<1>5. /\ actor' \in [Actors -> Task] /\ actor'[Worker] = Idle
      /\ \A b \in Actors : b # Worker => actor'[b] = f[b]
  BY <1>3, <1>4, ActorNumbers, IdleTask, Zenon
<1>6. actor'[Router] = Idle
  BY <1>4, <1>5, ActorNumbers, Zenon
<1>7. \A b \in Actors : b \notin {Router, Worker} => actor'[b] = actor[b]
  BY <1>4, <1>5, Zenon
<1>8. Sound(Idle)
  BY IdleTask, Zenon DEF Sound
<1>9. ASSUME NEW b \in Actors PROVE Sound(actor'[b])
  BY <1>5, <1>6, <1>7, <1>8, Zenon DEF TaskInv
<1> QED
  BY <1>5, <1>6, <1>7, <1>9, IdleTask, Zenon DEF TaskInv

LEMMA HeldType ==
    ASSUME TaskInv, NEW a \in Actors PROVE Held(a) \subseteq 1..MaxItems
<1>1. actor[a].item \in 0..MaxItems
  BY TaskFields, Zenon DEF TaskInv
<1>2. Held(a) \subseteq {actor[a].item} \ {0}
  BY Zenon DEF Held
<1> QED
  BY <1>1, <1>2, SMT

LEMMA RestartKeeps ==
    ASSUME IInv, RestartBridge PROVE IInv'
<1>i. QueueInv /\ TaskInv /\ TimerInv /\ ServerInv /\ MiscOK
  BY DEF IInv
<1>0. /\ queue' = <<>> /\ items' = items /\ submitted' = submitted
      /\ dropped' = dropped \cup {queue[i] : i \in DOMAIN queue} \cup Held(Router) \cup Held(Worker)
      /\ start_ops' = IF start_ops \in {Router, Worker} THEN Nobody ELSE start_ops
      /\ latch' = NoLatch /\ notices' = <<>> /\ channel' = <<>>
      /\ told' = [t \in Turns |-> 0] /\ excused' = TRUE /\ forsaken' = TRUE
      /\ UNCHANGED <<bound, current, starting, token, client_turn, orphans, server, announced,
                     messages>>
      /\ restarts < MaxRestarts /\ restarts' = restarts + 1
  BY Zenon DEF RestartBridge
<1>1. /\ TaskInv' /\ actor'[Router].pc = "idle" /\ actor'[Worker].pc = "idle"
      /\ \A b \in Actors : b \notin {Router, Worker} => actor'[b] = actor[b]
  BY <1>i, RestartTasks
<1>2. \A b \in {Router, Worker} : ~Owns(b)' /\ Held(b)' = {}
  BY <1>1, Zenon DEF Owns, Held
<1>3. \A b \in Actors : b \notin {Router, Worker} =>
          Held(b)' = Held(b) /\ (Owns(b)' <=> Owns(b))
  BY <1>1, HeldSame, Zenon
<1>4. OpsHeld'
  BY <1>0, <1>2, <1>3, <1>i, Zenon DEF OpsHeld, QueueInv
<1>5. QueueInv'
  <2>1. \A i \in DOMAIN queue : queue[i] \in dropped'
    BY <1>0, Zenon
  <2>2. dropped \subseteq dropped' /\ Held(Router) \subseteq dropped' /\ Held(Worker) \subseteq dropped'
    BY <1>0, Zenon
  <2>3. dropped' \subseteq 1..MaxItems
    <3>1. \A i \in DOMAIN queue : queue[i] \in 1..MaxItems
      BY <1>i, SMT DEF QueueInv
    <3>2. Held(Router) \subseteq 1..MaxItems /\ Held(Worker) \subseteq 1..MaxItems
      BY <1>i, HeldType, ActorNumbers, Zenon
    <3>3. dropped \subseteq 1..MaxItems
      BY <1>i DEF QueueInv
    <3> QED
      BY <1>0, <3>1, <3>2, <3>3, Zenon
  <2>4. \A b \in Actors : Held(b)' \subseteq Held(b) /\ Held(b) \subseteq Held(b)' \cup dropped'
    BY <1>2, <1>3, <2>2, Zenon
  <2> QED
    BY <1>0, <1>4, <1>i, <2>1, <2>2, <2>3, <2>4, QueueShrinks, Zenon
<1>6. TimerInv'
  <2>1. NoLatch \in Latch
    BY Numbers, Zenon DEF NoLatch, Latch
  <2>2. \A k \in Tokens : actor'[k] = actor[k]
    BY <1>1, ActorNumbers, Zenon
  <2> QED
    BY <1>0, <1>i, <2>1, <2>2, Zenon DEF TimerInv, TimersFresh
<1>7. ServerInv'
  BY <1>0, <1>i, RestartServer, Zenon
<1>8. MiscOK'
  <2>1. restarts' \in 0..MaxRestarts
    BY <1>0, <1>i, SMT DEF MiscOK
  <2> QED
    BY <1>0, <1>i, <2>1, Zenon DEF MiscOK
<1>9. ReservationInv' /\ StarterInv'
  BY <1>0, Zenon DEF ReservationInv, UnboundIsFree, ReservationHasOwner, StarterInv,
                     UnboundIsEmpty, WaitingHasStarter
<1>10. notices' \in Seq(Notice) /\ told' \in [Turns -> Nat]
  BY <1>0, SMT
<1> QED
  BY <1>1, <1>5, <1>6, <1>7, <1>8, <1>9, <1>10 DEF IInv

-----------------------------------------------------------------------------
(* Steps that leave the binding alone *)

Plain ==
    /\ bound' = bound /\ forsaken' = forsaken /\ restarts' = restarts
    /\ excused' \in BOOLEAN /\ (excused => excused')
    /\ client_turn' \in 0..MaxTurns /\ announced' \in 0..MaxTurns
    /\ messages' \in 0..MaxMessages
    /\ notices' \in Seq(Notice) /\ told' \in [Turns -> Nat]

LEMMA Assemble ==
    ASSUME IInv, Plain, TurnGoesOn, TaskInv', ServerInv', TimerInv', QueueInv',
           WaitingHasStarter', start_ops' \in Actors \cup {Nobody},
           NEW a \in Actors, NEW p, NEW q, Moves(a, p, q),
           q = "mark" => bound \/ p = "mark", p = "await" /\ starting' => q = "await",
           queue' # <<>> => Waiting \/ bound, q = "requeue" => bound \/ excused' \/ forsaken
    PROVE  IInv'
<1>1. MiscOK'
  BY Zenon DEF IInv, MiscOK, Plain, TurnGoesOn
<1>2. ReservationInv'
  BY ReservationKeeps, Zenon DEF IInv, Plain, TurnGoesOn
<1>3. UnboundIsEmpty'
  BY EmptyStep, Zenon DEF IInv, StarterInv, Plain
<1> QED
  BY <1>1, <1>2, <1>3, Zenon DEF IInv, StarterInv, Plain

LEMMA TimerQuiet ==
    ASSUME IInv, LatchGoesOn, token' = token, orphans' \subseteq orphans, actor' = actor
    PROVE  TimerInv'
<1>1. Router \in Actors /\ Router \notin Tokens /\ Moves(Router, actor[Router].pc, actor[Router].pc)
  BY NoTaskStep, ActorNumbers
<1> QED
  BY <1>1, TimerKeeps, Zenon DEF IInv, ServerInv, LatchGoesOn

\* Without a binding nothing waits that is not excused.
LEMMA UnboundStarter ==
    ASSUME StarterInv, ~bound, forsaken' = forsaken, excused => excused',
           queue' # <<>> => Waiting,
           NEW a \in Actors, NEW p, NEW q, Moves(a, p, q), q # "requeue"
    PROVE  WaitingHasStarter'
<1>1. Waiting' => Waiting
  BY WaitingStep
<1>2. ~excused' /\ ~forsaken' => ~Waiting'
  BY <1>1, Zenon DEF StarterInv, UnboundIsEmpty, Waiting
<1> QED
  BY <1>2, StarterExcused, Zenon

\* No task takes a step.
LEMMA NoTask ==
    ASSUME IInv, Plain, TurnGoesOn, UNCHANGED <<actor, queue, queueHistory, start_ops>>,
           ServerInv', TimerInv',
           excused' \/ ~bound \/ (TurnInProgress => TurnInProgress')
    PROVE  IInv'
<1>0. actor' = actor /\ queue' = queue /\ queueHistory' = queueHistory /\ start_ops' = start_ops
  OBVIOUS
<1> DEFINE p == actor[Router].pc
<1>1. Router \in Actors /\ Moves(Router, p, p) /\ TaskInv'
  BY <1>0, NoTaskStep, ActorNumbers DEF IInv
<1>2. QueueInv'
  BY <1>0, QueueSame, Zenon DEF IInv
<1>3. queue' # <<>> => Waiting
  BY <1>0, Zenon DEF Waiting
<1>4. Waiting' => Waiting
  BY <1>0, Zenon DEF Waiting
<1>5. p = "requeue" => bound \/ excused \/ forsaken
  BY ActorNumbers, Zenon DEF IInv, StarterInv, UnboundIsEmpty
<1>s. start_ops' \in Actors \cup {Nobody}
  BY <1>0, Zenon DEF IInv, MiscOK
<1> HIDE DEF p
<1>6. WaitingHasStarter'
  <2>1. CASE excused'
    BY <2>1, StarterExcused, Zenon
  <2>2. CASE ~bound
    <3>1. CASE excused \/ forsaken
      BY <3>1, StarterExcused, Zenon DEF Plain
    <3>2. CASE ~excused /\ ~forsaken
      <4>1. ~Waiting'
        BY <2>2, <3>2, <1>4, Zenon DEF IInv, StarterInv, UnboundIsEmpty, Waiting
      <4> QED
        BY <4>1, StarterExcused, Zenon
    <3> QED
      BY <3>1, <3>2
  <2>3. CASE TurnInProgress => TurnInProgress'
    <3>1. WillStart(Router) => WillStart(Router)'
      BY <1>0, WillStartSame, Zenon
    <3> QED
      BY <1>1, <1>4, <2>3, <3>1, StarterKeeps, Zenon DEF IInv, StarterInv, Plain
  <2> QED
    BY <2>1, <2>2, <2>3
<1> QED
  BY <1>1, <1>2, <1>3, <1>5, <1>6, <1>s, Assemble, Zenon DEF Plain

\* A task without the lock takes a step, and leaves the queue alone.
LEMMA QuietStep ==
    ASSUME IInv, Plain, TurnGoesOn, LatchGoesOn, ServerInv',
           token' = token, orphans' \subseteq orphans,
           UNCHANGED <<queue, queueHistory, start_ops>>,
           NEW a \in Actors, NEW r \in Task, Sound(r), actor' = [actor EXCEPT ![a] = r],
           ~Owns(a), actor[a].pc # "await",
           r.pc \notin {"take", "requeue", "clear", "mark", "await"},
           r.pc = "route" => r.item = 0,
           a \in Tokens /\ actor[a].pc = "idle" => r.pc = "idle",
           \/ r.pc \in {"lock", "unbind"} \/ (r.pc = "notice" /\ r.ok)
           \/ (r.pc = "finish" /\ a = Worker) \/ excused'
           \/ ~WillStart(a) /\ (TurnInProgress => TurnInProgress')
    PROVE  IInv'
<1>0. queue' = queue /\ queueHistory' = queueHistory /\ start_ops' = start_ops
  OBVIOUS
<1>1. TaskInv' /\ actor'[a] = r /\ Moves(a, actor[a].pc, r.pc)
  BY TaskStep DEF IInv
<1>2. ~Owns(a)'
  BY <1>1, Zenon DEF Owns
<1>3. QueueInv'
  BY <1>0, <1>1, <1>2, QueueQuiet, Zenon DEF IInv
<1>4. TimerInv'
  BY <1>1, TimerKeeps, Zenon DEF IInv, ServerInv, LatchGoesOn
<1>5. queue' # <<>> => Waiting
  BY <1>0, Zenon DEF Waiting
<1>6. Waiting' => Waiting
  BY <1>1, <1>5, WaitingStep, Zenon
<1>7. WaitingHasStarter'
  <2>1. CASE ~WillStart(a) /\ (TurnInProgress => TurnInProgress')
    BY <1>1, <1>6, <2>1, StarterKeeps, Zenon DEF IInv, StarterInv, Plain
  <2>2. CASE excused'
    BY <2>2, StarterExcused, Zenon
  <2>3. CASE \/ r.pc \in {"lock", "unbind"} \/ (r.pc = "notice" /\ r.ok)
             \/ r.pc = "finish" /\ a = Worker
    <3>1. WillStart(a)'
      BY <1>1, <2>3, Zenon DEF WillStart
    <3> QED
      BY <3>1, StarterThere
  <2> QED
    BY <2>1, <2>2, <2>3
<1>8. start_ops' \in Actors \cup {Nobody}
  BY <1>0, Zenon DEF IInv, MiscOK
<1> QED
  BY <1>1, <1>3, <1>4, <1>5, <1>7, <1>8, Assemble, Zenon

-----------------------------------------------------------------------------
(* The app-server *)

LEMMA Unmoved ==
    ASSUME IInv,
           UNCHANGED <<bound, forsaken, restarts, excused, announced, messages, notices, told>>,
           client_turn' \in 0..MaxTurns
    PROVE  Plain
BY Zenon DEF Plain, IInv, MiscOK

\* Nothing of the runtime's record changes but, perhaps, the latch.
LEMMA ServerOnly ==
    ASSUME IInv, ServerInv', client_turn' \in 0..MaxTurns, LatchGoesOn,
           UNCHANGED <<bound, current, starting, queue, token, notices, start_ops, actor, orphans,
                       queueHistory, told, announced, excused, boundVars>>
    PROVE  IInv'
<1>0. /\ bound' = bound /\ current' = current /\ starting' = starting /\ token' = token
      /\ notices' = notices /\ orphans' = orphans /\ told' = told /\ announced' = announced
      /\ excused' = excused /\ messages' = messages /\ restarts' = restarts
      /\ forsaken' = forsaken /\ actor' = actor
  BY Zenon DEF boundVars
<1>1. Plain
  BY <1>0, Unmoved
<1>2. TurnGoesOn /\ (TurnInProgress => TurnInProgress')
  BY <1>0, TurnStays DEF IInv
<1>3. TimerInv'
  BY <1>0, TimerQuiet
<1> QED
  BY <1>1, <1>2, <1>3, NoTask

LEMMA DesktopTurnKeeps == ASSUME IInv, DesktopTurn PROVE IInv'
<1>0. /\ ~server.running /\ server.owes = {} /\ server.turn < MaxTurns /\ server' = NewTurn
      /\ channel' = channel /\ token' = token /\ client_turn' = client_turn /\ latch' = latch
      /\ UNCHANGED <<bound, current, starting, queue, token, notices, start_ops, actor, orphans,
                     queueHistory, told, announced, excused, boundVars>>
  BY Zenon DEF DesktopTurn, runtimeVars
<1>1. ServerInv'
  BY <1>0, ServerStarts DEF IInv
<1>2. client_turn' \in 0..MaxTurns /\ LatchGoesOn
  BY <1>0, Zenon DEF IInv, MiscOK, LatchGoesOn
<1> QED
  BY <1>0, <1>1, <1>2, ServerOnly

LEMMA EndTurnKeeps == ASSUME IInv, EndTurn PROVE IInv'
<1>0. /\ server.running /\ channel' = channel /\ token' = token /\ client_turn' = client_turn
      /\ latch' = latch
      /\ UNCHANGED <<bound, current, starting, queue, token, notices, start_ops, actor, orphans,
                     queueHistory, told, announced, excused, boundVars>>
  BY Zenon DEF EndTurn, runtimeVars
<1>1. PICK failed \in BOOLEAN : \E s \in Farewells(failed) : server' = Ended(failed, s)
  BY Zenon DEF EndTurn, Ended
<1>2. ServerInv'
  BY <1>0, <1>1, ServerEnds DEF IInv
<1>3. client_turn' \in 0..MaxTurns /\ LatchGoesOn
  BY <1>0, Zenon DEF IInv, MiscOK, LatchGoesOn
<1> QED
  BY <1>0, <1>2, <1>3, ServerOnly

LEMMA SayStartedKeeps == ASSUME IInv, SayStarted PROVE IInv'
<1>0. /\ latch' = latch
      /\ UNCHANGED <<bound, current, starting, queue, token, notices, start_ops, actor, orphans,
                     queueHistory, told, announced, excused, boundVars>>
  BY Zenon DEF SayStarted, runtimeVars
<1>1. ServerInv' /\ client_turn' \in 0..MaxTurns
  BY SayStartedServer DEF IInv
<1>2. LatchGoesOn
  BY <1>0, Zenon DEF LatchGoesOn
<1> QED
  BY <1>0, <1>1, <1>2, ServerOnly

LEMMA SayTerminalKeeps ==
    ASSUME IInv, NEW kind \in {"error", "completed"}, SayTerminal(kind) PROVE IInv'
<1>0. /\ client_turn' = IF kind = "completed" THEN 0 ELSE client_turn
      /\ CancelTerminalStatusFallback(server.turn)
      /\ UNCHANGED <<bound, current, starting, queue, token, notices, start_ops, actor, orphans,
                     queueHistory, told, announced, excused, boundVars>>
  BY Zenon DEF SayTerminal
<1>1. ServerInv'
  BY SayTerminalServer DEF IInv
<1>2. client_turn' \in 0..MaxTurns
  BY <1>0, Numbers, Zenon DEF IInv, MiscOK
<1>3. LatchGoesOn
  BY <1>0, Cancelled
<1> QED
  BY <1>0, <1>1, <1>2, <1>3, ServerOnly

LEMMA SayStatusKeeps == ASSUME IInv, SayStatus PROVE IInv'
<1>0. /\ client_turn' = 0 /\ current' = current /\ starting' = starting
      /\ bound' = bound /\ notices' = notices /\ told' = told /\ announced' = announced
      /\ excused' = excused /\ messages' = messages /\ restarts' = restarts
      /\ forsaken' = forsaken
      /\ UNCHANGED <<actor, queue, queueHistory, start_ops>>
  BY Zenon DEF SayStatus, boundVars
<1>1. ServerInv' /\ TimerInv'
  BY SayStatusServer, SayStatusTimer DEF IInv
<1>2. client_turn' \in 0..MaxTurns
  BY <1>0, Numbers, Zenon
<1>3. Plain
  BY <1>0, <1>2, Unmoved
<1>4. TurnGoesOn /\ (TurnInProgress => TurnInProgress')
  BY <1>0, TurnStays DEF IInv
<1> QED
  BY <1>0, <1>1, <1>3, <1>4, NoTask

LEMMA LaggedKeeps == ASSUME IInv, Lagged PROVE IInv'
<1>0. /\ channel # <<>> /\ channel' = Tail(channel) /\ excused' = TRUE /\ server' = server
      /\ token' = token /\ latch' = latch /\ orphans' = orphans /\ actor' = actor
      /\ client_turn' = client_turn /\ current' = current /\ starting' = starting
      /\ bound' = bound /\ notices' = notices /\ told' = told /\ announced' = announced
      /\ messages' = messages /\ restarts' = restarts /\ forsaken' = forsaken
      /\ UNCHANGED <<actor, queue, queueHistory, start_ops>>
  BY Zenon DEF Lagged, runtimeVars, boundVars
<1>1. ServerInv'
  BY <1>0, ReceiveServer DEF IInv
<1>2. TimerInv'
  BY <1>0, TimerQuiet DEF LatchGoesOn
<1>3. Plain
  BY <1>0, Zenon DEF Plain, IInv, MiscOK
<1>4. TurnGoesOn
  BY <1>0, TurnStays DEF IInv
<1> QED
  BY <1>0, <1>1, <1>2, <1>3, <1>4, NoTask

-----------------------------------------------------------------------------
(* The timers *)

LEMMA OrphanCleanupKeeps ==
    ASSUME IInv, NEW k, NEW t, OrphanCleanup(k, t) PROVE IInv'
<1>0. /\ orphans' \subseteq orphans /\ server' = server /\ channel' = channel
      /\ token' = token /\ actor' = actor
      /\ client_turn' = client_turn
      /\ bound' = bound /\ notices' = notices /\ told' = told /\ announced' = announced
      /\ messages' = messages /\ restarts' = restarts /\ forsaken' = forsaken
      /\ UNCHANGED <<actor, queue, queueHistory, start_ops>>
  BY Zenon DEF OrphanCleanup, boundVars
<1>1. \/ MarkTurnCompleted(t) /\ excused' = TRUE
      \/ current' = current /\ starting' = starting /\ latch' = latch /\ excused' = excused
  BY Zenon DEF OrphanCleanup
<1>2. TurnGoesOn /\ LatchGoesOn /\ (excused' \/ (TurnInProgress => TurnInProgress'))
  <2>1. CASE MarkTurnCompleted(t) /\ excused' = TRUE
    BY <2>1, MarkCompleted DEF IInv
  <2>2. CASE current' = current /\ starting' = starting /\ latch' = latch /\ excused' = excused
    BY <2>2, TurnStays DEF IInv, LatchGoesOn
  <2> QED
    BY <1>1, <2>1, <2>2
<1>3. excused' \in BOOLEAN /\ (excused => excused')
  BY <1>1, Zenon DEF IInv, MiscOK
<1>4. Plain
  BY <1>0, <1>3, Zenon DEF Plain, IInv, MiscOK
<1>5. ServerInv'
  BY <1>0, ServerSame DEF IInv
<1>6. TimerInv'
  BY <1>0, <1>2, TimerQuiet
<1> QED
  BY <1>0, <1>2, <1>4, <1>5, <1>6, NoTask

\* A task that waits for nothing more
LEMMA IdleSound == Sound(Idle)
BY IdleTask, Zenon DEF Sound

\* A task that is about a turn has one.
LEMMA HasTurn ==
    ASSUME TaskInv, NEW a \in Actors,
           actor[a].pc \in {"asleep", "finish", "notice", "stop", "exit", "leave"}
    PROVE  actor[a].turn \in Turns /\ actor[a].turn # 0 /\ actor[a].turn \in 0..MaxTurns
<1>1. actor[a].turn # 0 /\ actor[a].turn \in 0..MaxTurns
  BY TaskFields, Zenon DEF TaskInv, Sound
<1> QED
  BY <1>1, Numbers

LEMMA FireKeeps == ASSUME IInv, NEW k \in Tokens, Fire(k) PROVE IInv'
<1>0. /\ actor[k].pc = "asleep" /\ orphans' \subseteq orphans
      /\ server' = server /\ channel' = channel /\ token' = token
      /\ client_turn' = client_turn /\ current' = current /\ starting' = starting
      /\ bound' = bound /\ notices' = notices /\ told' = told /\ announced' = announced
      /\ excused' = excused /\ messages' = messages /\ restarts' = restarts
      /\ forsaken' = forsaken
      /\ UNCHANGED <<queue, queueHistory, start_ops>>
  BY Zenon DEF Fire, boundVars
<1>a. k \in Actors /\ TaskInv /\ actor[k] \in Task
  BY ActorNumbers, Zenon DEF IInv, TaskInv
<1>1. LatchGoesOn
  BY Zenon DEF Fire, LatchGoesOn
<1>2. PICK r \in {At(actor[k], "finish"), Idle} : actor' = [actor EXCEPT ![k] = r]
  BY Zenon DEF Fire, At
<1>3. r \in Task /\ Sound(r) /\ r.pc \in {"finish", "idle"}
  <2>1. CASE r = Idle
    BY <2>1, IdleTask, IdleSound, Zenon
  <2>2. CASE r = At(actor[k], "finish")
    <3>1. "finish" \in Pc /\ actor[k].turn # 0
      BY <1>0, <1>a, HasTurn, Zenon DEF Pc
    <3> QED
      BY <1>a, <2>2, <3>1, AtTask, Zenon DEF Sound
  <2> QED
    BY <1>2, <2>1, <2>2
<1>4. Plain
  <2>1. client_turn' \in 0..MaxTurns
    BY <1>0, Zenon DEF IInv, MiscOK
  <2> QED
    BY <1>0, <2>1, Unmoved
<1>5. TurnGoesOn /\ (TurnInProgress => TurnInProgress')
  BY <1>0, TurnStays DEF IInv
<1>6. ServerInv'
  BY <1>0, ServerSame DEF IInv
<1>7. ~Owns(k) /\ ~WillStart(k) /\ actor[k].pc # "await"
  BY <1>0, Zenon DEF Owns, WillStart
<1> QED
  BY <1>0, <1>a, <1>1, <1>2, <1>3, <1>4, <1>5, <1>6, <1>7, QuietStep, Zenon

-----------------------------------------------------------------------------
(* The end of a turn *)

LEMMA FinishTurnKeeps == ASSUME IInv, NEW a \in Actors, FinishTurn(a) PROVE IInv'
<1>0. /\ actor[a].pc = "finish" /\ a # Worker /\ orphans' \subseteq orphans
      /\ server' = server /\ channel' = channel /\ token' = token
      /\ client_turn' = client_turn
      /\ bound' = bound /\ notices' = notices /\ told' = told /\ announced' = announced
      /\ excused' = excused /\ messages' = messages /\ restarts' = restarts
      /\ forsaken' = forsaken
      /\ UNCHANGED <<queue, queueHistory, start_ops>>
  BY Zenon DEF FinishTurn, boundVars
<1>a. TaskInv /\ actor[a] \in Task /\ MiscOK
  BY Zenon DEF IInv, TaskInv
<1>b. Completes(a) \in BOOLEAN
  BY Zenon DEF Completes
<1>1. PICK r : /\ actor' = [actor EXCEPT ![a] = r]
               /\ \/ r = Idle /\ ~Completes(a)
                  \/ r = At(actor[a], "lock")
                  \/ r = Noticing(actor[a], Completes(a))
  <2> DEFINE r == IF a # Router /\ ~Completes(a) THEN Idle
                  ELSE IF a # Router /\ ~actor[a].failed THEN At(actor[a], "lock")
                  ELSE Noticing(actor[a], Completes(a))
  <2>1. actor' = [actor EXCEPT ![a] = r]
    BY Zenon DEF FinishTurn, At, Noticing
  <2>2. \/ r = Idle /\ ~Completes(a)
        \/ r = At(actor[a], "lock")
        \/ r = Noticing(actor[a], Completes(a))
    BY Zenon
  <2> HIDE DEF r
  <2> QED
    BY <2>1, <2>2
<1>2. TurnGoesOn /\ LatchGoesOn /\ (~Completes(a) => (TurnInProgress => TurnInProgress'))
  <2>1. CASE Completes(a)
    <3>1. MarkTurnCompleted(current)
      BY <2>1, Zenon DEF FinishTurn
    <3> QED
      BY <1>a, <2>1, <3>1, MarkCompleted
  <2>2. CASE ~Completes(a)
    <3>1. current' = current /\ starting' = starting /\ latch' = latch
      BY <2>2, Zenon DEF FinishTurn
    <3> QED
      BY <1>a, <3>1, TurnStays DEF LatchGoesOn
  <2> QED
    BY <1>b, <2>1, <2>2
<1>3. /\ r \in Task /\ Sound(r) /\ r.pc \in {"idle", "lock", "notice"}
      /\ Completes(a) => r.pc = "lock" \/ (r.pc = "notice" /\ r.ok)
  <2>0. "lock" \in Pc /\ actor[a].turn # 0
    BY <1>0, <1>a, HasTurn, Zenon DEF Pc
  <2>1. CASE r = Idle /\ ~Completes(a)
    BY <2>1, IdleTask, IdleSound, Zenon
  <2>2. CASE r = At(actor[a], "lock")
    BY <1>a, <2>0, <2>2, AtTask, Zenon DEF Sound
  <2>3. CASE r = Noticing(actor[a], Completes(a))
    <3>1. r \in Task /\ r.pc = "notice" /\ r.turn = actor[a].turn /\ r.ok = Completes(a)
      BY <1>a, <1>b, <2>3, NoticingTask, Zenon
    <3> QED
      BY <2>0, <3>1, Zenon DEF Sound
  <2> QED
    BY <1>1, <2>1, <2>2, <2>3
<1>4. Plain
  <2>1. client_turn' \in 0..MaxTurns
    BY <1>0, <1>a, Zenon DEF MiscOK
  <2> QED
    BY <1>0, <2>1, Unmoved
<1>5. ServerInv'
  BY <1>0, ServerSame DEF IInv
<1>6. ~Owns(a) /\ ~WillStart(a) /\ actor[a].pc # "await" /\ actor[a].pc # "idle"
  BY <1>0, Zenon DEF Owns, WillStart
<1> QED
  BY <1>0, <1>1, <1>2, <1>3, <1>4, <1>5, <1>6, QuietStep, Zenon

LEMMA TerminalNoticeKeeps == ASSUME IInv, NEW a \in Actors, TerminalNotice(a) PROVE IInv'
<1>0. /\ actor[a].pc = "notice" /\ orphans' \subseteq orphans
      /\ server' = server /\ channel' = channel /\ token' = token /\ latch' = latch
      /\ client_turn' = client_turn /\ current' = current /\ starting' = starting
      /\ bound' = bound /\ announced' = announced
      /\ excused' = excused /\ messages' = messages /\ restarts' = restarts
      /\ forsaken' = forsaken
      /\ UNCHANGED <<queue, queueHistory, start_ops>>
      /\ notices' = NoticesAfterClaim(actor[a].turn, actor[a].failed)
      /\ told' = told \/ told' = [told EXCEPT ![actor[a].turn] = told[actor[a].turn] + 1]
  BY Zenon DEF TerminalNotice, boundVars
<1>a. TaskInv /\ actor[a] \in Task /\ MiscOK /\ actor[a].turn \in Turns /\ actor[a].failed \in BOOLEAN
  BY <1>0, HasTurn, TaskFields, Zenon DEF IInv, TaskInv
<1>1. \/ actor[a].ok /\ actor' = [actor EXCEPT ![a] = At(actor[a], "lock")]
      \/ ~actor[a].ok /\ actor' = [actor EXCEPT ![a] = Idle]
  BY Zenon DEF TerminalNotice, At
<1>2. PICK r : /\ actor' = [actor EXCEPT ![a] = r]
               /\ \/ r = At(actor[a], "lock")
                  \/ ~actor[a].ok /\ r = Idle
  BY <1>1, Zenon
<1>3. /\ r \in Task /\ Sound(r) /\ r.pc \in {"idle", "lock"}
      /\ r.pc = "lock" \/ ~actor[a].ok
  <2>0. "lock" \in Pc
    BY Zenon DEF Pc
  <2>1. CASE r = At(actor[a], "lock")
    BY <1>a, <2>0, <2>1, AtTask, Zenon DEF Sound
  <2>2. CASE ~actor[a].ok /\ r = Idle
    BY <2>2, IdleTask, IdleSound, Zenon
  <2> QED
    BY <1>2, <2>1, <2>2
<1>4. Plain
  <2>1. notices' \in Seq(Notice)
    BY <1>0, <1>a, NoticesAfterClaimType DEF IInv
  <2>2. told' \in [Turns -> Nat]
    <3>1. told \in [Turns -> Nat]
      BY DEF IInv
    <3> QED
      BY <1>0, <1>a, <3>1, SMT
  <2> QED
    BY <1>0, <1>a, <2>1, <2>2, Zenon DEF Plain, MiscOK
<1>5. TurnGoesOn /\ LatchGoesOn /\ (TurnInProgress => TurnInProgress')
  BY <1>0, <1>a, TurnStays DEF LatchGoesOn
<1>6. ServerInv'
  BY <1>0, ServerSame DEF IInv
<1>7. ~Owns(a) /\ (~actor[a].ok => ~WillStart(a)) /\ actor[a].pc # "await" /\ actor[a].pc # "idle"
  BY <1>0, Zenon DEF Owns, WillStart
<1> QED
  BY <1>0, <1>2, <1>3, <1>4, <1>5, <1>6, <1>7, QuietStep, Zenon

-----------------------------------------------------------------------------
(* The router *)

LEMMA NotificationFields ==
    ASSUME NEW e \in Notification
    PROVE  e.turn \in Turns /\ e.turn \in 0..MaxTurns /\ e.failed \in BOOLEAN
<1>1. e.turn \in Turns /\ e.failed \in BOOLEAN
  BY Zenon DEF Notification
<1> QED
  BY <1>1, Numbers

LEMMA HandleStartedKeeps == ASSUME IInv, HandleStarted PROVE IInv'
<1>0. /\ channel # <<>> /\ channel' = Tail(channel) /\ server' = server
      /\ token' = token /\ orphans' \subseteq orphans /\ actor' = actor
      /\ client_turn' = client_turn /\ bound' = bound /\ notices' = notices /\ told' = told
      /\ excused' = excused /\ messages' = messages /\ restarts' = restarts
      /\ forsaken' = forsaken
      /\ UNCHANGED <<actor, queue, queueHistory, start_ops>>
  BY Zenon DEF HandleStarted, Received, boundVars
<1>i. MiscOK /\ ServerInv
  BY DEF IInv
<1>1. ServerInv' /\ Head(channel) \in Notification
  BY <1>0, <1>i, ReceiveServer
<1>2. /\ TurnGoesOn /\ LatchGoesOn /\ announced' \in 0..MaxTurns
      /\ TurnInProgress => TurnInProgress'
  <2>1. CASE bound
    <3>1. MarkTurnStarted(Head(channel).turn) /\ announced' = Head(channel).turn
      BY <2>1, Zenon DEF HandleStarted
    <3> QED
      BY <1>1, <3>1, NotificationFields, MarkStarted
  <2>2. CASE ~bound
    <3>1. current' = current /\ starting' = starting /\ latch' = latch /\ announced' = announced
      BY <2>2, Zenon DEF HandleStarted
    <3> QED
      BY <1>i, <3>1, TurnStays DEF LatchGoesOn, MiscOK
  <2> QED
    BY <2>1, <2>2
<1>3. Plain
  BY <1>0, <1>2, Zenon DEF Plain, IInv, MiscOK
<1>4. TimerInv'
  BY <1>0, <1>2, TimerQuiet
<1> QED
  BY <1>0, <1>1, <1>2, <1>3, <1>4, NoTask

LEMMA HandleTerminalKeeps == ASSUME IInv, HandleTerminal PROVE IInv'
<1> DEFINE t == Head(channel).turn
           f == Head(channel).failed
<1>0. /\ channel # <<>> /\ channel' = Tail(channel) /\ server' = server
      /\ actor[Router].pc = "idle"
      /\ token' = token /\ orphans' \subseteq orphans /\ announced' = announced
      /\ client_turn' = client_turn /\ bound' = bound /\ notices' = notices /\ told' = told
      /\ excused' = excused /\ messages' = messages /\ restarts' = restarts
      /\ forsaken' = forsaken
      /\ UNCHANGED <<queue, queueHistory, start_ops>>
  BY Zenon DEF HandleTerminal, Received, boundVars
<1>i. MiscOK /\ ServerInv /\ TaskInv
  BY DEF IInv
<1>1. ServerInv' /\ t \in 0..MaxTurns /\ t \in Turns /\ f \in BOOLEAN
  <2>1. ServerInv' /\ Head(channel) \in Notification
    BY <1>0, <1>i, ReceiveServer
  <2> QED
    BY <2>1, NotificationFields
<1>2. Plain
  <2>1. client_turn' \in 0..MaxTurns
    BY <1>0, <1>i, Zenon DEF MiscOK
  <2> QED
    BY <1>0, <2>1, Unmoved
<1>c. \/ UNCHANGED <<current, starting, latch, actor>>
      \/ /\ ~bound /\ actor' = actor
         /\ \/ MarkTurnCompleted(t)
            \/ CancelTerminalStatusFallback(t) /\ UNCHANGED <<current, starting>>
      \/ /\ CancelTerminalStatusFallback(t) /\ UNCHANGED <<current, starting>>
         /\ actor' = [actor EXCEPT ![Router] = Finishing(t, f)]
  BY Zenon DEF HandleTerminal, Finishing
<1> HIDE DEF t, f
<1>3. CASE UNCHANGED <<current, starting, latch, actor>>
  <2>1. TurnGoesOn /\ LatchGoesOn /\ (TurnInProgress => TurnInProgress')
    BY <1>3, <1>i, TurnStays DEF LatchGoesOn
  <2>2. TimerInv'
    BY <1>0, <1>3, <2>1, TimerQuiet
  <2> QED
    BY <1>0, <1>1, <1>2, <1>3, <2>1, <2>2, NoTask
<1>4. CASE /\ ~bound /\ actor' = actor
           /\ \/ MarkTurnCompleted(t)
              \/ CancelTerminalStatusFallback(t) /\ UNCHANGED <<current, starting>>
  <2>1. TurnGoesOn /\ LatchGoesOn
    BY <1>4, <1>i, MarkCompleted, TurnStays, Cancelled
  <2>2. TimerInv'
    BY <1>0, <1>4, <2>1, TimerQuiet
  <2> QED
    BY <1>0, <1>1, <1>2, <1>4, <2>1, <2>2, NoTask
<1>5. CASE /\ CancelTerminalStatusFallback(t) /\ UNCHANGED <<current, starting>>
           /\ actor' = [actor EXCEPT ![Router] = Finishing(t, f)]
  <2>1. TurnGoesOn /\ LatchGoesOn /\ (TurnInProgress => TurnInProgress')
    BY <1>5, <1>i, TurnStays, Cancelled
  <2>2. Router \in Actors /\ Router \notin Tokens
    BY ActorNumbers
  <2>3. PICK r : r = Finishing(t, f)
    OBVIOUS
  <2>4. r \in Task /\ Sound(r) /\ r.pc = "finish"
    <3>1. t # 0
      BY <1>1, Numbers
    <3> QED
      BY <1>1, <2>3, <3>1, FinishingTask, Zenon DEF Sound
  <2>5. ~Owns(Router) /\ ~WillStart(Router) /\ actor[Router].pc # "await"
    BY <1>0, Zenon DEF Owns, WillStart
  <2>6. actor' = [actor EXCEPT ![Router] = r]
    BY <1>5, <2>3
  <2> QED
    BY <1>0, <1>1, <1>2, <2>1, <2>2, <2>4, <2>5, <2>6, QuietStep, Zenon
<1> QED
  BY <1>c, <1>3, <1>4, <1>5

LEMMA HandleStatusKeeps == ASSUME IInv, HandleStatus PROVE IInv'
<1>0. /\ channel # <<>> /\ channel' = Tail(channel) /\ server' = server
      /\ Head(channel).kind = "status"
      /\ announced' = announced /\ orphans' \subseteq orphans
      /\ current' = current /\ starting' = starting
      /\ client_turn' = client_turn /\ bound' = bound /\ notices' = notices /\ told' = told
      /\ excused' = excused /\ messages' = messages /\ restarts' = restarts
      /\ forsaken' = forsaken
      /\ UNCHANGED <<queue, queueHistory, start_ops>>
  BY Zenon DEF HandleStatus, Received, boundVars
<1>i. MiscOK /\ ServerInv /\ TaskInv /\ QueueInv
  BY DEF IInv
<1>1. Plain
  <2>1. client_turn' \in 0..MaxTurns
    BY <1>0, <1>i, Zenon DEF MiscOK
  <2> QED
    BY <1>0, <2>1, Unmoved
<1>2. TurnGoesOn /\ (TurnInProgress => TurnInProgress')
  BY <1>0, <1>i, TurnStays
<1>3. CASE UNCHANGED <<latch, token, actor>>
  <2>1. TimerInv'
    BY <1>0, <1>3, TimerQuiet DEF LatchGoesOn
  <2>2. ServerInv'
    BY <1>0, <1>3, <1>i, ReceiveServer
  <2> QED
    BY <1>0, <1>1, <1>2, <1>3, <2>1, <2>2, NoTask
<1>4. CASE ~UNCHANGED <<latch, token, actor>>
  <2>1. TimerInv'
    BY <1>4, HandleStatusTimer
  <2>2. PICK k \in Tokens : /\ TaskInv' /\ Moves(k, "idle", "asleep")
                            /\ token' \in {token, token + 1}
    BY <1>4, HandleStatusTimer
  <2>3. k \in Actors
    BY ActorNumbers
  <2>4. ServerInv'
    BY <1>0, <1>i, <2>2, ReceiveServer, Zenon
  <2>5. ~Owns(k) /\ ~Owns(k)' /\ ~WillStart(k)
    BY <2>2, Zenon DEF Owns, Moves, WillStart
  <2>6. QueueInv'
    BY <1>0, <1>i, <2>2, <2>3, <2>5, QueueQuiet
  <2>7. queue' # <<>> => Waiting
    BY <1>0, Zenon DEF Waiting
  <2>8. Waiting' => Waiting
    BY <2>2, <2>3, <2>7, WaitingStep, Zenon
  <2>9. WaitingHasStarter'
    BY <1>0, <1>2, <2>2, <2>3, <2>5, <2>8, StarterKeeps, Zenon DEF IInv, StarterInv
  <2>10. start_ops' \in Actors \cup {Nobody}
    BY <1>0, <1>i, Zenon DEF MiscOK
  <2> QED
    BY <1>0, <1>1, <1>2, <2>1, <2>2, <2>3, <2>4, <2>6, <2>7, <2>9, <2>10, Assemble, Zenon
<1> QED
  BY <1>3, <1>4

-----------------------------------------------------------------------------
(* Starting turns *)

\* What every step of a start leaves alone
StartFrame ==
    /\ bound' = bound /\ forsaken' = forsaken /\ restarts' = restarts /\ messages' = messages
    /\ announced' = announced /\ notices' = notices /\ told' = told
    /\ server' = server /\ channel' = channel /\ token' = token /\ orphans' = orphans

LEMMA StartStep ==
    ASSUME IInv, StartFrame, client_turn' \in 0..MaxTurns, excused' \in BOOLEAN,
           excused => excused', TurnGoesOn, LatchGoesOn, TaskInv', QueueInv', WaitingHasStarter',
           NEW a \in Actors, NEW p, NEW q, Moves(a, p, q), p # "idle",
           start_ops' \in {start_ops, Nobody, a},
           q = "mark" => bound \/ p = "mark", p = "await" /\ starting' => q = "await",
           queue' # <<>> => Waiting \/ bound, q = "requeue" => bound \/ excused' \/ forsaken
    PROVE  IInv'
<1>1. Plain
  BY Zenon DEF Plain, IInv, MiscOK, StartFrame
<1>2. ServerInv'
  BY ServerSame DEF IInv, StartFrame
<1>3. TimerInv'
  BY TimerKeeps, Zenon DEF IInv, ServerInv, LatchGoesOn, StartFrame
<1>4. start_ops' \in Actors \cup {Nobody}
  BY Zenon DEF IInv, MiscOK
<1> QED
  BY <1>1, <1>2, <1>3, <1>4, Assemble

LEMMA LockKeeps == ASSUME IInv, NEW a \in Actors, Lock(a) PROVE IInv'
<1>0. /\ actor[a].pc = "lock" /\ start_ops = Nobody /\ start_ops' = a
      /\ actor' = [actor EXCEPT ![a] = Begin("take")]
      /\ StartFrame /\ client_turn' = client_turn /\ excused' = excused
      /\ current' = current /\ starting' = starting /\ latch' = latch
      /\ queue' = queue /\ items' = items /\ submitted' = submitted /\ dropped' = dropped
  BY Zenon DEF Lock, Begin, StartFrame, runtimeVars, queueHistory, boundVars
<1>i. MiscOK /\ TaskInv /\ QueueInv
  BY DEF IInv
<1>1. Begin("take") \in Task /\ Sound(Begin("take")) /\ Begin("take").pc = "take"
  <2>1. "take" \in Pc
    BY Zenon DEF Pc
  <2> QED
    BY <2>1, BeginTask, Zenon DEF Sound
<1>2. TaskInv' /\ Moves(a, "lock", "take")
  BY <1>0, <1>1, <1>i, TaskStep
<1>3. WillStart(a)' /\ ~Owns(a)
  BY <1>0, <1>2, Zenon DEF WillStart, Moves, Owns
<1>4. WaitingHasStarter'
  BY <1>3, StarterThere
<1>5. QueueInv'
  <2>1. Held(a) = {} /\ Held(a)' = {}
    BY <1>2, Zenon DEF Held, Moves
  <2>2. OthersKeepLock(a)
    BY <1>0, ActorNumbers, Zenon DEF OthersKeepLock
  <2> QED
    BY <1>0, <1>2, <1>i, <2>1, <2>2, QueueKeeps, Zenon DEF QueueInv
<1>6. TurnGoesOn /\ LatchGoesOn
  BY <1>0, <1>i, TurnStays DEF LatchGoesOn
<1>7. queue' # <<>> => Waiting
  BY <1>0, Zenon DEF Waiting
<1>8. client_turn' \in 0..MaxTurns /\ excused' \in BOOLEAN
  BY <1>0, <1>i, Zenon DEF MiscOK
<1> QED
  BY <1>0, <1>2, <1>4, <1>5, <1>6, <1>7, <1>8, StartStep, Zenon

\* The task that has the lock has nobody who puts a message back beside it.
LEMMA OwnerAlone ==
    ASSUME QueueInv, NEW a \in Actors, Owns(a), NEW p, NEW q, Moves(a, p, q), q # "requeue",
           queue' = <<>>
    PROVE  ~Waiting'
<1>1. \A b \in Actors : b # a => actor[b].pc # "requeue"
  BY OneOwner, Zenon DEF QueueInv, Owns
<1> QED
  BY <1>1, Zenon DEF Waiting, Moves

\* The lock is released by the task that has it.
LEMMA Releases ==
    ASSUME QueueInv, NEW a \in Actors, Owns(a), start_ops' = Nobody
    PROVE  OthersKeepLock(a)
BY ActorNumbers, Zenon DEF OthersKeepLock, QueueInv, OpsHeld

LEMMA TakeKeeps == ASSUME IInv, NEW a \in Actors, Take(a) PROVE IInv'
<1>0. /\ actor[a].pc = "take"
      /\ StartFrame /\ client_turn' = client_turn /\ excused' = excused
      /\ current' = current /\ starting' = starting /\ latch' = latch
      /\ items' = items /\ submitted' = submitted /\ dropped' = dropped
  BY Zenon DEF Take, StartFrame, queueHistory, boundVars
<1>i. MiscOK /\ TaskInv /\ QueueInv
  BY DEF IInv
<1>6. TurnGoesOn /\ LatchGoesOn
  BY <1>0, <1>i, TurnStays DEF LatchGoesOn
<1>8. client_turn' \in 0..MaxTurns /\ excused' \in BOOLEAN
  BY <1>0, <1>i, Zenon DEF MiscOK
<1>o. Owns(a)
  BY <1>0, Zenon DEF Owns
<1>1. CASE /\ queue = <<>> /\ start_ops' = Nobody /\ queue' = queue
           /\ actor' = [actor EXCEPT ![a] = Idle]
  <2>1. TaskInv' /\ Moves(a, "take", "idle")
    <3>1. TaskInv' /\ Moves(a, actor[a].pc, Idle.pc)
      BY <1>1, <1>i, TaskStep, IdleTask, IdleSound
    <3> QED
      BY <1>0, <3>1, IdleTask, Zenon
  <2>2. ~Waiting'
    BY <1>1, <1>i, <1>o, <2>1, OwnerAlone
  <2>3. WaitingHasStarter'
    BY <2>2, StarterExcused
  <2>4. QueueInv'
    <3>1. Held(a) = {} /\ Held(a)' = {} /\ ~Owns(a)'
      BY <2>1, Zenon DEF Held, Owns, Moves
    <3>2. OthersKeepLock(a)
      BY <1>1, <1>i, <1>o, Releases
    <3> QED
      BY <1>0, <1>1, <1>i, <2>1, <3>1, <3>2, QueueKeeps, Zenon DEF QueueInv
  <2> QED
    BY <1>0, <1>1, <1>6, <1>8, <2>1, <2>3, <2>4, StartStep, Zenon
<1>2. CASE /\ queue # <<>> /\ queue' = Tail(queue) /\ start_ops' = start_ops
           /\ actor' = [actor EXCEPT ![a] = Taking(Head(queue))]
  <2>0. Head(queue) \in 1..MaxItems
    BY <1>2, <1>i, HeadTailProperties DEF QueueInv
  <2>t. Head(queue) \in 0..MaxItems /\ Head(queue) # 0
    BY <2>0, SMT
  <2>r. PICK r : r = Taking(Head(queue))
    OBVIOUS
  <2>s. r \in Task /\ Sound(r) /\ r.pc = "route" /\ r.item = Head(queue)
    BY <2>r, <2>t, TakingTask, Zenon DEF Sound
  <2>1. TaskInv' /\ Moves(a, "take", "route") /\ actor'[a].item = Head(queue)
    <3>1. actor' = [actor EXCEPT ![a] = r]
      BY <1>2, <2>r
    <3>2. TaskInv' /\ actor'[a] = r /\ Moves(a, actor[a].pc, r.pc)
      BY <1>i, <2>s, <3>1, TaskStep
    <3> QED
      BY <1>0, <2>s, <3>2, Zenon
  <2>2. WillStart(a)'
    BY <2>1, <2>t, Zenon DEF WillStart, Moves
  <2>3. WaitingHasStarter'
    BY <2>2, StarterThere
  <2>4. QueueInv'
    BY <1>0, <1>2, <1>i, <2>1, QueueTake DEF queueHistory
  <2>5. Waiting
    BY <1>2, Zenon DEF Waiting
  <2> QED
    BY <1>0, <1>2, <1>6, <1>8, <2>1, <2>3, <2>4, <2>5, StartStep, Zenon
<1> QED
  BY <1>1, <1>2, Zenon DEF Take, Taking

\* A task goes on with the message it has.
LEMMA QueueSameHeld ==
    ASSUME QueueInv, UNCHANGED <<queue, items, submitted, dropped, start_ops>>,
           NEW a \in Actors, NEW p, NEW q, Moves(a, p, q),
           Held(a)' = Held(a), Owns(a)' => Owns(a)
    PROVE  QueueInv'
<1>1. OthersKeepLock(a) /\ (Owns(a)' => start_ops' = a)
  BY Zenon DEF OthersKeepLock, QueueInv, OpsHeld
<1>2. dropped' = dropped /\ queue' = queue /\ dropped' \subseteq 1..MaxItems
  BY Zenon DEF QueueInv
<1> QED
  BY <1>1, <1>2, QueueKeeps, Zenon

\* A start that was not made
LEMMA RefusedTask ==
    ASSUME TaskInv, NEW a \in Actors, actor[a].pc \in {"route", "mark"},
           actor' = [actor EXCEPT ![a] = Refused(a)]
    PROVE  /\ TaskInv' /\ Held(a)' = Held(a) /\ (Owns(a)' => Owns(a))
           /\ Moves(a, actor[a].pc, "idle") \/ Moves(a, actor[a].pc, "requeue")
<1>a. actor[a] \in Task
  BY Zenon DEF TaskInv
<1>1. CASE actor[a].item = 0
  <2>1. actor' = [actor EXCEPT ![a] = Idle]
    BY <1>1, Zenon DEF Refused
  <2>2. TaskInv' /\ Moves(a, actor[a].pc, "idle")
    <3>1. TaskInv' /\ Moves(a, actor[a].pc, Idle.pc)
      BY <2>1, TaskStep, IdleTask, IdleSound
    <3> QED
      BY <3>1, IdleTask, Zenon
  <2>3. Held(a) = {} /\ Held(a)' = {} /\ ~Owns(a)'
    BY <1>1, <2>2, Zenon DEF Held, Owns, Moves
  <2> QED
    BY <2>2, <2>3
<1>2. CASE actor[a].item # 0
  <2>1. actor' = [actor EXCEPT ![a] = At(actor[a], "requeue")]
    BY <1>2, Zenon DEF Refused, At
  <2>2. PICK r : r = At(actor[a], "requeue")
    OBVIOUS
  <2>3. r \in Task /\ Sound(r) /\ r.pc = "requeue" /\ r.item = actor[a].item
    <3>1. "requeue" \in Pc
      BY Zenon DEF Pc
    <3> QED
      BY <1>2, <1>a, <2>2, <3>1, AtTask, Zenon DEF Sound
  <2>4. TaskInv' /\ Moves(a, actor[a].pc, "requeue") /\ actor'[a].item = actor[a].item
    <3>1. TaskInv' /\ actor'[a] = r /\ Moves(a, actor[a].pc, r.pc)
      BY <2>1, <2>2, <2>3, TaskStep
    <3> QED
      BY <2>3, <3>1, Zenon
  <2>5. Held(a)' = Held(a) /\ Owns(a)
    BY <1>2, <2>4, Zenon DEF Held, Owns, Moves
  <2> QED
    BY <2>4, <2>5
<1> QED
  BY <1>1, <1>2

\* A start without a thread
LEMMA NoThreadTask ==
    ASSUME TaskInv, NEW a \in Actors, actor[a].pc \in {"route", "await"},
           actor' = [actor EXCEPT ![a] = NoThread(a)]
    PROVE  /\ TaskInv' /\ Held(a)' = {} /\ (Owns(a)' => Owns(a))
           /\ Moves(a, actor[a].pc, "idle") \/ Moves(a, actor[a].pc, "clear")
           /\ actor[a].item = 0 => Moves(a, actor[a].pc, "idle")
<1>1. CASE actor[a].item = 0
  <2>1. actor' = [actor EXCEPT ![a] = Idle]
    BY <1>1, Zenon DEF NoThread
  <2>2. TaskInv' /\ Moves(a, actor[a].pc, "idle")
    <3>1. TaskInv' /\ Moves(a, actor[a].pc, Idle.pc)
      BY <2>1, TaskStep, IdleTask, IdleSound
    <3> QED
      BY <3>1, IdleTask, Zenon
  <2>3. Held(a)' = {} /\ ~Owns(a)'
    BY <2>2, Zenon DEF Held, Owns, Moves
  <2> QED
    BY <2>2, <2>3
<1>2. CASE actor[a].item # 0
  <2>1. actor' = [actor EXCEPT ![a] = Begin("clear")]
    BY <1>2, Zenon DEF NoThread, Begin
  <2>2. PICK r : r = Begin("clear")
    OBVIOUS
  <2>3. r \in Task /\ Sound(r) /\ r.pc = "clear"
    <3>1. "clear" \in Pc
      BY Zenon DEF Pc
    <3> QED
      BY <2>2, <3>1, BeginTask, Zenon DEF Sound
  <2>4. TaskInv' /\ Moves(a, actor[a].pc, "clear")
    <3>1. TaskInv' /\ actor'[a] = r /\ Moves(a, actor[a].pc, r.pc)
      BY <2>1, <2>2, <2>3, TaskStep
    <3> QED
      BY <2>3, <3>1, Zenon
  <2>5. Held(a)' = {} /\ Owns(a)
    BY <1>2, <2>4, Zenon DEF Held, Owns, Moves
  <2> QED
    BY <1>2, <2>4, <2>5
<1> QED
  BY <1>1, <1>2

LEMMA RouteKeeps == ASSUME IInv, NEW a \in Actors, Route(a) PROVE IInv'
<1>0. /\ actor[a].pc = "route"
      /\ StartFrame /\ client_turn' = client_turn
      /\ current' = current /\ starting' = starting /\ latch' = latch /\ queue' = queue
      /\ items' = items /\ submitted' = submitted /\ start_ops' = start_ops
  BY Zenon DEF Route, StartFrame, runtimeVars, boundVars
<1>i. MiscOK /\ TaskInv /\ QueueInv /\ StarterInv
  BY DEF IInv
<1>6. TurnGoesOn /\ LatchGoesOn /\ (TurnInProgress => TurnInProgress')
  BY <1>0, <1>i, TurnStays DEF LatchGoesOn
<1>7. queue' # <<>> => Waiting
  BY <1>0, Zenon DEF Waiting
<1>8. client_turn' \in 0..MaxTurns
  BY <1>0, <1>i, Zenon DEF MiscOK
<1>a. actor[a] \in Task
  BY <1>i, Zenon DEF TaskInv
<1>1. CASE actor' = [actor EXCEPT ![a] = Refused(a)] /\ excused' = TRUE /\ dropped' = dropped
  <2>1. PICK q \in {"idle", "requeue"} : /\ TaskInv' /\ Held(a)' = Held(a) /\ (Owns(a)' => Owns(a))
                                         /\ Moves(a, "route", q)
    BY <1>0, <1>1, <1>i, RefusedTask, Zenon
  <2>2. QueueInv'
    BY <1>0, <1>1, <1>i, <2>1, QueueSameHeld
  <2>3. WaitingHasStarter'
    BY <1>1, StarterExcused
  <2>4. excused' \in BOOLEAN /\ excused' /\ q # "mark"
    BY <1>1
  <2> QED
    BY <1>0, <1>6, <1>7, <1>8, <2>1, <2>2, <2>3, <2>4, StartStep, Zenon
<1>2. CASE /\ ~bound /\ actor' = [actor EXCEPT ![a] = NoThread(a)]
           /\ dropped' = dropped \cup ({actor[a].item} \ {0}) /\ excused' = excused
  <2>1. PICK q \in {"idle", "clear"} : /\ TaskInv' /\ Held(a)' = {} /\ (Owns(a)' => Owns(a))
                                       /\ Moves(a, "route", q)
    BY <1>0, <1>2, <1>i, NoThreadTask, Zenon
  <2>2. QueueInv'
    <3>1. Held(a) = {actor[a].item} \ {0}
      BY <1>0, Zenon DEF Held
    <3>2. OthersKeepLock(a) /\ (Owns(a)' => start_ops' = a)
      BY <1>0, <1>i, <2>1, Zenon DEF OthersKeepLock, QueueInv, OpsHeld
    <3>3. dropped' = dropped \cup Held(a) /\ dropped \subseteq 1..MaxItems
      BY <1>2, <1>i, <3>1 DEF QueueInv
    <3>4. dropped' \subseteq 1..MaxItems /\ dropped \subseteq dropped' /\ Held(a) \subseteq dropped'
      BY <1>i, <3>3, HeldType, Zenon
    <3> QED
      BY <1>0, <1>i, <2>1, <3>2, <3>4, QueueKeeps, Zenon
  <2>3. WaitingHasStarter'
    <3>1. q # "requeue" /\ forsaken' = forsaken /\ excused' = excused
      BY <1>0, <1>2 DEF StartFrame
    <3> QED
      BY <1>2, <1>7, <1>i, <2>1, <3>1, UnboundStarter
  <2>4. excused' \in BOOLEAN /\ (excused => excused') /\ q \notin {"mark", "requeue"}
    BY <1>2, <1>i, <2>1, Zenon DEF MiscOK
  <2> QED
    BY <1>0, <1>6, <1>7, <1>8, <2>1, <2>2, <2>3, <2>4, StartStep, Zenon
<1>3. CASE /\ bound /\ actor' = [actor EXCEPT ![a] = At(actor[a], "mark")]
           /\ dropped' = dropped /\ excused' = excused
  <2>1. PICK r : r = At(actor[a], "mark")
    OBVIOUS
  <2>2. r \in Task /\ Sound(r) /\ r.pc = "mark" /\ r.item = actor[a].item
    <3>1. "mark" \in Pc
      BY Zenon DEF Pc
    <3> QED
      BY <1>a, <2>1, <3>1, AtTask, Zenon DEF Sound
  <2>3. TaskInv' /\ Moves(a, "route", "mark") /\ actor'[a].item = actor[a].item
    <3>1. TaskInv' /\ actor'[a] = r /\ Moves(a, actor[a].pc, r.pc)
      BY <1>3, <1>i, <2>1, <2>2, TaskStep
    <3> QED
      BY <1>0, <2>2, <3>1, Zenon
  <2>4. Held(a)' = Held(a) /\ (Owns(a)' => Owns(a)) /\ (WillStart(a) => WillStart(a)')
    BY <2>3, Zenon DEF Held, Owns, WillStart, Moves
  <2>5. QueueInv'
    BY <1>0, <1>3, <1>i, <2>3, <2>4, QueueSameHeld
  <2>6. Waiting' => Waiting
    BY <1>7, <2>3, WaitingStep, Zenon
  <2>7. WaitingHasStarter'
    BY <1>0, <1>3, <1>6, <1>i, <2>3, <2>4, <2>6, StarterKeeps, Zenon DEF StarterInv, StartFrame
  <2>8. excused' \in BOOLEAN /\ (excused => excused')
    BY <1>3, <1>i, Zenon DEF MiscOK
  <2> QED
    BY <1>0, <1>3, <1>6, <1>7, <1>8, <2>3, <2>5, <2>7, <2>8, StartStep, Zenon
<1> QED
  BY <1>1, <1>2, <1>3, Zenon DEF Route, At

\* try_mark_turn_starting and message_is_stale_for_latest_turn
LEMMA MarkKeeps == ASSUME IInv, NEW a \in Actors, Mark(a) PROVE IInv'
<1>0. /\ actor[a].pc = "mark"
      /\ StartFrame /\ client_turn' = client_turn /\ excused' = excused
      /\ current' = current /\ latch' = latch /\ queue' = queue
      /\ items' = items /\ start_ops' = start_ops
  BY Zenon DEF Mark, StartFrame, boundVars
<1>i. MiscOK /\ TaskInv /\ QueueInv /\ StarterInv /\ ReservationInv
  BY DEF IInv
<1>7. queue' # <<>> => Waiting
  BY <1>0, Zenon DEF Waiting
<1>8. client_turn' \in 0..MaxTurns /\ excused' \in BOOLEAN
  BY <1>0, <1>i, Zenon DEF MiscOK
<1>a. actor[a] \in Task
  BY <1>i, Zenon DEF TaskInv
<1>b. bound \/ forsaken
  BY <1>0, <1>i, Zenon DEF ReservationInv, UnboundIsFree, MiscOK
<1>1. CASE /\ TurnInProgress /\ actor' = [actor EXCEPT ![a] = Refused(a)]
           /\ starting' = starting /\ submitted' = submitted /\ dropped' = dropped
  <2>1. PICK q \in {"idle", "requeue"} : /\ TaskInv' /\ Held(a)' = Held(a) /\ (Owns(a)' => Owns(a))
                                         /\ Moves(a, "mark", q)
    BY <1>0, <1>1, <1>i, RefusedTask, Zenon
  <2>2. QueueInv'
    BY <1>0, <1>1, <1>i, <2>1, QueueSameHeld
  <2>3. TurnGoesOn /\ LatchGoesOn /\ TurnInProgress'
    BY <1>0, <1>1, <1>i, TurnStays DEF LatchGoesOn
  <2>4. WaitingHasStarter'
    BY <2>3, StarterExcused
  <2> QED
    BY <1>0, <1>7, <1>8, <1>b, <2>1, <2>2, <2>3, <2>4, StartStep, Zenon
<1>2. CASE /\ actor[a].item = 0 /\ actor' = [actor EXCEPT ![a] = Idle]
           /\ starting' = starting /\ submitted' = submitted /\ dropped' = dropped
  <2>1. TaskInv' /\ Moves(a, "mark", "idle")
    <3>1. TaskInv' /\ Moves(a, actor[a].pc, Idle.pc)
      BY <1>2, <1>i, TaskStep, IdleTask, IdleSound
    <3> QED
      BY <1>0, <3>1, IdleTask, Zenon
  <2>2. Held(a) = {} /\ Held(a)' = {} /\ ~Owns(a)' /\ ~WillStart(a)
    BY <1>0, <1>2, <2>1, Zenon DEF Held, Owns, Moves, WillStart
  <2>3. QueueInv'
    BY <1>0, <1>2, <1>i, <2>1, <2>2, QueueSameHeld
  <2>4. TurnGoesOn /\ LatchGoesOn /\ (TurnInProgress => TurnInProgress')
    BY <1>0, <1>2, <1>i, TurnStays DEF LatchGoesOn
  <2>5. Waiting' => Waiting
    BY <1>7, <2>1, WaitingStep, Zenon
  <2>6. WaitingHasStarter'
    BY <1>0, <1>i, <2>1, <2>2, <2>4, <2>5, StarterKeeps, Zenon DEF StarterInv, StartFrame
  <2> QED
    BY <1>0, <1>7, <1>8, <2>1, <2>3, <2>4, <2>6, StartStep, Zenon
<1>3. CASE /\ starting' = TRUE /\ actor' = [actor EXCEPT ![a] = At(actor[a], "await")]
           /\ submitted' = IF actor[a].item = 0 THEN submitted
                           ELSE Append(submitted, actor[a].item)
           /\ dropped' = dropped
  <2>1. PICK r : r = At(actor[a], "await")
    OBVIOUS
  <2>2. r \in Task /\ Sound(r) /\ r.pc = "await" /\ r.item = actor[a].item
    <3>1. "await" \in Pc
      BY Zenon DEF Pc
    <3> QED
      BY <1>a, <2>1, <3>1, AtTask, Zenon DEF Sound
  <2>3. TaskInv' /\ Moves(a, "mark", "await") /\ actor'[a].item = actor[a].item
    <3>1. TaskInv' /\ actor'[a] = r /\ Moves(a, actor[a].pc, r.pc)
      BY <1>3, <1>i, <2>1, <2>2, TaskStep
    <3> QED
      BY <1>0, <2>2, <3>1, Zenon
  <2>4. QueueInv'
    <3>1. CASE actor[a].item = 0
      <4>1. Held(a)' = Held(a) /\ ~Owns(a)'
        BY <1>0, <2>3, <3>1, Zenon DEF Held, Owns, Moves
      <4>2. submitted' = submitted
        BY <1>3, <3>1
      <4> QED
        BY <1>0, <1>3, <1>i, <2>3, <4>1, <4>2, QueueSameHeld
    <3>2. CASE actor[a].item # 0
      <4>1. submitted' = Append(submitted, actor[a].item)
        BY <1>3, <3>2
      <4> QED
        BY <1>0, <1>3, <1>i, <2>3, <3>2, <4>1, QueueSubmit
    <3> QED
      BY <3>1, <3>2
  <2>5. ReservationInv'
    BY <1>0, <1>i, <2>3, ReservationMade DEF StartFrame
  <2>6. TurnInProgress'
    BY <1>3, Zenon DEF TurnInProgress
  <2>7. UnboundIsEmpty'
    BY <1>0, <1>7, <1>i, <2>3, EmptyStep, Zenon DEF StarterInv, StartFrame
  <2>8. WaitingHasStarter'
    BY <2>6, StarterExcused
  <2>9. MiscOK'
    BY <1>0, <1>3, <1>i, Zenon DEF MiscOK, StartFrame
  <2>10. ServerInv'
    BY <1>0, ServerSame DEF IInv, StartFrame
  <2>11. TimerInv'
    BY <1>0, <2>3, TimerKeeps, Zenon DEF IInv, ServerInv, StartFrame
  <2>12. notices' \in Seq(Notice) /\ told' \in [Turns -> Nat]
    BY <1>0, Zenon DEF IInv, StartFrame
  <2> QED
    BY <2>3, <2>4, <2>5, <2>7, <2>8, <2>9, <2>10, <2>11, <2>12 DEF IInv, StarterInv
<1>4. CASE /\ actor[a].item # 0 /\ actor' = [actor EXCEPT ![a] = Begin("take")]
           /\ dropped' = dropped \cup {actor[a].item}
           /\ starting' = starting /\ submitted' = submitted
  <2>1. TaskInv' /\ Moves(a, "mark", "take")
    <3>1. PICK r : r = Begin("take")
      OBVIOUS
    <3>2. r \in Task /\ Sound(r) /\ r.pc = "take"
      <4>1. "take" \in Pc
        BY Zenon DEF Pc
      <4> QED
        BY <3>1, <4>1, BeginTask, Zenon DEF Sound
    <3>3. TaskInv' /\ Moves(a, actor[a].pc, r.pc)
      BY <1>4, <1>i, <3>1, <3>2, TaskStep
    <3> QED
      BY <1>0, <3>2, <3>3, Zenon
  <2>2. Owns(a) /\ Held(a)' = {} /\ Held(a) = {actor[a].item} \ {0} /\ WillStart(a)'
    BY <1>0, <1>4, <2>1, Zenon DEF Owns, Held, WillStart, Moves
  <2>3. QueueInv'
    <3>1. OthersKeepLock(a) /\ start_ops' = a
      BY <1>0, <1>i, <2>2, Zenon DEF OthersKeepLock, QueueInv, OpsHeld
    <3>2. dropped' = dropped \cup Held(a) /\ dropped \subseteq 1..MaxItems
      BY <1>4, <1>i, <2>2 DEF QueueInv
    <3>3. dropped' \subseteq 1..MaxItems /\ dropped \subseteq dropped' /\ Held(a) \subseteq dropped'
      BY <1>i, <3>2, HeldType, Zenon
    <3> QED
      BY <1>0, <1>4, <1>i, <2>1, <2>2, <3>1, <3>3, QueueKeeps, Zenon
  <2>4. TurnGoesOn /\ LatchGoesOn
    BY <1>0, <1>4, <1>i, TurnStays DEF LatchGoesOn
  <2>5. WaitingHasStarter'
    BY <2>2, StarterThere
  <2> QED
    BY <1>0, <1>7, <1>8, <2>1, <2>3, <2>4, <2>5, StartStep, Zenon
<1> QED
  BY <1>1, <1>2, <1>3, <1>4, Zenon DEF Mark, At, Begin

LEMMA RequeueKeeps == ASSUME IInv, NEW a \in Actors, Requeue(a) PROVE IInv'
<1>0. /\ actor[a].pc = "requeue" /\ actor' = [actor EXCEPT ![a] = Idle]
      /\ queue' = <<actor[a].item>> \o queue /\ start_ops' = Nobody
      /\ StartFrame /\ client_turn' = client_turn /\ excused' = excused
      /\ current' = current /\ starting' = starting /\ latch' = latch
      /\ UNCHANGED queueHistory
  BY Zenon DEF Requeue, StartFrame, boundVars
<1>i. MiscOK /\ TaskInv /\ QueueInv /\ StarterInv
  BY DEF IInv
<1>1. TaskInv' /\ Moves(a, "requeue", "idle")
  <2>1. TaskInv' /\ Moves(a, actor[a].pc, Idle.pc)
    BY <1>0, <1>i, TaskStep, IdleTask, IdleSound
  <2> QED
    BY <1>0, <2>1, IdleTask, Zenon
<1>2. QueueInv'
  BY <1>0, <1>1, <1>i, QueueRequeue
<1>3. Waiting /\ ~WillStart(a)
  BY <1>0, Zenon DEF Waiting, WillStart
<1>4. TurnGoesOn /\ LatchGoesOn /\ (TurnInProgress => TurnInProgress')
  BY <1>0, <1>i, TurnStays DEF LatchGoesOn
<1>5. WaitingHasStarter'
  BY <1>0, <1>1, <1>3, <1>4, <1>i, StarterKeeps, Zenon DEF StarterInv, StartFrame
<1>6. client_turn' \in 0..MaxTurns /\ excused' \in BOOLEAN
  BY <1>0, <1>i, Zenon DEF MiscOK
<1> QED
  BY <1>0, <1>1, <1>2, <1>3, <1>4, <1>5, <1>6, StartStep, Zenon

LEMMA ClearQueueKeeps == ASSUME IInv, NEW a \in Actors, ClearQueue(a) PROVE IInv'
<1>0. /\ actor[a].pc = "clear" /\ actor' = [actor EXCEPT ![a] = Idle]
      /\ queue' = <<>> /\ start_ops' = Nobody
      /\ dropped' = dropped \cup {queue[i] : i \in DOMAIN queue}
      /\ StartFrame /\ client_turn' = client_turn /\ excused' = excused
      /\ current' = current /\ starting' = starting /\ latch' = latch
      /\ items' = items /\ submitted' = submitted
  BY Zenon DEF ClearQueue, StartFrame, boundVars
<1>i. MiscOK /\ TaskInv /\ QueueInv /\ StarterInv
  BY DEF IInv
<1>1. TaskInv' /\ Moves(a, "clear", "idle")
  <2>1. TaskInv' /\ Moves(a, actor[a].pc, Idle.pc)
    BY <1>0, <1>i, TaskStep, IdleTask, IdleSound
  <2> QED
    BY <1>0, <2>1, IdleTask, Zenon
<1>2. Owns(a) /\ ~Owns(a)' /\ Held(a) = {} /\ Held(a)' = {}
  BY <1>0, <1>1, Zenon DEF Owns, Held, Moves
<1>3. QueueInv'
  <2>1. OthersKeepLock(a)
    BY <1>0, <1>2, <1>i, Releases
  <2>2. \A i \in DOMAIN queue : queue[i] \in dropped' /\ queue[i] \in 1..MaxItems
    <3>1. \A i \in DOMAIN queue : queue[i] \in 1..MaxItems
      BY <1>i, SMT DEF QueueInv
    <3> QED
      BY <1>0, <3>1, Zenon
  <2>3. dropped \subseteq dropped' /\ dropped' \subseteq 1..MaxItems
    BY <1>0, <1>i, <2>2, Zenon DEF QueueInv
  <2> QED
    BY <1>0, <1>1, <1>2, <1>i, <2>1, <2>2, <2>3, QueueKeeps, Zenon
<1>4. ~Waiting'
  BY <1>0, <1>1, <1>2, <1>i, OwnerAlone, Zenon
<1>5. WaitingHasStarter'
  BY <1>4, StarterExcused
<1>6. TurnGoesOn /\ LatchGoesOn
  BY <1>0, <1>i, TurnStays DEF LatchGoesOn
<1>7. client_turn' \in 0..MaxTurns /\ excused' \in BOOLEAN
  BY <1>0, <1>i, Zenon DEF MiscOK
<1> QED
  BY <1>0, <1>1, <1>3, <1>5, <1>6, <1>7, StartStep, Zenon

LEMMA StartedKeeps == ASSUME IInv, NEW a \in Actors, Started(a) PROVE IInv'
<1>0. /\ actor[a].pc = "await" /\ actor[a].turn # 0 /\ actor' = [actor EXCEPT ![a] = Idle]
      /\ client_turn' = actor[a].turn /\ MarkTurnStarted(actor[a].turn)
      /\ start_ops' = IF start_ops = a THEN Nobody ELSE start_ops
      /\ StartFrame /\ UNCHANGED <<queue, items, submitted, dropped>>
  BY Zenon DEF Started, StartFrame, queueHistory, boundVars
<1>e. excused' \in BOOLEAN /\ (excused => excused')
  BY Zenon DEF Started
<1>i. MiscOK /\ TaskInv /\ QueueInv /\ StarterInv
  BY DEF IInv
<1>t. actor[a].turn \in Turns /\ actor[a].turn \in 0..MaxTurns
  BY <1>0, <1>i, TaskFields, Numbers, Zenon DEF TaskInv
<1>1. TaskInv' /\ Moves(a, "await", "idle")
  <2>1. TaskInv' /\ Moves(a, actor[a].pc, Idle.pc)
    BY <1>0, <1>i, TaskStep, IdleTask, IdleSound
  <2> QED
    BY <1>0, <2>1, IdleTask, Zenon
<1>2. ~Owns(a)' /\ Held(a) = {} /\ Held(a)' = {}
  BY <1>0, <1>1, Zenon DEF Owns, Held, Moves
<1>3. QueueInv'
  <2>1. OthersKeepLock(a)
    BY <1>0, Zenon DEF OthersKeepLock
  <2>2. queue' = queue /\ dropped' = dropped /\ dropped' \subseteq 1..MaxItems
    BY <1>0, <1>i, Zenon DEF QueueInv
  <2> QED
    BY <1>0, <1>1, <1>2, <1>i, <2>1, <2>2, QueueKeeps, Zenon
<1>4. TurnGoesOn /\ LatchGoesOn /\ TurnInProgress' /\ ~starting'
  BY <1>0, <1>t, MarkStarted
<1>5. WaitingHasStarter'
  BY <1>4, StarterExcused
<1>6. queue' # <<>> => Waiting
  BY <1>0, Zenon DEF Waiting
<1>7. start_ops' \in {start_ops, Nobody, a}
  BY <1>0
<1> QED
  BY <1>0, <1>1, <1>3, <1>4, <1>5, <1>6, <1>7, <1>e, <1>t, StartStep, Zenon

LEMMA StartFailedKeeps == ASSUME IInv, NEW a \in Actors, StartFailed(a) PROVE IInv'
<1>0. /\ actor[a].pc = "await" /\ starting' = FALSE
      /\ current' = current /\ latch' = latch /\ client_turn' = client_turn
      /\ StartFrame /\ queue' = queue /\ items' = items /\ submitted' = submitted
      /\ dropped' = dropped /\ start_ops' = start_ops
      /\ UNCHANGED <<queue, queueHistory, start_ops>>
  BY Zenon DEF StartFailed, StartFrame, queueHistory, boundVars
<1>e. excused' \in BOOLEAN /\ (excused => excused') /\ (actor[a].item = 0 => excused')
  BY Zenon DEF StartFailed
<1>i. MiscOK /\ TaskInv /\ QueueInv /\ StarterInv
  BY DEF IInv
<1>1. TurnGoesOn /\ LatchGoesOn
  BY <1>0, <1>i, Zenon DEF TurnGoesOn, LatchGoesOn, MiscOK
<1>2. queue' # <<>> => Waiting
  BY <1>0, Zenon DEF Waiting
<1>3. client_turn' \in 0..MaxTurns
  BY <1>0, <1>i, Zenon DEF MiscOK
<1>4. CASE actor[a].item = 0
  <2>1. TaskInv' /\ Moves(a, "await", "idle")
    <3>1. actor' = [actor EXCEPT ![a] = Idle]
      BY <1>4, Zenon DEF StartFailed
    <3>2. TaskInv' /\ Moves(a, actor[a].pc, Idle.pc)
      BY <1>i, <3>1, TaskStep, IdleTask, IdleSound
    <3> QED
      BY <1>0, <3>2, IdleTask, Zenon
  <2>2. ~Owns(a) /\ ~Owns(a)'
    BY <1>0, <1>4, <2>1, Zenon DEF Owns, Moves
  <2>3. QueueInv'
    BY <1>0, <1>i, <2>1, <2>2, QueueQuiet
  <2>4. WaitingHasStarter'
    BY <1>4, <1>e, StarterExcused
  <2> QED
    BY <1>0, <1>1, <1>2, <1>3, <1>e, <2>1, <2>3, <2>4, StartStep, Zenon
<1>5. CASE actor[a].item # 0
  <2>1. TaskInv' /\ Moves(a, "await", "take")
    <3>1. PICK r : r = Begin("take")
      OBVIOUS
    <3>2. actor' = [actor EXCEPT ![a] = r]
      BY <1>5, <3>1, Zenon DEF StartFailed, Begin
    <3>3. r \in Task /\ Sound(r) /\ r.pc = "take"
      <4>1. "take" \in Pc
        BY Zenon DEF Pc
      <4> QED
        BY <3>1, <4>1, BeginTask, Zenon DEF Sound
    <3>4. TaskInv' /\ Moves(a, actor[a].pc, r.pc)
      BY <1>i, <3>2, <3>3, TaskStep
    <3> QED
      BY <1>0, <3>3, <3>4, Zenon
  <2>2. Owns(a) /\ Held(a)' = Held(a) /\ WillStart(a)'
    BY <1>0, <1>5, <2>1, Zenon DEF Owns, Held, WillStart, Moves
  <2>3. QueueInv'
    BY <1>0, <1>i, <2>1, <2>2, QueueSameHeld
  <2>4. WaitingHasStarter'
    BY <2>2, StarterThere
  <2> QED
    BY <1>0, <1>1, <1>2, <1>3, <1>e, <2>1, <2>3, <2>4, StartStep, Zenon
<1> QED
  BY <1>4, <1>5

\* The binding is dropped, and the queue with it.
LEMMA UnbindStep ==
    ASSUME IInv, TaskInv', QueueInv', TimerInv', bound' = FALSE, Forsake, announced' = 0,
           current' \in 0..MaxTurns, starting' \in BOOLEAN, starting' => starting /\ ~bound,
           queue' = <<>> \/ (~bound /\ queue' = queue),
           UNCHANGED <<excused, client_turn, messages, restarts, start_ops, notices, told,
                       server, channel, token>>,
           NEW a \in Actors, NEW p, NEW q, Moves(a, p, q), q \notin {"mark", "requeue"}
    PROVE  IInv'
<1>0. /\ excused' = excused /\ client_turn' = client_turn /\ messages' = messages
      /\ restarts' = restarts /\ start_ops' = start_ops /\ notices' = notices /\ told' = told
      /\ UNCHANGED <<server, channel, token>>
  OBVIOUS
<1>1. MiscOK'
  <2>1. forsaken' \in BOOLEAN
    BY Zenon DEF Forsake
  <2> QED
    BY <1>0, <2>1, Numbers, Zenon DEF IInv, MiscOK
<1>2. ServerInv'
  BY <1>0, ServerSame DEF IInv
<1>3. ReservationInv'
  BY ReservationLoses, Zenon DEF IInv
<1>4. StarterInv'
  BY <1>0, StarterLoses, Zenon DEF IInv
<1> QED
  BY <1>0, <1>1, <1>2, <1>3, <1>4, Zenon DEF IInv

\* What the queue holds is given up.
LEMMA GivenUp ==
    ASSUME QueueInv, dropped' = dropped \cup {queue[i] : i \in DOMAIN queue}
    PROVE  /\ \A i \in DOMAIN queue : queue[i] \in dropped'
           /\ dropped \subseteq dropped' /\ dropped' \subseteq 1..MaxItems
<1>1. \A i \in DOMAIN queue : queue[i] \in 1..MaxItems
  BY SMT DEF QueueInv
<1> QED
  BY <1>1, Zenon DEF QueueInv

LEMMA StartStaleKeeps == ASSUME IInv, NEW a \in Actors, StartStale(a) PROVE IInv'
<1>0. /\ actor[a].pc = "await" /\ actor' = [actor EXCEPT ![a] = NoThread(a)]
      /\ UnbindRoutes /\ bound' = FALSE /\ Forsake /\ announced' = 0
      /\ token' = token /\ orphans' = orphans /\ start_ops' = start_ops
      /\ items' = items /\ submitted' = submitted
      /\ UNCHANGED <<excused, client_turn, messages, restarts, start_ops, notices, told,
                     server, channel, token>>
  BY Zenon DEF StartStale, UnbindRoutes
<1>i. MiscOK /\ TaskInv /\ QueueInv /\ StarterInv
  BY DEF IInv
<1>1. \/ /\ current' = 0 /\ starting' = FALSE /\ latch' = NoLatch /\ queue' = <<>>
         /\ dropped' = dropped \cup {queue[i] : i \in DOMAIN queue}
      \/ /\ ~bound /\ current' = current /\ starting' = starting /\ latch' = latch
         /\ queue' = queue /\ dropped' = dropped
  BY <1>0, Zenon DEF UnbindRoutes
<1>2. PICK q \in {"idle", "clear"} : /\ TaskInv' /\ Held(a)' = {} /\ (Owns(a)' => Owns(a))
                                     /\ Moves(a, "await", q)
  BY <1>0, <1>i, NoThreadTask, Zenon
<1>3. Held(a) = {}
  BY <1>0, Zenon DEF Held
<1>4. QueueInv'
  <2>1. OthersKeepLock(a) /\ (Owns(a)' => start_ops' = a)
    BY <1>0, <1>2, <1>i, Zenon DEF OthersKeepLock, QueueInv, OpsHeld
  <2>2. /\ queue' = queue \/ (queue' = <<>> /\ \A i \in DOMAIN queue : queue[i] \in dropped')
        /\ dropped \subseteq dropped' /\ dropped' \subseteq 1..MaxItems
    <3>1. CASE queue' = <<>> /\ dropped' = dropped \cup {queue[i] : i \in DOMAIN queue}
      BY <1>i, <3>1, GivenUp
    <3>2. CASE queue' = queue /\ dropped' = dropped
      BY <1>i, <3>2, Zenon DEF QueueInv
    <3> QED
      BY <1>1, <3>1, <3>2
  <2> QED
    BY <1>0, <1>2, <1>3, <1>i, <2>1, <2>2, QueueKeeps, Zenon
<1>5. TimerInv'
  <2>1. latch' = latch \/ latch' = NoLatch
    BY <1>1
  <2>2. orphans' \subseteq orphans
    BY <1>0
  <2> QED
    BY <1>0, <1>2, <2>1, <2>2, TimerKeeps, Zenon DEF IInv, ServerInv
<1>6. /\ current' \in 0..MaxTurns /\ starting' \in BOOLEAN /\ (starting' => starting /\ ~bound)
      /\ queue' = <<>> \/ (~bound /\ queue' = queue)
  <2>1. CASE current' = 0 /\ starting' = FALSE /\ queue' = <<>>
    BY <2>1, Numbers, Zenon
  <2>2. CASE ~bound /\ current' = current /\ starting' = starting /\ queue' = queue
    BY <1>i, <2>2, Zenon DEF MiscOK
  <2> QED
    BY <1>1, <2>1, <2>2
<1>7. q \notin {"mark", "requeue"}
  OBVIOUS
<1> QED
  BY <1>0, <1>2, <1>4, <1>5, <1>6, <1>7, UnbindStep

\* turn/start is accepted.
LEMMA AcceptKeeps == ASSUME IInv, NEW a \in Actors, Accept(a) PROVE IInv'
<1>0. /\ actor[a].pc = "await" /\ actor' = [actor EXCEPT ![a] = Answered(actor[a], server.turn + 1)]
      /\ ~server.running /\ server.owes = {} /\ server.turn < MaxTurns /\ server' = NewTurn
      /\ channel' = channel /\ token' = token /\ orphans' \subseteq orphans
      /\ client_turn' = client_turn /\ current' = current /\ starting' = starting
      /\ bound' = bound /\ notices' = notices /\ told' = told /\ announced' = announced
      /\ excused' = excused /\ messages' = messages /\ restarts' = restarts
      /\ forsaken' = forsaken /\ latch' = latch
      /\ queue' = queue /\ items' = items /\ submitted' = submitted
      /\ dropped' = dropped /\ start_ops' = start_ops
  BY Zenon DEF Accept, Answered, runtimeVars, queueHistory, boundVars
<1>i. MiscOK /\ TaskInv /\ QueueInv /\ StarterInv /\ ServerInv
  BY DEF IInv
<1>a. actor[a] \in Task
  BY <1>i, Zenon DEF TaskInv
<1>1. ServerInv' /\ server.turn + 1 \in Turns /\ server.turn + 1 \in 0..MaxTurns
  BY <1>0, <1>i, ServerStarts, Numbers
<1>2. TaskInv' /\ Moves(a, "await", "await") /\ actor'[a].item = actor[a].item
  <2>1. PICK t \in 0..MaxTurns : t = server.turn + 1
    BY <1>1
  <2>2. PICK r : r = Answered(actor[a], t)
    OBVIOUS
  <2>3. r \in Task /\ r.pc = "await" /\ r.item = actor[a].item
    BY <1>0, <1>a, <2>2, AnsweredTask, Zenon
  <2>4. Sound(r)
    BY <2>3, Zenon DEF Sound
  <2>5. TaskInv' /\ actor'[a] = r /\ Moves(a, actor[a].pc, r.pc)
    BY <1>0, <1>i, <2>1, <2>2, <2>3, <2>4, TaskStep
  <2> QED
    BY <1>0, <2>3, <2>5, Zenon
<1>3. Held(a)' = Held(a) /\ (Owns(a)' => Owns(a)) /\ ~WillStart(a)
  BY <1>0, <1>2, Zenon DEF Held, Owns, Moves, WillStart
<1>4. QueueInv'
  BY <1>0, <1>2, <1>3, <1>i, QueueSameHeld
<1>5. Plain
  <2>1. client_turn' \in 0..MaxTurns
    BY <1>0, <1>i, Zenon DEF MiscOK
  <2> QED
    BY <1>0, <2>1, Unmoved
<1>6. TurnGoesOn /\ LatchGoesOn /\ (TurnInProgress => TurnInProgress')
  BY <1>0, <1>i, TurnStays DEF LatchGoesOn
<1>7. TimerInv'
  BY <1>0, <1>2, TimerKeeps, Zenon DEF IInv, ServerInv
<1>8. (queue' # <<>> => Waiting) /\ start_ops' \in Actors \cup {Nobody}
  BY <1>0, <1>i, Zenon DEF Waiting, MiscOK
<1>9. Waiting' => Waiting
  BY <1>2, <1>8, WaitingStep, Zenon
<1>10. WaitingHasStarter'
  BY <1>0, <1>2, <1>3, <1>6, <1>9, <1>i, StarterKeeps, Zenon DEF StarterInv
<1> QED
  BY <1>1, <1>2, <1>4, <1>5, <1>6, <1>7, <1>8, <1>10, Assemble, Zenon

-----------------------------------------------------------------------------
(* The inbound worker *)

LEMMA InterruptServer ==
    ASSUME ServerInv, channel' = channel, token' = token, NEW t, NEW succeeds \in BOOLEAN,
           Interrupt(t, succeeds)
    PROVE  ServerInv'
<1>1. CASE server' = server
  BY <1>1, ServerSame
<1>2. CASE /\ server.running
           /\ \E failed \in BOOLEAN : \E s \in Farewells(failed) : server' = Ended(failed, s)
  <2>1. PICK failed \in BOOLEAN : \E s \in Farewells(failed) : server' = Ended(failed, s)
    BY <1>2
  <2> QED
    BY <1>2, <2>1, ServerEnds
<1> QED
  BY <1>1, <1>2, Zenon DEF Interrupt, Ended

\* What the worker leaves alone
WorkerFrame ==
    /\ bound' = bound /\ forsaken' = forsaken /\ restarts' = restarts
    /\ told' = told /\ channel' = channel /\ token' = token /\ orphans' \subseteq orphans
    /\ UNCHANGED <<queue, queueHistory, start_ops>>

\* A step of the worker between messages, or about a turn
LEMMA WorkerStepKeeps ==
    ASSUME IInv, WorkerFrame, ServerInv', TurnGoesOn, LatchGoesOn,
           excused' \in BOOLEAN, excused => excused',
           client_turn' \in 0..MaxTurns, announced' \in 0..MaxTurns,
           messages' \in 0..MaxMessages, notices' \in Seq(Notice),
           actor[Worker].pc \in {"idle", "stop", "finish", "exit", "leave"},
           NEW r \in Task, Sound(r), actor' = [actor EXCEPT ![Worker] = r],
           r.pc \notin {"take", "requeue", "clear", "mark", "await"},
           r.pc = "route" => r.item = 0,
           \/ r.pc \in {"lock", "unbind", "finish"} \/ excused'
           \/ actor[Worker].pc # "finish" /\ (TurnInProgress => TurnInProgress')
    PROVE  IInv'
<1>1. Plain
  BY Zenon DEF Plain, WorkerFrame, IInv
<1>2. ~Owns(Worker) /\ (actor[Worker].pc # "finish" => ~WillStart(Worker))
      /\ actor[Worker].pc # "await"
  BY Zenon DEF Owns, WillStart
<1> QED
  BY <1>1, <1>2, QuietStep, ActorNumbers, Zenon DEF WorkerFrame

\* Where a message leaves the worker
LEMMA WorkerAtTask ==
    ASSUME NEW p \in Pc, NEW t \in 0..MaxTurns, NEW o \in BOOLEAN, WorkerAt(p, t, o),
           p \notin {"asleep", "finish", "notice", "stop", "exit", "leave"} \/ t # 0,
           p # "requeue"
    PROVE  \E r \in Task : /\ r.pc = p /\ r.item = 0 /\ Sound(r)
                           /\ actor' = [actor EXCEPT ![Worker] = r]
<1>1. PICK r : r = Working(p, t, o)
  OBVIOUS
<1>2. actor' = [actor EXCEPT ![Worker] = r]
  BY <1>1, Zenon DEF WorkerAt, Working
<1>3. r \in Task /\ r.pc = p /\ r.turn = t /\ r.item = 0
  <2>1. /\ Working(p, t, o) \in Task /\ Working(p, t, o).pc = p
        /\ Working(p, t, o).turn = t /\ Working(p, t, o).item = 0
    BY WorkingTask
  <2> QED
    BY <1>1, <2>1, Zenon
<1>4. Sound(r)
  BY <1>3, Zenon DEF Sound
<1> QED
  BY <1>2, <1>3, <1>4

LEMMA MessageCounts ==
    ASSUME MiscOK, Message PROVE messages' \in 0..MaxMessages /\ actor[Worker].pc = "idle"
BY SMT DEF MiscOK, Message

LEMMA TextKeeps == ASSUME IInv, Text PROVE IInv'
<1>0. /\ Message /\ WorkerAt("route", 0, FALSE) /\ WorkerFrame /\ server' = server
      /\ current' = current /\ starting' = starting /\ latch' = latch /\ notices' = notices
      /\ excused' = excused /\ client_turn' = client_turn /\ announced' = announced
  BY Zenon DEF Text, WorkerFrame, runtimeVars
<1>i. MiscOK /\ notices \in Seq(Notice)
  BY DEF IInv
<1>1. ServerInv' /\ TurnGoesOn /\ LatchGoesOn /\ (TurnInProgress => TurnInProgress')
  BY <1>0, <1>i, ServerSame, TurnStays DEF IInv, LatchGoesOn, WorkerFrame
<1>2. messages' \in 0..MaxMessages /\ actor[Worker].pc = "idle"
  BY <1>0, <1>i, MessageCounts
<1>3. PICK r \in Task : /\ r.pc = "route" /\ r.item = 0 /\ Sound(r)
                        /\ actor' = [actor EXCEPT ![Worker] = r]
  <2>1. "route" \in Pc /\ FALSE \in BOOLEAN
    BY Zenon DEF Pc
  <2> QED
    BY <1>0, <2>1, WorkerAtTask, Numbers
<1>4. /\ excused' \in BOOLEAN /\ (excused => excused') /\ client_turn' \in 0..MaxTurns
      /\ announced' \in 0..MaxTurns /\ notices' \in Seq(Notice)
  BY <1>0, <1>i, Zenon DEF MiscOK
<1> QED
  BY <1>0, <1>1, <1>2, <1>3, <1>4, WorkerStepKeeps, Zenon

LEMMA StopKeeps == ASSUME IInv, Stop PROVE IInv'
<1>0. /\ Message /\ WorkerFrame /\ server' = server /\ current # 0
      /\ WorkerAt("stop", current, MayClaimNotice(current, TRUE))
      /\ notices' = NoticesAfterClaim(current, TRUE)
      /\ current' = current /\ starting' = starting /\ latch' = latch
      /\ excused' = excused /\ client_turn' = client_turn /\ announced' = announced
  BY Zenon DEF Stop, HasActiveTurn, WorkerFrame
<1>i. MiscOK /\ notices \in Seq(Notice)
  BY DEF IInv
<1>t. current \in Turns /\ current \in 0..MaxTurns
  BY <1>0, <1>i, Numbers DEF MiscOK
<1>1. ServerInv' /\ TurnGoesOn /\ LatchGoesOn /\ (TurnInProgress => TurnInProgress')
  BY <1>0, <1>i, ServerSame, TurnStays DEF IInv, LatchGoesOn, WorkerFrame
<1>2. messages' \in 0..MaxMessages /\ actor[Worker].pc = "idle"
  BY <1>0, <1>i, MessageCounts
<1>3. PICK r \in Task : /\ r.pc = "stop" /\ r.item = 0 /\ Sound(r)
                        /\ actor' = [actor EXCEPT ![Worker] = r]
  <2>1. "stop" \in Pc /\ MayClaimNotice(current, TRUE) \in BOOLEAN
    BY Zenon DEF Pc, MayClaimNotice
  <2>2. PICK o \in BOOLEAN : WorkerAt("stop", current, o)
    BY <1>0, <2>1, Zenon
  <2> QED
    BY <1>0, <1>t, <2>1, <2>2, WorkerAtTask
<1>4. /\ excused' \in BOOLEAN /\ (excused => excused') /\ client_turn' \in 0..MaxTurns
      /\ announced' \in 0..MaxTurns
  BY <1>0, <1>i, Zenon DEF MiscOK
<1>5. notices' \in Seq(Notice)
  BY <1>0, <1>i, <1>t, NoticesAfterClaimType
<1> QED
  BY <1>0, <1>1, <1>2, <1>3, <1>4, <1>5, WorkerStepKeeps, Zenon

LEMMA ExitKeeps == ASSUME IInv, Exit PROVE IInv'
<1>0. /\ Message /\ WorkerFrame /\ server' = server
      /\ current' = current /\ starting' = starting /\ latch' = latch
      /\ excused' = excused /\ client_turn' = client_turn /\ announced' = announced
  BY Zenon DEF Exit, WorkerFrame
<1>c. \/ /\ current # 0 /\ WorkerAt("exit", current, FALSE)
         /\ notices' = NoticesAfterClaim(current, TRUE)
      \/ WorkerAt("unbind", 0, FALSE) /\ notices' = notices
  BY Zenon DEF Exit, HasActiveTurn
<1>i. MiscOK /\ notices \in Seq(Notice)
  BY DEF IInv
<1>1. ServerInv' /\ TurnGoesOn /\ LatchGoesOn /\ (TurnInProgress => TurnInProgress')
  BY <1>0, <1>i, ServerSame, TurnStays DEF IInv, LatchGoesOn, WorkerFrame
<1>2. messages' \in 0..MaxMessages /\ actor[Worker].pc = "idle"
  BY <1>0, <1>i, MessageCounts
<1>3. /\ \E r \in Task : /\ r.pc \in {"exit", "unbind"} /\ Sound(r)
                         /\ actor' = [actor EXCEPT ![Worker] = r]
      /\ notices' \in Seq(Notice)
  <2>1. "exit" \in Pc /\ "unbind" \in Pc /\ FALSE \in BOOLEAN /\ 0 \in 0..MaxTurns
    BY Numbers, Zenon DEF Pc
  <2>2. CASE /\ current # 0 /\ WorkerAt("exit", current, FALSE)
             /\ notices' = NoticesAfterClaim(current, TRUE)
    <3>1. current \in Turns /\ current \in 0..MaxTurns
      BY <1>i, <2>2, Numbers DEF MiscOK
    <3>2. notices' \in Seq(Notice)
      BY <1>i, <2>2, <3>1, NoticesAfterClaimType
    <3>3. PICK r \in Task : /\ r.pc = "exit" /\ r.item = 0 /\ Sound(r)
                            /\ actor' = [actor EXCEPT ![Worker] = r]
      BY <2>1, <2>2, <3>1, WorkerAtTask
    <3> QED
      BY <3>2, <3>3
  <2>3. CASE WorkerAt("unbind", 0, FALSE) /\ notices' = notices
    <3>1. PICK r \in Task : /\ r.pc = "unbind" /\ r.item = 0 /\ Sound(r)
                            /\ actor' = [actor EXCEPT ![Worker] = r]
      BY <2>1, <2>3, WorkerAtTask
    <3> QED
      BY <1>i, <2>3, <3>1
  <2> QED
    BY <1>c, <2>2, <2>3
<1>r. PICK r \in Task : /\ r.pc \in {"exit", "unbind"} /\ Sound(r)
                        /\ actor' = [actor EXCEPT ![Worker] = r]
  BY <1>3
<1>4. /\ excused' \in BOOLEAN /\ (excused => excused') /\ client_turn' \in 0..MaxTurns
      /\ announced' \in 0..MaxTurns
  BY <1>0, <1>i, Zenon DEF MiscOK
<1> QED
  BY <1>0, <1>1, <1>2, <1>3, <1>4, <1>r, WorkerStepKeeps, Zenon

LEMMA StopFailsKeeps == ASSUME IInv, StopFails PROVE IInv'
<1>0. /\ actor[Worker].pc = "stop" /\ actor' = [actor EXCEPT ![Worker] = Idle]
      /\ WorkerFrame /\ server' = server
      /\ ReleaseNotice(actor[Worker].turn) \/ notices' = notices
      /\ current' = current /\ starting' = starting /\ latch' = latch
      /\ excused' = excused /\ client_turn' = client_turn /\ announced' = announced
      /\ messages' = messages
  BY Zenon DEF StopFails, Interrupt, WorkerFrame, boundVars
<1>i. MiscOK /\ notices \in Seq(Notice)
  BY DEF IInv
<1>1. ServerInv' /\ TurnGoesOn /\ LatchGoesOn /\ (TurnInProgress => TurnInProgress')
  BY <1>0, <1>i, ServerSame, TurnStays DEF IInv, LatchGoesOn, WorkerFrame
<1>2. notices' \in Seq(Notice)
  BY <1>0, <1>i, ReleaseType
<1>3. Idle \in Task /\ Sound(Idle) /\ Idle.pc = "idle"
  BY IdleTask, IdleSound
<1>4. /\ excused' \in BOOLEAN /\ (excused => excused') /\ client_turn' \in 0..MaxTurns
      /\ announced' \in 0..MaxTurns /\ messages' \in 0..MaxMessages
  BY <1>0, <1>i, Zenon DEF MiscOK
<1> QED
  BY <1>0, <1>1, <1>2, <1>3, <1>4, WorkerStepKeeps, Zenon

LEMMA StopInterruptsKeeps == ASSUME IInv, StopInterrupts PROVE IInv'
<1>0. /\ actor[Worker].pc = "stop" /\ actor' = [actor EXCEPT ![Worker] = At(actor[Worker], "finish")]
      /\ WorkerFrame /\ Interrupt(actor[Worker].turn, TRUE)
      /\ client_turn' \in {0, client_turn}
      /\ current' = current /\ starting' = starting /\ latch' = latch /\ notices' = notices
      /\ excused' = excused /\ announced' = announced /\ messages' = messages
  BY Zenon DEF StopInterrupts, At, WorkerFrame, runtimeVars, boundVars
<1>i. MiscOK /\ notices \in Seq(Notice) /\ TaskInv /\ ServerInv
  BY DEF IInv
<1>1. ServerInv' /\ TurnGoesOn /\ LatchGoesOn /\ (TurnInProgress => TurnInProgress')
  <2>1. channel' = channel /\ token' = token /\ TRUE \in BOOLEAN
    BY <1>0 DEF WorkerFrame
  <2> QED
    BY <1>0, <1>i, <2>1, InterruptServer, TurnStays DEF LatchGoesOn
<1>2. PICK r : r = At(actor[Worker], "finish")
  OBVIOUS
<1>3. r \in Task /\ Sound(r) /\ r.pc = "finish"
  <2>1. "finish" \in Pc /\ actor[Worker].turn # 0 /\ actor[Worker] \in Task
    BY <1>0, <1>i, ActorNumbers, HasTurn, Zenon DEF Pc, TaskInv
  <2> QED
    BY <1>2, <2>1, AtTask, Zenon DEF Sound
<1>4. /\ excused' \in BOOLEAN /\ (excused => excused') /\ client_turn' \in 0..MaxTurns
      /\ announced' \in 0..MaxTurns /\ messages' \in 0..MaxMessages /\ notices' \in Seq(Notice)
  BY <1>0, <1>i, Numbers, Zenon DEF MiscOK
<1>5. actor' = [actor EXCEPT ![Worker] = r]
  BY <1>0, <1>2
<1> QED
  BY <1>0, <1>1, <1>3, <1>4, <1>5, WorkerStepKeeps, Zenon

LEMMA StopFinishKeeps == ASSUME IInv, StopFinish PROVE IInv'
<1>0. /\ actor[Worker].pc = "finish" /\ WorkerFrame /\ server' = server
      /\ MarkTurnCompleted(actor[Worker].turn)
      /\ notices' = notices /\ client_turn' = client_turn /\ announced' = announced
      /\ messages' = messages
  BY Zenon DEF StopFinish, WorkerFrame, boundVars
<1>i. MiscOK /\ notices \in Seq(Notice) /\ TaskInv
  BY DEF IInv
<1>a. actor[Worker] \in Task
  BY <1>i, ActorNumbers, Zenon DEF TaskInv
<1>1. ServerInv' /\ TurnGoesOn /\ LatchGoesOn
  BY <1>0, <1>i, ServerSame, MarkCompleted DEF IInv, WorkerFrame
<1>2. /\ client_turn' \in 0..MaxTurns /\ announced' \in 0..MaxTurns
      /\ messages' \in 0..MaxMessages /\ notices' \in Seq(Notice)
  BY <1>0, <1>i, Zenon DEF MiscOK
<1>3. CASE actor' = [actor EXCEPT ![Worker] = At(actor[Worker], "lock")] /\ excused' = excused
  <2>1. PICK r : r = At(actor[Worker], "lock")
    OBVIOUS
  <2>2. r \in Task /\ Sound(r) /\ r.pc = "lock" /\ actor' = [actor EXCEPT ![Worker] = r]
    <3>1. "lock" \in Pc
      BY Zenon DEF Pc
    <3> QED
      BY <1>3, <1>a, <2>1, <3>1, AtTask, Zenon DEF Sound
  <2>3. excused' \in BOOLEAN /\ (excused => excused')
    BY <1>3, <1>i, Zenon DEF MiscOK
  <2> QED
    BY <1>0, <1>1, <1>2, <2>2, <2>3, WorkerStepKeeps, Zenon
<1>4. CASE actor' = [actor EXCEPT ![Worker] = Idle] /\ excused' = TRUE
  <2>1. Idle \in Task /\ Sound(Idle) /\ Idle.pc = "idle"
    BY IdleTask, IdleSound
  <2> QED
    BY <1>0, <1>1, <1>2, <1>4, <2>1, WorkerStepKeeps, Zenon
<1> QED
  BY <1>3, <1>4, Zenon DEF StopFinish, At

LEMMA ExitInterruptsKeeps == ASSUME IInv, ExitInterrupts PROVE IInv'
<1>0. /\ actor[Worker].pc = "exit" /\ actor' = [actor EXCEPT ![Worker] = At(actor[Worker], "leave")]
      /\ WorkerFrame /\ \E succeeds \in BOOLEAN : Interrupt(actor[Worker].turn, succeeds)
      /\ client_turn' = 0
      /\ current' = current /\ starting' = starting /\ latch' = latch /\ notices' = notices
      /\ excused' = excused /\ announced' = announced /\ messages' = messages
  BY Zenon DEF ExitInterrupts, At, WorkerFrame, runtimeVars, boundVars
<1>i. MiscOK /\ notices \in Seq(Notice) /\ TaskInv /\ ServerInv
  BY DEF IInv
<1>1. ServerInv' /\ TurnGoesOn /\ LatchGoesOn /\ (TurnInProgress => TurnInProgress')
  <2>1. channel' = channel /\ token' = token
    BY <1>0 DEF WorkerFrame
  <2> QED
    BY <1>0, <1>i, <2>1, InterruptServer, TurnStays DEF LatchGoesOn
<1>2. PICK r : r = At(actor[Worker], "leave")
  OBVIOUS
<1>3. r \in Task /\ Sound(r) /\ r.pc = "leave"
  <2>1. "leave" \in Pc /\ actor[Worker].turn # 0 /\ actor[Worker] \in Task
    BY <1>0, <1>i, ActorNumbers, HasTurn, Zenon DEF Pc, TaskInv
  <2> QED
    BY <1>2, <2>1, AtTask, Zenon DEF Sound
<1>4. /\ excused' \in BOOLEAN /\ (excused => excused') /\ client_turn' \in 0..MaxTurns
      /\ announced' \in 0..MaxTurns /\ messages' \in 0..MaxMessages /\ notices' \in Seq(Notice)
  BY <1>0, <1>i, Numbers, Zenon DEF MiscOK
<1>5. actor' = [actor EXCEPT ![Worker] = r]
  BY <1>0, <1>2
<1> QED
  BY <1>0, <1>1, <1>3, <1>4, <1>5, WorkerStepKeeps, Zenon

LEMMA ExitFinishKeeps == ASSUME IInv, ExitFinish PROVE IInv'
<1>0. /\ actor[Worker].pc = "leave" /\ actor' = [actor EXCEPT ![Worker] = Begin("unbind")]
      /\ WorkerFrame /\ server' = server /\ MarkTurnCompleted(actor[Worker].turn)
      /\ announced' = 0 /\ notices' = notices /\ client_turn' = client_turn
      /\ excused' = excused /\ messages' = messages
  BY Zenon DEF ExitFinish, Begin, WorkerFrame, boundVars
<1>i. MiscOK /\ notices \in Seq(Notice) /\ TaskInv
  BY DEF IInv
<1>1. ServerInv' /\ TurnGoesOn /\ LatchGoesOn
  BY <1>0, <1>i, ServerSame, MarkCompleted DEF IInv, WorkerFrame
<1>2. PICK r : r = Begin("unbind")
  OBVIOUS
<1>3. r \in Task /\ Sound(r) /\ r.pc = "unbind"
  <2>1. "unbind" \in Pc
    BY Zenon DEF Pc
  <2> QED
    BY <1>2, <2>1, BeginTask, Zenon DEF Sound
<1>4. /\ excused' \in BOOLEAN /\ (excused => excused') /\ client_turn' \in 0..MaxTurns
      /\ announced' \in 0..MaxTurns /\ messages' \in 0..MaxMessages /\ notices' \in Seq(Notice)
  BY <1>0, <1>i, Numbers, Zenon DEF MiscOK
<1>5. actor' = [actor EXCEPT ![Worker] = r]
  BY <1>0, <1>2
<1> QED
  BY <1>0, <1>1, <1>3, <1>4, <1>5, WorkerStepKeeps, Zenon

LEMMA ExitUnbindKeeps == ASSUME IInv, ExitUnbind PROVE IInv'
<1>0. /\ actor[Worker].pc = "unbind" /\ actor' = [actor EXCEPT ![Worker] = Idle]
      /\ bound' = FALSE /\ Forsake /\ announced' = 0 /\ queue' = <<>>
      /\ dropped' = dropped \cup {queue[i] : i \in DOMAIN queue}
      /\ token' = token /\ orphans' = orphans /\ start_ops' = start_ops
      /\ items' = items /\ submitted' = submitted
      /\ UNCHANGED <<excused, client_turn, messages, restarts, start_ops, notices, told,
                     server, channel, token>>
  BY Zenon DEF ExitUnbind
<1>i. MiscOK /\ TaskInv /\ QueueInv
  BY DEF IInv
<1>1. \/ current' = 0 /\ starting' = FALSE /\ latch' = NoLatch
      \/ ~bound /\ current' = current /\ starting' = starting /\ latch' = latch
  BY Zenon DEF ExitUnbind
<1>2. Worker \in Actors /\ TaskInv' /\ Moves(Worker, "unbind", "idle")
  <2>1. TaskInv' /\ Moves(Worker, actor[Worker].pc, Idle.pc)
    BY <1>0, <1>i, TaskStep, IdleTask, IdleSound, ActorNumbers
  <2> QED
    BY <1>0, <2>1, IdleTask, ActorNumbers, Zenon
<1>3. QueueInv'
  <2>1. Held(Worker) = {} /\ Held(Worker)' = {} /\ ~Owns(Worker)' /\ OthersKeepLock(Worker)
    BY <1>0, <1>2, Zenon DEF Held, Owns, Moves, OthersKeepLock
  <2>2. /\ \A i \in DOMAIN queue : queue[i] \in dropped'
        /\ dropped \subseteq dropped' /\ dropped' \subseteq 1..MaxItems
    BY <1>0, <1>i, GivenUp
  <2> QED
    BY <1>0, <1>2, <1>i, <2>1, <2>2, QueueKeeps, Zenon
<1>4. TimerInv'
  <2>1. latch' = latch \/ latch' = NoLatch
    BY <1>1
  <2>2. orphans' \subseteq orphans
    BY <1>0
  <2> QED
    BY <1>0, <1>2, <2>1, <2>2, TimerKeeps, Zenon DEF IInv, ServerInv
<1>5. current' \in 0..MaxTurns /\ starting' \in BOOLEAN /\ (starting' => starting /\ ~bound)
  <2>1. CASE current' = 0 /\ starting' = FALSE
    BY <2>1, Numbers, Zenon
  <2>2. CASE ~bound /\ current' = current /\ starting' = starting
    BY <1>i, <2>2, Zenon DEF MiscOK
  <2> QED
    BY <1>1, <2>1, <2>2
<1> QED
  BY <1>0, <1>2, <1>3, <1>4, <1>5, UnbindStep

LEMMA EnqueueKeeps == ASSUME IInv, Enqueue PROVE IInv'
<1>0. /\ bound /\ TurnInProgress /\ server' = server /\ channel' = channel /\ token' = token
      /\ orphans' \subseteq orphans /\ actor' = actor /\ start_ops' = start_ops
      /\ current' = current /\ starting' = starting /\ latch' = latch
      /\ bound' = bound /\ notices' = notices /\ told' = told /\ announced' = announced
      /\ client_turn' = client_turn /\ excused' = excused /\ messages' = messages
      /\ restarts' = restarts /\ forsaken' = forsaken
  BY Zenon DEF Enqueue, boundVars
<1>i. MiscOK /\ TaskInv /\ QueueInv /\ StarterInv
  BY DEF IInv
<1>1. Plain
  <2>1. client_turn' \in 0..MaxTurns
    BY <1>0, <1>i, Zenon DEF MiscOK
  <2> QED
    BY <1>0, <2>1, Unmoved
<1>2. TurnGoesOn /\ LatchGoesOn /\ TurnInProgress'
  BY <1>0, <1>i, TurnStays DEF LatchGoesOn
<1>3. ServerInv' /\ TimerInv'
  BY <1>0, <1>2, ServerSame, TimerQuiet DEF IInv
<1>4. QueueInv'
  BY <1>i, QueueEnqueue
<1>5. WaitingHasStarter'
  BY <1>2, StarterExcused
<1>6. PICK p : p = actor[Router].pc
  OBVIOUS
<1>7. Router \in Actors /\ Moves(Router, p, p) /\ TaskInv'
  BY <1>0, <1>6, <1>i, NoTaskStep, ActorNumbers
<1>8. start_ops' \in Actors \cup {Nobody}
  BY <1>0, <1>i, Zenon DEF MiscOK
<1> QED
  BY <1>0, <1>1, <1>2, <1>3, <1>4, <1>5, <1>7, <1>8, Assemble, Zenon

LEMMA BindKeeps == ASSUME IInv, Bind PROVE IInv'
<1>0. /\ bound' = TRUE /\ server' = server /\ channel' = channel /\ token' = token
      /\ orphans' \subseteq orphans /\ actor' = actor
      /\ current' = current /\ starting' = starting /\ latch' = latch
      /\ notices' = notices /\ told' = told /\ announced' = announced
      /\ client_turn' = client_turn /\ excused' = excused /\ messages' = messages
      /\ restarts' = restarts /\ forsaken' = forsaken
      /\ start_ops' = start_ops /\ queue' = queue
      /\ UNCHANGED <<queue, queueHistory, start_ops, actor>>
      /\ UNCHANGED <<server, channel, token>>
  BY Zenon DEF Bind, boundVars
<1>i. MiscOK /\ TaskInv /\ QueueInv /\ StarterInv /\ ReservationInv
  BY DEF IInv
<1>1. MiscOK' /\ notices' \in Seq(Notice) /\ told' \in [Turns -> Nat]
  BY <1>0, Zenon DEF IInv, MiscOK
<1>2. ServerInv' /\ TimerInv' /\ QueueInv' /\ TaskInv'
  BY <1>0, <1>i, ServerSame, TimerQuiet, QueueSame, NoTaskStep DEF IInv, LatchGoesOn
<1>3. ReservationInv'
  BY <1>0, <1>i, Zenon DEF ReservationInv, UnboundIsFree, ReservationHasOwner
<1>4. UnboundIsEmpty'
  BY <1>0, Zenon DEF UnboundIsEmpty
<1>5. WaitingHasStarter'
  <2>1. (Waiting' <=> Waiting) /\ (TurnInProgress' <=> TurnInProgress)
    BY <1>0, Zenon DEF Waiting, TurnInProgress
  <2>2. \A a \in Actors : WillStart(a) => WillStart(a)'
    BY <1>0, WillStartSame, Zenon
  <2> QED
    BY <1>0, <1>i, <2>1, <2>2, Zenon DEF StarterInv, WaitingHasStarter
<1> QED
  BY <1>1, <1>2, <1>3, <1>4, <1>5 DEF IInv, StarterInv

-----------------------------------------------------------------------------
(* The invariant *)

LEMMA InitInv == Init => IInv
<1> SUFFICES ASSUME Init PROVE IInv
  OBVIOUS
<1>1. MiscOK
  <2>1. 0 \in 0..MaxMessages /\ 0 \in 0..MaxRestarts
    BY SMT
  <2> QED
    BY <2>1, Numbers, Zenon DEF Init, MiscOK
<1>2. ServerInv
  <2>1. /\ server.turn = 0 /\ server.running = FALSE /\ server.owes = {}
        /\ channel = <<>> /\ token = 0
    BY SMT DEF Init
  <2>2. server \in AppServer
    BY Numbers, Zenon DEF Init, AppServer
  <2>3. channel \in Seq(Notification)
    BY <2>1
  <2>4. Spent = 0
    <3>1. StatusIn(channel) = {}
      BY <2>1, SMT DEF StatusIn
    <3>2. Cardinality(StatusIn(channel)) = 0
      BY <3>1, FS_EmptySet
    <3>3. Owed(server) = 0
      BY <2>1, SMT DEF Owed
    <3> QED
      BY <2>1, <3>2, <3>3, SMT DEF Spent
  <2>5. Spent <= MaxTokens /\ Spent <= 2 * server.turn
    BY <2>1, <2>4, SMT
  <2>6. TokenBudget
    BY <2>1, <2>5, Zenon DEF TokenBudget
  <2> QED
    BY <2>1, <2>2, <2>3, <2>6, Numbers, Zenon DEF ServerInv
<1>3. TaskInv /\ \A a \in Actors : actor[a].pc = "idle"
  BY IdleTask, IdleSound, Zenon DEF Init, TaskInv
<1>4. TimerInv
  <2>1. NoLatch \in Latch
    BY Numbers, Zenon DEF NoLatch, Latch
  <2> QED
    BY <1>3, <2>1, ActorNumbers, Zenon DEF Init, TimerInv, TimersFresh
<1>5. QueueInv
  <2>1. /\ queue = <<>> /\ submitted = <<>> /\ items = 0 /\ dropped = {}
    BY Zenon DEF Init
  <2>2. \A a \in Actors : ~Owns(a) /\ Held(a) = {}
    BY <1>3, Zenon DEF Owns, Held
  <2>3. OpsHeld
    BY <2>2, Zenon DEF OpsHeld
  <2>4. DOMAIN queue = {} /\ DOMAIN submitted = {} /\ 1..items = {}
    BY <2>1, SMT
  <2>5. InQueueOrder /\ QueuedInOrder /\ \A n \in 1..items : Accounted(n)
    BY <2>2, <2>4, Zenon DEF InQueueOrder, QueuedInOrder
  <2>6. queue \in Seq(1..MaxItems) /\ submitted \in Seq(1..MaxItems)
    BY <2>1
  <2> QED
    BY <2>1, <2>3, <2>5, <2>6, Numbers, Zenon DEF QueueInv
<1>6. ReservationInv
  BY Zenon DEF Init, ReservationInv, UnboundIsFree, ReservationHasOwner
<1>7. StarterInv
  BY <1>3, Zenon DEF Init, StarterInv, UnboundIsEmpty, WaitingHasStarter, Waiting
<1>8. notices \in Seq(Notice) /\ told \in [Turns -> Nat]
  BY SMT DEF Init
<1> QED
  BY <1>1, <1>2, <1>3, <1>4, <1>5, <1>6, <1>7, <1>8 DEF IInv

LEMMA StarterActions == ASSUME IInv, NEW a \in Actors, Starter(a) PROVE IInv'
<1>1. CASE Lock(a)
  BY <1>1, LockKeeps
<1>2. CASE Take(a)
  BY <1>2, TakeKeeps
<1>3. CASE Route(a)
  BY <1>3, RouteKeeps
<1>4. CASE Mark(a)
  BY <1>4, MarkKeeps
<1>5. CASE Requeue(a)
  BY <1>5, RequeueKeeps
<1>6. CASE ClearQueue(a)
  BY <1>6, ClearQueueKeeps
<1>7. CASE Started(a)
  BY <1>7, StartedKeeps
<1>8. CASE StartFailed(a)
  BY <1>8, StartFailedKeeps
<1>9. CASE StartStale(a)
  BY <1>9, StartStaleKeeps
<1> QED
  BY <1>1, <1>2, <1>3, <1>4, <1>5, <1>6, <1>7, <1>8, <1>9, Zenon DEF Starter

LEMMA ActorActions == ASSUME IInv, NEW a \in Actors, Actor(a) PROVE IInv'
BY FinishTurnKeeps, TerminalNoticeKeeps, StarterActions, Zenon DEF Actor

LEMMA RouterActions == ASSUME IInv, RouterStep PROVE IInv'
BY HandleStartedKeeps, HandleTerminalKeeps, HandleStatusKeeps, ActorActions, ActorNumbers,
   Zenon DEF RouterStep

LEMMA WorkerActions == ASSUME IInv, WorkerStep PROVE IInv'
BY StopFailsKeeps, StopInterruptsKeeps, StopFinishKeeps, ExitInterruptsKeeps, ExitFinishKeeps,
   ExitUnbindKeeps, ActorActions, ActorNumbers, Zenon DEF WorkerStep

LEMMA TimerActions == ASSUME IInv, NEW k \in Tokens, TimerStep(k) PROVE IInv'
BY FireKeeps, ActorActions, ActorNumbers, Zenon DEF TimerStep

LEMMA ServerActions == ASSUME IInv, ServerSays PROVE IInv'
<1>1. CASE SayTerminal("error")
  BY <1>1, SayTerminalKeeps
<1>2. CASE SayTerminal("completed")
  BY <1>2, SayTerminalKeeps
<1> QED
  BY <1>1, <1>2, EndTurnKeeps, SayStartedKeeps, SayStatusKeeps, Zenon DEF ServerSays

LEMMA NextInv == IInv /\ [Next]_vars => IInv'
<1> SUFFICES ASSUME IInv, [Next]_vars PROVE IInv'
  OBVIOUS
<1>1. CASE RouterStep \/ WorkerStep \/ ServerSays
  BY <1>1, RouterActions, WorkerActions, ServerActions
<1>2. CASE \E k \in Tokens : TimerStep(k)
  BY <1>2, TimerActions
<1>3. CASE \E k \in Tokens, t \in Turns : OrphanCleanup(k, t)
  BY <1>3, OrphanCleanupKeeps
<1>4. CASE \E a \in Actors : Accept(a)
  BY <1>4, AcceptKeeps
<1>5. CASE Text \/ Enqueue \/ Stop \/ Exit \/ Bind
  BY <1>5, TextKeeps, EnqueueKeeps, StopKeeps, ExitKeeps, BindKeeps
<1>6. CASE DesktopTurn \/ Lagged \/ RestartBridge
  BY <1>6, DesktopTurnKeeps, LaggedKeeps, RestartKeeps
<1>7. CASE UNCHANGED vars
  <2>1. UNCHANGED <<bound, current, starting, queue, latch, token, notices, client_turn,
                    start_ops, actor, orphans, channel, server, queueHistory, told, announced,
                    excused, boundVars>>
    BY <1>7, Zenon DEF vars, runtimeVars
  <2>2. ServerInv' /\ client_turn' \in 0..MaxTurns /\ LatchGoesOn
    BY <2>1, ServerSame, Zenon DEF IInv, MiscOK, LatchGoesOn
  <2> QED
    BY <2>1, <2>2, ServerOnly
<1> QED
  BY <1>1, <1>2, <1>3, <1>4, <1>5, <1>6, <1>7, Zenon DEF Next

\* Every step of the router, the worker, the timers, the app-server and a restart
\* of the bridge preserves the inductive invariant.
THEOREM InvCorrect == Spec => []IInv
BY InitInv, NextInv, PTL DEF Spec

\* The time of a turn is set with its start and its end, and forgotten with the
\* binding of the thread.
Stamped == overtaken' = overtaken \/ overtaken' = FALSE \/ Stamp

LEMMA StarterStamps == ASSUME NEW a \in Actors, Actor(a) PROVE Stamped
<1>1. CASE FinishTurn(a) \/ TerminalNotice(a)
  BY <1>1, Zenon DEF FinishTurn, TerminalNotice, MarkTurnCompleted, Stamped
<1>2. CASE Lock(a) \/ Take(a) \/ Route(a) \/ Mark(a) \/ Requeue(a) \/ ClearQueue(a)
  BY <1>2, Zenon DEF Lock, Take, Route, Mark, Requeue, ClearQueue, runtimeVars, Stamped
<1>3. CASE Started(a) \/ StartFailed(a) \/ StartStale(a)
  BY <1>3, Zenon DEF Started, MarkTurnStarted, StartFailed, StartStale, UnbindRoutes, Stamped
<1> QED
  BY <1>1, <1>2, <1>3, Zenon DEF Actor, Starter

LEMMA NextStamps == ASSUME [Next]_vars PROVE Stamped
<1>1. CASE RouterStep
  <2>1. CASE Actor(Router)
    BY <2>1, StarterStamps, ActorNumbers
  <2>2. CASE HandleStarted \/ HandleTerminal \/ HandleStatus
    BY <2>2, Zenon DEF HandleStarted, MarkTurnStarted, HandleTerminal, MarkTurnCompleted, HandleStatus,
                       Stamped
  <2> QED
    BY <1>1, <2>1, <2>2, Zenon DEF RouterStep
<1>2. CASE WorkerStep
  <2>1. CASE Actor(Worker)
    BY <2>1, StarterStamps, ActorNumbers
  <2>2. CASE StopFails \/ StopInterrupts \/ StopFinish
    BY <2>2, Zenon DEF StopFails, StopInterrupts, StopFinish, MarkTurnCompleted, runtimeVars, Stamped
  <2>3. CASE ExitInterrupts \/ ExitFinish \/ ExitUnbind
    BY <2>3, Zenon DEF ExitInterrupts, ExitFinish, ExitUnbind, MarkTurnCompleted, runtimeVars, Stamped
  <2> QED
    BY <1>2, <2>1, <2>2, <2>3, Zenon DEF WorkerStep
<1>3. CASE ServerSays
  BY <1>3, Zenon DEF ServerSays, EndTurn, SayStarted, SayTerminal, SayStatus, runtimeVars, Stamped
<1>4. CASE \E k \in Tokens : TimerStep(k)
  BY <1>4, StarterStamps, ActorNumbers, Zenon DEF TimerStep, Fire, Stamped
<1>5. CASE \E k \in Tokens, t \in Turns : OrphanCleanup(k, t)
  BY <1>5, Zenon DEF OrphanCleanup, MarkTurnCompleted, Stamped
<1>6. CASE Text \/ Enqueue \/ Stop \/ Exit \/ Bind \/ \E a \in Actors : Accept(a)
  BY <1>6, Zenon DEF Text, Enqueue, Stop, Exit, Bind, Accept, runtimeVars, Stamped
<1>7. CASE DesktopTurn \/ Lagged \/ RestartBridge \/ UNCHANGED vars
  BY <1>7, Zenon DEF DesktopTurn, Lagged, RestartBridge, vars, runtimeVars, Stamped
<1> QED
  BY <1>1, <1>2, <1>3, <1>4, <1>5, <1>6, <1>7, Zenon DEF Next

LEMMA OvertakenType == Spec => [](overtaken \in BOOLEAN)
<1>1. Init => overtaken \in BOOLEAN
  BY DEF Init
<1>2. overtaken \in BOOLEAN /\ [Next]_vars => (overtaken \in BOOLEAN)'
  BY NextStamps DEF Stamped, Stamp
<1> QED
  BY <1>1, <1>2, PTL DEF Spec

\* The runtime's record of a thread keeps its types: no step of handle_inbound,
\* of handle_codex_notification or of a timer acts on a turn it does not have.
THEOREM TypeCorrect == Spec => []TypeOK
<1>1. IInv /\ overtaken \in BOOLEAN => TypeOK
  BY Zenon DEF IInv, TypeOK, MiscOK, ServerInv, TimerInv, TaskInv, QueueInv, Task, Pc, Latch,
               Notice, Notification, Kind, AppServer, Farewell
<1> QED
  BY <1>1, InvCorrect, OvertakenType, PTL

\* The queue neither repeats nor reorders a message: turn/start is sent at most
\* once for each, in the order of /queue, by whichever of the router, the worker
\* and the timers took it, and however often it was put back.  And it mislays
\* none: a message that was accepted waits, is in hand, was sent, or was given up,
\* with the binding, by a restart, or as expired by another turn.
THEOREM QueueCorrect == Spec => []QueueKept
<1>1. IInv => QueueKept
  <2> SUFFICES ASSUME IInv PROVE QueueKept
    OBVIOUS
  <2>i. QueueInv
    BY DEF IInv
  <2>1. \A n \in 1..items :
          \/ \E i \in DOMAIN queue : queue[i] = n
          \/ \E a \in Actors : n \in Held(a)
          \/ \E i \in DOMAIN submitted : submitted[i] = n
          \/ n \in dropped
    BY <2>i, Zenon DEF QueueInv, Accounted
  <2>2. \A i, j \in DOMAIN queue : i # j => queue[i] # queue[j]
    BY <2>i, SMT DEF QueueInv, InQueueOrder
  <2>3. \A i \in DOMAIN queue : \A j \in DOMAIN submitted : queue[i] # submitted[j]
    BY <2>i, SMT DEF QueueInv, InQueueOrder
  <2> QED
    BY <2>i, <2>1, <2>2, <2>3, Zenon DEF QueueKept, QueueAccounted, QueueInv
<1> QED
  BY <1>1, InvCorrect, PTL

\* try_mark_turn_starting never leaves the thread reserved for nobody: while
\* starting_turn_by_thread has it, a task awaits the answer to its turn/start.
THEOREM ReservationCorrect == Spec => []ReservationHasOwner
<1>1. IInv => ReservationHasOwner
  BY DEF IInv, ReservationInv
<1> QED
  BY <1>1, InvCorrect, PTL

\* Messages that wait behind a thread without a turn have a task that is on its
\* way to them, unless one of the faults that strand the queue has happened.
THEOREM StarterCorrect == Spec => []QueueHasStarter
<1>1. IInv => QueueHasStarter
  BY Zenon DEF IInv, StarterInv, WaitingHasStarter, Waiting, QueueHasStarter
<1> QED
  BY <1>1, InvCorrect, PTL

-----------------------------------------------------------------------------
(* The notices of failed turns, as long as the history has room for every turn *)

OneClaimEach(ns) == \A i, j \in DOMAIN ns : ns[i].turn = ns[j].turn => i = j
HasFailed(ns, t) == \E i \in DOMAIN ns : ns[i].turn = t /\ ns[i].failed

\* A turn whose failure was told has a claim that says so.  A /stop that has
\* claimed a turn's notice may take the claim back: its turn was not told of.
NoticeInv ==
    /\ OneClaimEach(notices)
    /\ \A t \in Turns : told[t] # 0 => told[t] = 1 /\ HasFailed(notices, t)
    /\ actor[Worker].pc = "stop" /\ actor[Worker].ok =>
          told[actor[Worker].turn] = 0 /\ HasFailed(notices, actor[Worker].turn)

\* One claim for each of the turns leaves room in the history.
LEMMA RoomForAll ==
    ASSUME NEW ns \in Seq(Notice), OneClaimEach(ns), MaxTurns <= NoticeHistory
    PROVE  ~(Len(ns) > NoticeHistory)
<1>0. Len(ns) \in Nat /\ DOMAIN ns = 1..Len(ns) /\ \A i \in 1..Len(ns) : ns[i] \in Notice
  BY SMT
<1> DEFINE f == [i \in 1..Len(ns) |-> ns[i].turn]
<1>1. f \in [1..Len(ns) -> Turns]
  BY <1>0, NoticeFields, Zenon
<1>2. \A i, j \in 1..Len(ns) : f[i] = f[j] => i = j
  BY <1>0, Zenon DEF OneClaimEach
<1> HIDE DEF f
<1>3. f \in Injection(1..Len(ns), Turns)
  BY <1>1, <1>2, Zenon DEF Injection, IsInjective
<1>4. /\ IsFiniteSet(1..Len(ns)) /\ Cardinality(1..Len(ns)) = Len(ns)
  <2>1. 1 \in Int /\ Len(ns) \in Int
    BY <1>0, SMT
  <2>2. /\ IsFiniteSet(1..Len(ns))
        /\ Cardinality(1..Len(ns)) = IF 1 > Len(ns) THEN 0 ELSE Len(ns) - 1 + 1
    BY <2>1, FS_Interval
  <2> QED
    BY <1>0, <2>2, SMT
<1>5. /\ IsFiniteSet(Turns) /\ Cardinality(Turns) = MaxTurns
  <2>1. 1 \in Int /\ MaxTurns \in Int
    BY SMT
  <2>2. /\ IsFiniteSet(1..MaxTurns)
        /\ Cardinality(1..MaxTurns) = IF 1 > MaxTurns THEN 0 ELSE MaxTurns - 1 + 1
    BY <2>1, FS_Interval
  <2> QED
    BY <2>2, SMT DEF Turns
<1>6. Cardinality(1..Len(ns)) <= Cardinality(Turns)
  BY <1>3, <1>4, <1>5, FS_Injection
<1> QED
  BY <1>0, <1>4, <1>5, <1>6, SMT

\* claim_terminal_notice takes no claim away, and leaves one for its turn.
LEMMA ClaimKeeps ==
    ASSUME notices \in Seq(Notice), OneClaimEach(notices), MaxTurns <= NoticeHistory,
           NEW t \in Turns, NEW failed \in BOOLEAN, NEW ns, ns = NoticesAfterClaim(t, failed)
    PROVE  /\ OneClaimEach(ns) /\ (failed => HasFailed(ns, t))
           /\ \A u : HasFailed(notices, u) => HasFailed(ns, u)
<1>1. CASE ClaimOf(t) # {}
  <2> DEFINE g(i) == IF i \in ClaimOf(t) THEN Also(notices[i], failed) ELSE notices[i]
  <2>1. ns = [i \in DOMAIN notices |-> g(i)]
    BY <1>1, Zenon DEF NoticesAfterClaim, Also
  <2>2. ASSUME NEW i \in DOMAIN notices
        PROVE  /\ g(i).turn = notices[i].turn
               /\ notices[i].failed => g(i).failed
               /\ i \in ClaimOf(t) /\ failed => g(i).failed
    <3>1. notices[i] \in Notice
      BY SMT
    <3>2. /\ Also(notices[i], failed).turn = notices[i].turn
          /\ notices[i].failed \/ failed => Also(notices[i], failed).failed
      BY <3>1, Zenon DEF Also, Notice
    <3> QED
      BY <3>2, Zenon
  <2> HIDE DEF g
  <2>3. DOMAIN ns = DOMAIN notices /\ \A i \in DOMAIN notices : ns[i] = g(i)
    BY <2>1, Zenon
  <2>4. /\ \A i \in DOMAIN notices : ns[i].turn = notices[i].turn
        /\ \A i \in DOMAIN notices : notices[i].failed => ns[i].failed
        /\ \A i \in ClaimOf(t) : failed => ns[i].failed
    BY <2>2, <2>3, Zenon DEF ClaimOf
  <2>5. OneClaimEach(ns) /\ \A u : HasFailed(notices, u) => HasFailed(ns, u)
    <3>1. OneClaimEach(ns)
      <4>1. ASSUME NEW i \in DOMAIN ns, NEW j \in DOMAIN ns, ns[i].turn = ns[j].turn PROVE i = j
        <5>1. i \in DOMAIN notices /\ j \in DOMAIN notices
          BY <2>3
        <5>2. notices[i].turn = notices[j].turn
          BY <2>4, <4>1, <5>1
        <5> QED
          BY <5>1, <5>2, Zenon DEF OneClaimEach
      <4> QED
        BY <4>1, Zenon DEF OneClaimEach
    <3>2. ASSUME NEW u, HasFailed(notices, u) PROVE HasFailed(ns, u)
      <4>1. PICK i \in DOMAIN notices : notices[i].turn = u /\ notices[i].failed
        BY <3>2, Zenon DEF HasFailed
      <4>2. i \in DOMAIN ns /\ ns[i].turn = u /\ ns[i].failed
        BY <2>3, <2>4, <4>1, Zenon
      <4> QED
        BY <4>2, Zenon DEF HasFailed
    <3> QED
      BY <3>1, <3>2
  <2>6. failed => HasFailed(ns, t)
    BY <1>1, <2>3, <2>4, Zenon DEF HasFailed, ClaimOf
  <2> QED
    BY <2>5, <2>6
<1>2. CASE ClaimOf(t) = {}
  <2> DEFINE all == Append(notices, Claim(t, failed))
  <2>0. Claim(t, failed) \in Notice
    BY Zenon DEF Claim, Notice
  <2>1. all \in Seq(Notice)
    BY <2>0, AppendProperties
  <2>c. Claim(t, failed).turn = t /\ (failed => Claim(t, failed).failed)
    BY Zenon DEF Claim
  <2>2. PICK n \in Nat : /\ n = Len(notices) /\ DOMAIN notices = 1..n /\ DOMAIN all = 1..(n + 1)
                         /\ all[n + 1] = Claim(t, failed)
                         /\ \A i \in DOMAIN notices : all[i] = notices[i]
    BY <2>0, SMT
  <2>3. /\ n + 1 \in DOMAIN all /\ n + 1 \notin DOMAIN notices
        /\ \A i \in DOMAIN all : i \in DOMAIN notices \/ i = n + 1
        /\ \A i \in DOMAIN notices : i \in DOMAIN all
    BY <2>2, SMT
  <2> HIDE DEF all
  <2>4. OneClaimEach(all)
    <3>1. \A i \in DOMAIN notices : notices[i].turn # t
      BY <1>2, Zenon DEF ClaimOf
    <3>2. ASSUME NEW i \in DOMAIN all, NEW j \in DOMAIN all, all[i].turn = all[j].turn
          PROVE  i = j
      <4>1. CASE i \in DOMAIN notices /\ j \in DOMAIN notices
        <5>1. notices[i].turn = notices[j].turn
          BY <2>2, <3>2, <4>1, Zenon
        <5> QED
          BY <4>1, <5>1, Zenon DEF OneClaimEach
      <4>2. CASE i = n + 1 /\ j \in DOMAIN notices
        <5>1. all[i].turn = t /\ all[j].turn # t
          BY <2>2, <2>c, <3>1, <4>2, Zenon
        <5> QED
          BY <3>2, <5>1
      <4>3. CASE i \in DOMAIN notices /\ j = n + 1
        <5>1. all[j].turn = t /\ all[i].turn # t
          BY <2>2, <2>c, <3>1, <4>3, Zenon
        <5> QED
          BY <3>2, <5>1
      <4> QED
        BY <2>3, <4>1, <4>2, <4>3
    <3> QED
      BY <3>2, Zenon DEF OneClaimEach
  <2>5. ns = all
    <3>1. ~(Len(all) > NoticeHistory)
      BY <2>1, <2>4, RoomForAll
    <3>2. ns = IF Len(all) > NoticeHistory THEN Tail(all) ELSE all
      BY <1>2, Zenon DEF NoticesAfterClaim, Claim, all
    <3> QED
      BY <3>1, <3>2
  <2>6. failed => HasFailed(all, t)
    BY <2>2, <2>3, <2>c, Zenon DEF HasFailed
  <2>7. \A u : HasFailed(notices, u) => HasFailed(all, u)
    BY <2>2, <2>3, Zenon DEF HasFailed
  <2> QED
    BY <2>4, <2>5, <2>6, <2>7
<1> QED
  BY <1>1, <1>2

LEMMA Removed ==
    ASSUME NEW s \in Seq(Notice), NEW c \in DOMAIN s
    PROVE  /\ c \in 1..Len(s) /\ Len(s) \in Nat /\ DOMAIN s = 1..Len(s)
           /\ DOMAIN RemoveAt(s, c) = 1..(Len(s) - 1)
           /\ \A i \in 1..(Len(s) - 1) : /\ i < c => RemoveAt(s, c)[i] = s[i]
                                         /\ ~(i < c) => RemoveAt(s, c)[i] = s[i + 1]
<1> DEFINE u == SubSeq(s, 1, c - 1)
           v == SubSeq(s, c + 1, Len(s))
<1>1. c \in 1..Len(s) /\ Len(s) \in Nat /\ DOMAIN s = 1..Len(s)
  OBVIOUS
<1>2. u \in Seq(Notice) /\ Len(u) = c - 1 /\ \A j \in 1..(c - 1) : u[j] = s[j]
  BY <1>1
<1>3. v \in Seq(Notice) /\ Len(v) = Len(s) - c /\ \A j \in 1..(Len(s) - c) : v[j] = s[c + j]
  BY <1>1
<1>4. RemoveAt(s, c) = u \o v
  BY DEF RemoveAt
<1> HIDE DEF u, v
<1>c. /\ u \o v \in Seq(Notice) /\ Len(u \o v) = Len(u) + Len(v)
      /\ \A i \in 1..(Len(u) + Len(v)) :
            (u \o v)[i] = IF i <= Len(u) THEN u[i] ELSE v[i - Len(u)]
  BY <1>2, <1>3, ConcatProperties, Zenon
<1>l. Len(u) + Len(v) = Len(s) - 1
  BY <1>1, <1>2, <1>3, SMT
<1>5. DOMAIN (u \o v) = 1..(Len(s) - 1)
  <2>1. DOMAIN (u \o v) = 1..Len(u \o v)
    BY <1>c, LenProperties, Zenon
  <2> QED
    BY <1>c, <1>l, <2>1, Zenon
<1>6. ASSUME NEW i \in 1..(Len(s) - 1) PROVE (u \o v)[i] = s[IF i < c THEN i ELSE i + 1]
  <2>1. (u \o v)[i] = IF i <= c - 1 THEN u[i] ELSE v[i - (c - 1)]
    BY <1>c, <1>l, <1>2, Zenon
  <2>2. /\ i < c => i <= c - 1 /\ i \in 1..(c - 1)
        /\ ~(i < c) => /\ ~(i <= c - 1) /\ i - (c - 1) \in 1..(Len(s) - c)
                      /\ c + (i - (c - 1)) = i + 1
    BY <1>1, SMT
  <2>3. CASE i < c
    BY <1>2, <2>1, <2>2, <2>3, Zenon
  <2>4. CASE ~(i < c)
    BY <1>3, <2>1, <2>2, <2>4, Zenon
  <2> QED
    BY <2>3, <2>4
<1>7. ASSUME NEW i \in 1..(Len(s) - 1), i < c PROVE (u \o v)[i] = s[i]
  BY <1>6, <1>7, Zenon
<1>8. ASSUME NEW i \in 1..(Len(s) - 1), ~(i < c) PROVE (u \o v)[i] = s[i + 1]
  BY <1>6, <1>8, Zenon
<1> QED
  BY <1>1, <1>4, <1>5, <1>7, <1>8

\* A claim that is taken back leaves the others.
LEMMA ReleaseKeeps ==
    ASSUME notices \in Seq(Notice), OneClaimEach(notices), NEW t, ReleaseNotice(t)
    PROVE  /\ OneClaimEach(notices')
           /\ \A u : u # t /\ HasFailed(notices, u) => HasFailed(notices', u)
<1>1. CASE ClaimOf(t) = {}
  BY <1>1, Zenon DEF ReleaseNotice
<1>2. CASE ClaimOf(t) # {}
  <2>1. PICK c \in ClaimOf(t) : notices' = RemoveAt(notices, c)
    <3>1. (CHOOSE i \in ClaimOf(t) : TRUE) \in ClaimOf(t)
      BY <1>2
    <3> QED
      BY <1>2, <3>1, Zenon DEF ReleaseNotice
  <2>2. c \in DOMAIN notices /\ notices[c].turn = t
    BY Zenon DEF ClaimOf
  <2>3. PICK n \in Nat : /\ c \in 1..n /\ DOMAIN notices = 1..n /\ DOMAIN notices' = 1..(n - 1)
                         /\ \A i \in 1..(n - 1) :
                               /\ i < c => notices'[i] = notices[i]
                               /\ ~(i < c) => notices'[i] = notices[i + 1]
    BY <2>1, <2>2, Removed
  <2>7. /\ \A i \in DOMAIN notices' : i < c => i \in DOMAIN notices /\ notices'[i] = notices[i]
        /\ \A i \in DOMAIN notices' : ~(i < c) =>
              i + 1 \in DOMAIN notices /\ notices'[i] = notices[i + 1]
    <3>1. \A i \in 1..(n - 1) : i \in 1..n /\ i + 1 \in 1..n
      BY SMT
    <3> QED
      BY <2>3, <3>1, Zenon
  <2>8. OneClaimEach(notices')
    <3>1. ASSUME NEW i \in DOMAIN notices', NEW j \in DOMAIN notices',
                 notices'[i].turn = notices'[j].turn
          PROVE  i = j
      <4>1. i \in Int /\ j \in Int /\ c \in Int
        BY <2>3, SMT
      <4>2. CASE i < c /\ j < c
        BY <2>7, <3>1, <4>2, Zenon DEF OneClaimEach
      <4>3. CASE i < c /\ ~(j < c)
        <5>1. /\ i \in DOMAIN notices /\ j + 1 \in DOMAIN notices
              /\ notices[i].turn = notices[j + 1].turn
          BY <2>7, <3>1, <4>3, Zenon
        <5>2. i = j + 1
          BY <5>1, Zenon DEF OneClaimEach
        <5> QED
          BY <4>1, <4>3, <5>2, SMT
      <4>4. CASE ~(i < c) /\ j < c
        <5>1. /\ i + 1 \in DOMAIN notices /\ j \in DOMAIN notices
              /\ notices[i + 1].turn = notices[j].turn
          BY <2>7, <3>1, <4>4, Zenon
        <5>2. i + 1 = j
          BY <5>1, Zenon DEF OneClaimEach
        <5> QED
          BY <4>1, <4>4, <5>2, SMT
      <4>5. CASE ~(i < c) /\ ~(j < c)
        <5>1. /\ i + 1 \in DOMAIN notices /\ j + 1 \in DOMAIN notices
              /\ notices[i + 1].turn = notices[j + 1].turn
          BY <2>7, <3>1, <4>5, Zenon
        <5>2. i + 1 = j + 1
          BY <5>1, Zenon DEF OneClaimEach
        <5> QED
          BY <4>1, <5>2, SMT
      <4> QED
        BY <4>2, <4>3, <4>4, <4>5
    <3> QED
      BY <3>1, Zenon DEF OneClaimEach
  <2>9. ASSUME NEW u, u # t, HasFailed(notices, u) PROVE HasFailed(notices', u)
    <3>1. PICK i \in DOMAIN notices : notices[i].turn = u /\ notices[i].failed
      BY <2>9, Zenon DEF HasFailed
    <3>2. i # c
      BY <2>2, <2>9, <3>1
    <3>3. CASE i < c
      <4>1. i \in DOMAIN notices' /\ notices'[i] = notices[i]
        <5>1. i \in 1..(n - 1)
          BY <2>3, <3>3, SMT
        <5> QED
          BY <2>3, <3>3, <5>1, Zenon
      <4> QED
        BY <3>1, <4>1, Zenon DEF HasFailed
    <3>4. CASE ~(i < c)
      <4>1. i - 1 \in DOMAIN notices' /\ ~(i - 1 < c) /\ (i - 1) + 1 = i
        BY <2>3, <3>2, <3>4, SMT
      <4>2. notices'[i - 1] = notices[i]
        BY <2>7, <4>1, Zenon
      <4> QED
        BY <3>1, <4>1, <4>2, Zenon DEF HasFailed
    <3> QED
      BY <3>3, <3>4
  <2> QED
    BY <2>8, <2>9, Zenon
<1> QED
  BY <1>1, <1>2

\* The worker does not claim a notice, or goes on with the /stop that has.
WorkerQuiet == actor'[Worker].pc = "stop" => actor'[Worker] = actor[Worker]

\* No claim is lost, and nobody is told.
LEMMA NoticeQuiet ==
    ASSUME NoticeInv, WorkerQuiet, told' = told, OneClaimEach(notices'),
           \A u : HasFailed(notices, u) => HasFailed(notices', u)
    PROVE  NoticeInv'
BY Zenon DEF NoticeInv, WorkerQuiet

LEMMA NoticeSame ==
    ASSUME NoticeInv, WorkerQuiet, told' = told, notices' = notices
    PROVE  NoticeInv'
<1>1. OneClaimEach(notices') /\ \A u : HasFailed(notices, u) => HasFailed(notices', u)
  BY Zenon DEF NoticeInv
<1> QED
  BY <1>1, NoticeQuiet

LEMMA QuietTask ==
    ASSUME TaskInv, NEW a \in Actors, NEW r, r.pc # "stop", actor' = [actor EXCEPT ![a] = r]
    PROVE  WorkerQuiet
<1>1. actor'[a] = r /\ \A b \in Actors : b # a => actor'[b] = actor[b]
  BY Zenon DEF TaskInv
<1> QED
  BY <1>1, ActorNumbers, Zenon DEF WorkerQuiet

\* A task that goes on at p, or that starts anew there
LEMMA QuietMove ==
    ASSUME TaskInv, NEW a \in Actors, NEW p \in Pc, p # "stop",
           \/ actor' = [actor EXCEPT ![a] = At(actor[a], p)]
           \/ actor' = [actor EXCEPT ![a] = Begin(p)]
           \/ actor' = [actor EXCEPT ![a] = Idle]
    PROVE  WorkerQuiet
<1>1. CASE actor' = [actor EXCEPT ![a] = At(actor[a], p)]
  <2>1. actor[a] \in Task
    BY Zenon DEF TaskInv
  <2>2. At(actor[a], p).pc = p
    BY <2>1, AtTask
  <2> QED
    BY <1>1, <2>2, QuietTask
<1>2. CASE actor' = [actor EXCEPT ![a] = Begin(p)]
  <2>1. Begin(p).pc = p
    BY BeginTask
  <2> QED
    BY <1>2, <2>1, QuietTask
<1>3. CASE actor' = [actor EXCEPT ![a] = Idle]
  BY <1>3, IdleTask, QuietTask
<1> QED
  BY <1>1, <1>2, <1>3

LEMMA SameTasks == ASSUME actor' = actor PROVE WorkerQuiet
BY Zenon DEF WorkerQuiet

\* Starting a turn tells nobody anything.
LEMMA StarterQuiet ==
    ASSUME IInv, NEW a \in Actors, Starter(a)
    PROVE  WorkerQuiet /\ told' = told /\ notices' = notices
<1>i. TaskInv /\ queue \in Seq(1..MaxItems) /\ actor[a] \in Task
  BY Zenon DEF IInv, QueueInv, TaskInv
<1>p. {"take", "clear", "mark", "await", "requeue", "lock"} \subseteq Pc
  BY Zenon DEF Pc
<1>1. told' = told /\ notices' = notices
  BY Zenon DEF Starter, Lock, Take, Route, Mark, Requeue, ClearQueue, Started, StartFailed,
               StartStale, runtimeVars
<1>2. ASSUME Lock(a) PROVE WorkerQuiet
  <2>1. actor' = [actor EXCEPT ![a] = Begin("take")]
    BY <1>2, Zenon DEF Lock, Begin
  <2> QED
    BY <1>i, <1>p, <2>1, QuietMove
<1>3. ASSUME Take(a) PROVE WorkerQuiet
  <2>1. \/ actor' = [actor EXCEPT ![a] = Idle]
        \/ queue # <<>> /\ actor' = [actor EXCEPT ![a] = Taking(Head(queue))]
    BY <1>3, Zenon DEF Take, Taking
  <2>2. CASE actor' = [actor EXCEPT ![a] = Idle]
    BY <1>i, <1>p, <2>2, QuietMove
  <2>3. CASE queue # <<>> /\ actor' = [actor EXCEPT ![a] = Taking(Head(queue))]
    <3>1. Head(queue) \in 0..MaxItems
      BY <1>i, <2>3, SMT
    <3>2. Taking(Head(queue)).pc = "route"
      BY <3>1, TakingTask
    <3> QED
      BY <1>i, <2>3, <3>2, QuietTask
  <2> QED
    BY <2>1, <2>2, <2>3
<1>4. ASSUME NEW q \in {Refused(a), NoThread(a)}, actor' = [actor EXCEPT ![a] = q]
      PROVE  WorkerQuiet
  <2>1. q \in {Idle, At(actor[a], "requeue"), Begin("clear")}
    BY Zenon DEF Refused, NoThread, At, Begin
  <2> QED
    BY <1>i, <1>p, <1>4, <2>1, QuietMove
<1>5. ASSUME Route(a) \/ Mark(a) PROVE WorkerQuiet
  <2>1. \/ actor' = [actor EXCEPT ![a] = Refused(a)]
        \/ actor' = [actor EXCEPT ![a] = NoThread(a)]
        \/ actor' = [actor EXCEPT ![a] = At(actor[a], "mark")]
        \/ actor' = [actor EXCEPT ![a] = At(actor[a], "await")]
        \/ actor' = [actor EXCEPT ![a] = Idle]
        \/ actor' = [actor EXCEPT ![a] = Begin("take")]
    BY <1>5, Zenon DEF Route, Mark, At, Begin
  <2> QED
    BY <1>i, <1>p, <1>4, <2>1, QuietMove
<1>6. ASSUME Requeue(a) \/ ClearQueue(a) \/ Started(a) PROVE WorkerQuiet
  <2>1. actor' = [actor EXCEPT ![a] = Idle]
    BY <1>6, Zenon DEF Requeue, ClearQueue, Started
  <2> QED
    BY <1>i, <1>p, <2>1, QuietMove
<1>7. ASSUME StartFailed(a) PROVE WorkerQuiet
  <2>1. \/ actor' = [actor EXCEPT ![a] = Idle]
        \/ actor' = [actor EXCEPT ![a] = Begin("take")]
    BY <1>7, Zenon DEF StartFailed, Begin
  <2> QED
    BY <1>i, <1>p, <2>1, QuietMove
<1>8. ASSUME StartStale(a) PROVE WorkerQuiet
  BY <1>4, <1>8, Zenon DEF StartStale
<1> QED
  BY <1>1, <1>2, <1>3, <1>5, <1>6, <1>7, <1>8, Zenon DEF Starter

\* The end of a turn
LEMMA FinishQuiet ==
    ASSUME IInv, NEW a \in Actors, FinishTurn(a)
    PROVE  WorkerQuiet /\ told' = told /\ notices' = notices
<1>0. /\ told' = told /\ notices' = notices
      /\ \/ actor' = [actor EXCEPT ![a] = Idle]
         \/ actor' = [actor EXCEPT ![a] = At(actor[a], "lock")]
         \/ actor' = [actor EXCEPT ![a] = Noticing(actor[a], Completes(a))]
  BY Zenon DEF FinishTurn, At, Noticing
<1>i. TaskInv /\ actor[a] \in Task /\ "lock" \in Pc
  BY Zenon DEF IInv, TaskInv, Pc
<1>1. Noticing(actor[a], Completes(a)).pc = "notice"
  <2>1. Completes(a) \in BOOLEAN
    BY Zenon DEF Completes
  <2> QED
    BY <1>i, <2>1, NoticingTask
<1>2. CASE actor' = [actor EXCEPT ![a] = Noticing(actor[a], Completes(a))]
  BY <1>0, <1>1, <1>2, <1>i, QuietTask
<1> QED
  BY <1>0, <1>2, <1>i, QuietMove

\* The router, the timers and the app-server claim nothing before the notice,
LEMMA ListenQuiet ==
    ASSUME IInv, HandleStarted \/ HandleTerminal \/ HandleStatus
    PROVE  WorkerQuiet /\ told' = told /\ notices' = notices
<1>i. TaskInv /\ channel \in Seq(Notification) /\ MiscOK /\ ServerInv /\ TimerInv
  BY DEF IInv, ServerInv
<1>1. told' = told /\ notices' = notices
  BY Zenon DEF HandleStarted, HandleTerminal, HandleStatus
<1>2. ASSUME HandleStarted PROVE WorkerQuiet
  BY <1>2, SameTasks, Zenon DEF HandleStarted
<1>3. ASSUME HandleTerminal PROVE WorkerQuiet
  <2>1. \/ actor' = actor
        \/ actor' = [actor EXCEPT ![Router] = Finishing(Head(channel).turn, Head(channel).failed)]
    BY <1>3, Zenon DEF HandleTerminal, Finishing
  <2>2. actor'[Worker] = actor[Worker]
    BY <1>i, <2>1, ActorNumbers, Zenon DEF TaskInv
  <2> QED
    BY <2>2, Zenon DEF WorkerQuiet
<1>4. ASSUME HandleStatus PROVE WorkerQuiet
  <2>1. \/ actor' = actor
        \/ \E k : actor' = [actor EXCEPT ![k] = Timer(current, Head(channel).failed)]
    BY <1>4, Zenon DEF HandleStatus, Timer
  <2>2. CASE \E k : actor' = [actor EXCEPT ![k] = Timer(current, Head(channel).failed)]
    <3>1. PICK k : actor' = [actor EXCEPT ![k] = Timer(current, Head(channel).failed)]
      BY <2>2
    <3>2. Timer(current, Head(channel).failed).pc = "asleep"
      <4>1. channel # <<>>
        BY <1>4, Zenon DEF HandleStatus, Received
      <4>2. Head(channel) \in Notification
        BY <1>i, <4>1, SMT
      <4> QED
        BY <1>i, <4>2, NotificationFields, TimerTask DEF MiscOK
    <3>3. CASE k \in Actors
      BY <1>i, <3>1, <3>2, <3>3, QuietTask
    <3>4. CASE k \notin Actors
      BY <1>i, <3>1, <3>4, ActorNumbers, Zenon DEF TaskInv, WorkerQuiet
    <3> QED
      BY <3>3, <3>4
  <2> QED
    BY <2>1, <2>2, SameTasks
<1> QED
  BY <1>1, <1>2, <1>3, <1>4

\* ... nor does the worker, apart from /stop and /exit.
LEMMA OtherQuiet ==
    ASSUME IInv,
           \/ ServerSays \/ DesktopTurn \/ Lagged \/ Enqueue \/ Bind \/ Text
           \/ StopInterrupts \/ StopFinish \/ ExitInterrupts \/ ExitFinish \/ ExitUnbind
           \/ (\E k \in Tokens : Fire(k)) \/ (\E k \in Tokens, t \in Turns : OrphanCleanup(k, t))
           \/ (\E a \in Actors : Accept(a)) \/ UNCHANGED vars
    PROVE  WorkerQuiet /\ told' = told /\ notices' = notices
<1>i. TaskInv /\ actor[Worker] \in Task
  BY ActorNumbers, Zenon DEF IInv, TaskInv
<1>w. Worker \in Actors /\ {"finish", "lock", "leave", "unbind"} \subseteq Pc
  BY ActorNumbers, Zenon DEF Pc
<1>1. ASSUME \/ ServerSays \/ DesktopTurn \/ Lagged \/ Enqueue \/ Bind
             \/ (\E k \in Tokens, t \in Turns : OrphanCleanup(k, t)) \/ UNCHANGED vars
      PROVE  actor' = actor /\ told' = told /\ notices' = notices
  BY <1>1, Zenon DEF ServerSays, EndTurn, SayStarted, SayTerminal, SayStatus, DesktopTurn, Lagged,
                     Enqueue, Bind, OrphanCleanup, runtimeVars, vars
<1>2. ASSUME Text PROVE WorkerQuiet /\ told' = told /\ notices' = notices
  <2>1. /\ told' = told /\ notices' = notices
        /\ actor' = [actor EXCEPT ![Worker] = Working("route", 0, FALSE)]
    BY <1>2, Zenon DEF Text, WorkerAt, Working, runtimeVars
  <2>2. Working("route", 0, FALSE).pc = "route"
    <3>1. "route" \in Pc /\ FALSE \in BOOLEAN
      BY Zenon DEF Pc
    <3> QED
      BY <3>1, Numbers, WorkingTask
  <2> QED
    BY <1>i, <1>w, <2>1, <2>2, QuietTask
<1>3. ASSUME StopInterrupts \/ StopFinish \/ ExitInterrupts \/ ExitFinish \/ ExitUnbind
      PROVE  WorkerQuiet /\ told' = told /\ notices' = notices
  <2>1. /\ told' = told /\ notices' = notices
        /\ \/ actor' = [actor EXCEPT ![Worker] = At(actor[Worker], "finish")]
           \/ actor' = [actor EXCEPT ![Worker] = At(actor[Worker], "lock")]
           \/ actor' = [actor EXCEPT ![Worker] = At(actor[Worker], "leave")]
           \/ actor' = [actor EXCEPT ![Worker] = Begin("unbind")]
           \/ actor' = [actor EXCEPT ![Worker] = Idle]
    BY <1>3, Zenon DEF StopInterrupts, StopFinish, ExitInterrupts, ExitFinish, ExitUnbind,
                       runtimeVars, At, Begin
  <2> QED
    BY <1>i, <1>w, <2>1, QuietMove
<1>4. ASSUME NEW k \in Tokens, Fire(k) PROVE WorkerQuiet /\ told' = told /\ notices' = notices
  <2>1. /\ told' = told /\ notices' = notices
        /\ \/ actor' = [actor EXCEPT ![k] = At(actor[k], "finish")]
           \/ actor' = [actor EXCEPT ![k] = Idle]
    BY <1>4, Zenon DEF Fire, At
  <2>2. k \in Actors
    BY ActorNumbers
  <2> QED
    BY <1>i, <1>w, <2>1, <2>2, QuietMove
<1>5. ASSUME NEW a \in Actors, Accept(a) PROVE WorkerQuiet /\ told' = told /\ notices' = notices
  <2>1. /\ told' = told /\ notices' = notices /\ actor[a].pc = "await"
        /\ actor' = [actor EXCEPT ![a] = Answered(actor[a], server.turn + 1)]
    BY <1>5, Zenon DEF Accept, Answered, runtimeVars
  <2>2. Answered(actor[a], server.turn + 1).pc = "await"
    <3>1. actor[a] \in Task
      BY <1>i, Zenon DEF TaskInv
    <3> QED
      BY <2>1, <3>1, Zenon DEF Answered, Task
  <2> QED
    BY <1>i, <2>1, <2>2, QuietTask
<1> QED
  BY <1>1, <1>2, <1>3, <1>4, <1>5, SameTasks

\* The notice is claimed for a failed turn only if no claim of a failure is there.
LEMMA Unclaimed ==
    ASSUME NEW t, MayClaimNotice(t, TRUE) PROVE ~HasFailed(notices, t)
BY Zenon DEF MayClaimNotice, ClaimOf, HasFailed

\* send_turn_terminal_mark_once tells of a turn that was not told of.
LEMMA TerminalNoticeOnce ==
    ASSUME IInv, NoticeInv, MaxTurns <= NoticeHistory, NEW a \in Actors, TerminalNotice(a)
    PROVE  NoticeInv'
<1>i. TaskInv /\ notices \in Seq(Notice) /\ told \in [Turns -> Nat] /\ actor[a] \in Task
  BY Zenon DEF IInv, TaskInv
<1>0. /\ actor[a].pc = "notice" /\ notices' = NoticesAfterClaim(actor[a].turn, actor[a].failed)
      /\ told' = IF actor[a].failed /\ MayClaimNotice(actor[a].turn, actor[a].failed)
                 THEN [told EXCEPT ![actor[a].turn] = told[actor[a].turn] + 1] ELSE told
      /\ \/ actor' = [actor EXCEPT ![a] = Idle]
         \/ actor' = [actor EXCEPT ![a] = At(actor[a], "lock")]
  BY Zenon DEF TerminalNotice, At
<1>t. PICK t \in Turns, failed \in BOOLEAN : t = actor[a].turn /\ failed = actor[a].failed
  BY <1>i, <1>0, HasTurn, TaskFields, Zenon
<1>w. WorkerQuiet
  <2>1. "lock" \in Pc
    BY Zenon DEF Pc
  <2> QED
    BY <1>i, <1>0, <2>1, QuietMove
<1>1. /\ OneClaimEach(notices') /\ (failed => HasFailed(notices', t))
      /\ \A u : HasFailed(notices, u) => HasFailed(notices', u)
  BY <1>i, <1>0, <1>t, ClaimKeeps DEF NoticeInv
<1>2. CASE failed /\ MayClaimNotice(t, failed)
  <2>1. ~HasFailed(notices, t)
    BY <1>2, Unclaimed
  <2>2. told[t] = 0
    BY <2>1, Zenon DEF NoticeInv
  <2>3. told'[t] = 1 /\ \A u \in Turns : u # t => told'[u] = told[u]
    <3>1. told' = [told EXCEPT ![t] = told[t] + 1]
      BY <1>0, <1>t, <1>2, Zenon
    <3>2. told'[t] = told[t] + 1 /\ \A u \in Turns : u # t => told'[u] = told[u]
      BY <1>i, <3>1, Zenon
    <3> QED
      BY <2>2, <3>2, SMT
  <2>4. ASSUME NEW u \in Turns, told'[u] # 0 PROVE told'[u] = 1 /\ HasFailed(notices', u)
    BY <1>1, <1>2, <2>3, <2>4, Zenon DEF NoticeInv
  <2>5. ASSUME actor'[Worker].pc = "stop", actor'[Worker].ok
        PROVE  told'[actor'[Worker].turn] = 0 /\ HasFailed(notices', actor'[Worker].turn)
    <3>1. PICK u \in Turns : u = actor[Worker].turn
      <4>1. actor[Worker].pc = "stop"
        BY <1>w, <2>5, Zenon DEF WorkerQuiet
      <4> QED
        BY <1>i, <4>1, ActorNumbers, HasTurn, Zenon DEF TaskInv
    <3>2. told[u] = 0 /\ HasFailed(notices, u) /\ actor'[Worker].turn = u
      BY <1>w, <2>5, <3>1, Zenon DEF WorkerQuiet, NoticeInv
    <3>3. u # t
      BY <2>1, <3>2
    <3> QED
      BY <1>1, <2>3, <3>2, <3>3, Zenon
  <2> QED
    BY <1>1, <2>4, <2>5, Zenon DEF NoticeInv
<1>3. CASE ~(failed /\ MayClaimNotice(t, failed))
  <2>1. told' = told
    BY <1>0, <1>t, <1>3, Zenon
  <2> QED
    BY <1>1, <1>w, <2>1, NoticeQuiet
<1> QED
  BY <1>2, <1>3

\* /stop claims the notice of a turn that was not told of, ...
LEMMA StopOnce ==
    ASSUME IInv, NoticeInv, MaxTurns <= NoticeHistory, Stop PROVE NoticeInv'
<1>i. TaskInv /\ MiscOK /\ notices \in Seq(Notice)
  BY DEF IInv
<1>0. /\ told' = told /\ current # 0 /\ notices' = NoticesAfterClaim(current, TRUE)
      /\ actor' = [actor EXCEPT ![Worker] =
                      Working("stop", current, MayClaimNotice(current, TRUE))]
  BY Zenon DEF Stop, HasActiveTurn, WorkerAt, Working
<1>t. current \in Turns /\ current \in 0..MaxTurns
  BY <1>0, <1>i, Numbers DEF MiscOK
<1>1. /\ OneClaimEach(notices') /\ HasFailed(notices', current)
      /\ \A u : HasFailed(notices, u) => HasFailed(notices', u)
  BY <1>i, <1>0, <1>t, ClaimKeeps DEF NoticeInv
<1>2. /\ actor'[Worker].turn = current
      /\ actor'[Worker].ok => MayClaimNotice(current, TRUE)
  <2>1. PICK o \in BOOLEAN : o = MayClaimNotice(current, TRUE)
    BY Zenon DEF MayClaimNotice
  <2>2. actor'[Worker] = Working("stop", current, o)
    BY <1>i, <1>0, <2>1, ActorNumbers, Zenon DEF TaskInv
  <2>3. Working("stop", current, o).turn = current
    <3>1. "stop" \in Pc
      BY Zenon DEF Pc
    <3> QED
      BY <1>t, <3>1, WorkingTask
  <2>4. Working("stop", current, o).ok = o
    <3>1. Idle \in Task
      BY IdleTask
    <3> QED
      BY <3>1, Zenon DEF Working, Task
  <2> QED
    BY <2>1, <2>2, <2>3, <2>4, Zenon
<1>3. ASSUME actor'[Worker].ok PROVE told[current] = 0
  <2>1. ~HasFailed(notices, current)
    BY <1>2, <1>3, Unclaimed
  <2> QED
    BY <1>t, <2>1, Zenon DEF NoticeInv
<1>4. ASSUME NEW u \in Turns, told[u] # 0 PROVE told[u] = 1 /\ HasFailed(notices', u)
  BY <1>1, <1>4, Zenon DEF NoticeInv
<1> QED
  BY <1>0, <1>1, <1>2, <1>3, <1>4, Zenon DEF NoticeInv

\* ... and takes back only such a claim.
LEMMA StopFailsOnce ==
    ASSUME IInv, NoticeInv, StopFails PROVE NoticeInv'
<1>i. TaskInv /\ notices \in Seq(Notice)
  BY DEF IInv
<1>0. /\ told' = told /\ actor[Worker].pc = "stop" /\ actor' = [actor EXCEPT ![Worker] = Idle]
      /\ IF actor[Worker].ok THEN ReleaseNotice(actor[Worker].turn) ELSE notices' = notices
  BY Zenon DEF StopFails
<1>w. WorkerQuiet /\ actor'[Worker].pc # "stop"
  <2>1. actor'[Worker] = Idle
    BY <1>i, <1>0, ActorNumbers, Zenon DEF TaskInv
  <2> QED
    BY <2>1, IdleTask, Zenon DEF WorkerQuiet
<1>1. CASE actor[Worker].ok
  <2>1. PICK t : t = actor[Worker].turn
    OBVIOUS
  <2>2. told[t] = 0 /\ ReleaseNotice(t)
    BY <1>0, <1>1, <2>1, Zenon DEF NoticeInv
  <2>3. /\ OneClaimEach(notices')
        /\ \A u : u # t /\ HasFailed(notices, u) => HasFailed(notices', u)
    BY <1>i, <2>2, ReleaseKeeps DEF NoticeInv
  <2>4. ASSUME NEW u \in Turns, told[u] # 0 PROVE told[u] = 1 /\ HasFailed(notices', u)
    <3>1. u # t
      BY <2>2, <2>4
    <3> QED
      BY <2>3, <2>4, <3>1, Zenon DEF NoticeInv
  <2> QED
    BY <1>0, <1>w, <2>3, <2>4, Zenon DEF NoticeInv
<1>2. CASE ~actor[Worker].ok
  BY <1>0, <1>2, <1>w, NoticeSame
<1> QED
  BY <1>1, <1>2

\* /exit claims the notice for good.
LEMMA ExitOnce ==
    ASSUME IInv, NoticeInv, MaxTurns <= NoticeHistory, Exit PROVE NoticeInv'
<1>i. TaskInv /\ MiscOK /\ notices \in Seq(Notice)
  BY DEF IInv
<1>0. told' = told
  BY Zenon DEF Exit
<1>p. "exit" \in Pc /\ "unbind" \in Pc /\ FALSE \in BOOLEAN /\ Worker \in Actors /\ 0 \in 0..MaxTurns
  BY ActorNumbers, Numbers, Zenon DEF Pc
<1>1. CASE /\ current # 0 /\ notices' = NoticesAfterClaim(current, TRUE)
           /\ actor' = [actor EXCEPT ![Worker] = Working("exit", current, FALSE)]
  <2>1. current \in Turns /\ current \in 0..MaxTurns
    BY <1>1, <1>i, Numbers DEF MiscOK
  <2>2. Working("exit", current, FALSE).pc = "exit"
    BY <1>p, <2>1, WorkingTask
  <2>3. WorkerQuiet
    BY <1>1, <1>i, <1>p, <2>2, QuietTask
  <2>4. /\ OneClaimEach(notices') /\ \A u : HasFailed(notices, u) => HasFailed(notices', u)
    BY <1>1, <1>i, <2>1, ClaimKeeps DEF NoticeInv
  <2> QED
    BY <1>0, <2>3, <2>4, NoticeQuiet
<1>2. CASE /\ notices' = notices
           /\ actor' = [actor EXCEPT ![Worker] = Working("unbind", 0, FALSE)]
  <2>1. Working("unbind", 0, FALSE).pc = "unbind"
    BY <1>p, WorkingTask
  <2> QED
    BY <1>0, <1>2, <1>i, <1>p, <2>1, QuietTask, NoticeSame
<1> QED
  BY <1>1, <1>2, Zenon DEF Exit, HasActiveTurn, WorkerAt, Working

\* A new bridge generation knows nothing of the notices of the last.
LEMMA RestartOnce ==
    ASSUME IInv, NoticeInv, RestartBridge PROVE NoticeInv'
<1>1. notices' = <<>> /\ told' = [t \in Turns |-> 0]
  BY Zenon DEF RestartBridge
<1>2. actor'[Worker].pc = "idle"
  BY RestartTasks DEF IInv
<1>3. OneClaimEach(notices')
  <2>1. \A i : i \notin DOMAIN notices'
    BY <1>1, SMT
  <2> QED
    BY <2>1, Zenon DEF OneClaimEach
<1>4. \A t \in Turns : told'[t] = 0
  BY <1>1, Zenon
<1> QED
  BY <1>2, <1>3, <1>4, Zenon DEF NoticeInv

LEMMA NextOnce ==
    ASSUME MaxTurns <= NoticeHistory, IInv, NoticeInv, [Next]_vars PROVE NoticeInv'
<1>1. ASSUME NEW a \in Actors, Actor(a) PROVE NoticeInv'
  BY <1>1, FinishQuiet, TerminalNoticeOnce, StarterQuiet, NoticeSame DEF Actor
<1>2. CASE RouterStep
  BY <1>1, <1>2, ListenQuiet, NoticeSame, ActorNumbers, Zenon DEF RouterStep
<1>3. CASE WorkerStep
  BY <1>1, <1>3, StopFailsOnce, OtherQuiet, NoticeSame, ActorNumbers, Zenon DEF WorkerStep
<1>4. CASE \E k \in Tokens : TimerStep(k)
  BY <1>1, <1>4, OtherQuiet, NoticeSame, ActorNumbers, Zenon DEF TimerStep
<1>5. CASE Stop \/ Exit \/ RestartBridge
  BY <1>5, StopOnce, ExitOnce, RestartOnce
<1>6. CASE \/ ServerSays \/ Text \/ Enqueue \/ Bind \/ DesktopTurn \/ Lagged
           \/ (\E k \in Tokens, t \in Turns : OrphanCleanup(k, t))
           \/ (\E a \in Actors : Accept(a)) \/ UNCHANGED vars
  BY <1>6, OtherQuiet, NoticeSame
<1> QED
  BY <1>1, <1>2, <1>3, <1>4, <1>5, <1>6, Zenon DEF Next

\* claim_terminal_notice lets the failure of a turn be told once, by whichever of
\* error, turn/completed and the fallback comes first, and however /stop and
\* /exit claim it in between: as long as TERMINAL_NOTICE_TURN_HISTORY_MAX does
\* not drop the claim of a turn before the last of its events.
THEOREM ToldOnceCorrect == ASSUME MaxTurns <= NoticeHistory PROVE Spec => []FailureToldOnce
<1>1. Init => NoticeInv
  <2> SUFFICES ASSUME Init PROVE NoticeInv
    OBVIOUS
  <2>1. /\ notices = <<>> /\ actor[Worker] = Idle /\ \A t \in Turns : told[t] = 0
    BY ActorNumbers, Zenon DEF Init
  <2>2. \A i : i \notin DOMAIN notices
    BY <2>1, SMT
  <2> QED
    BY <2>1, <2>2, IdleTask, Zenon DEF NoticeInv, OneClaimEach
<1>2. IInv /\ NoticeInv /\ [Next]_vars => NoticeInv'
  BY NextOnce
<1>3. NoticeInv => FailureToldOnce
  <2>1. ASSUME NoticeInv, NEW t \in Turns PROVE told[t] <= 1
    <3>1. told[t] = 0 \/ told[t] = 1
      BY <2>1, Zenon DEF NoticeInv
    <3> QED
      BY <3>1, SMT
  <2> QED
    BY <2>1, Zenon DEF FailureToldOnce
<1> QED
  BY <1>1, <1>2, <1>3, InvCorrect, PTL DEF Spec

-----------------------------------------------------------------------------
(* The record of a thread follows its turn *)

\* There has been such a turn.
Seen(t) == t <= server.turn

\* The turn has ended.
Over(t) == Seen(t) /\ (t = server.turn => ~server.running)

\* The router will not hear that the turn of the app-server has started.
Missed ==
    /\ server.started /\ announced # server.turn
    /\ \A i \in DOMAIN channel : channel[i].kind = "started" => channel[i].turn # server.turn

Bounded ==
    /\ Seen(current) /\ Seen(announced) /\ Seen(latch.turn)
    /\ \A a \in Actors : Seen(actor[a].turn)
    /\ \A i \in DOMAIN channel : Seen(channel[i].turn)

\* What the app-server says at the end of a turn comes after the end.
EndsAreOver == \A i \in DOMAIN channel : channel[i].kind # "started" => Over(channel[i].turn)

\* As long as a turn runs its turn/started is the last that was said, and news
\* to the router.
StartIsLast ==
    server.running =>
        \A i \in DOMAIN channel :
            channel[i].kind = "started" /\ channel[i].turn = server.turn =>
                i = Len(channel) /\ announced # server.turn /\ server.started

StartIsUnsaid == server.running /\ ~server.started => announced # server.turn

\* A task completes a turn that has ended, or one of which the router knows nothing.
FinishIsOver == \A a \in Actors : actor[a].pc = "finish" => Over(actor[a].turn) \/ Missed

\* A turn that runs and was announced is current, and no latch is armed for it.
Followed ==
    server.running /\ announced = server.turn =>
        current = announced /\ channel = <<>> /\ latch.turn # server.turn

Tracked == EndsAreOver /\ StartIsLast /\ StartIsUnsaid /\ FinishIsOver /\ Followed

TrackInv == Bounded /\ (excused \/ Tracked)

\* The numbers that the invariant compares
LEMMA TurnNumbers ==
    ASSUME IInv
    PROVE  /\ server.turn \in Nat /\ current \in Nat /\ announced \in Nat /\ latch.turn \in Nat
           /\ \A a \in Actors : actor[a].turn \in Nat
           /\ channel \in Seq(Notification) /\ \A i \in DOMAIN channel : channel[i].turn \in Nat
           /\ server.running => server.turn # 0 /\ server.owes = {}
           /\ server \in AppServer
<1>1. /\ server \in AppServer /\ channel \in Seq(Notification) /\ latch \in Latch
      /\ actor \in [Actors -> Task] /\ TokenBudget /\ MiscOK
  BY Zenon DEF IInv, ServerInv, TimerInv, TaskInv
<1>2. \A n \in 0..MaxTurns : n \in Nat
  BY SMT
<1>3. server.turn \in Nat
  BY <1>1, <1>2, ServerFields, Zenon
<1>4. current \in Nat /\ announced \in Nat
  BY <1>1, <1>2, Zenon DEF MiscOK
<1>5. latch.turn \in Nat
  <2>1. latch.turn \in 0..MaxTurns
    BY <1>1, Zenon DEF Latch
  <2> QED
    BY <1>2, <2>1
<1>6. ASSUME NEW a \in Actors PROVE actor[a].turn \in Nat
  <2>1. actor[a] \in Task
    BY <1>1, Zenon
  <2> QED
    BY <1>2, <2>1, TaskFields, Zenon
<1>7. ASSUME NEW i \in DOMAIN channel PROVE channel[i].turn \in Nat
  <2>1. channel[i] \in Notification
    BY <1>1, SMT
  <2> QED
    BY <1>2, <2>1, NotificationFields, Zenon
<1>8. server.running => server.turn # 0 /\ server.owes = {}
  BY <1>1, Zenon DEF TokenBudget
<1> QED
  BY <1>1, <1>3, <1>4, <1>5, <1>6, <1>7, <1>8

\* Between turns there is nothing to follow.
LEMMA NoTurnRuns ==
    ASSUME Bounded', ~server'.running
    PROVE  Tracked'
<1>1. \A t : Seen(t)' => Over(t)'
  BY Zenon DEF Over
<1>2. EndsAreOver' /\ FinishIsOver'
  BY <1>1, Zenon DEF Bounded, EndsAreOver, FinishIsOver
<1> QED
  BY <1>2, Zenon DEF Tracked, StartIsLast, StartIsUnsaid, Followed

\* The tasks that take a step do not set out to complete a turn, and have none
\* but the current one.
NoFinish ==
    \A b \in Actors :
        /\ actor'[b].turn \in {0, actor[b].turn, current}
        /\ actor'[b].pc = "finish" => actor'[b] = actor[b]

\* The app-server and the channel are left alone.
LEMMA TrackQuiet ==
    ASSUME IInv, TrackInv, NoFinish, server' = server, channel' = channel,
           announced' \in {announced, 0}, excused => excused',
           latch'.turn \in {0, latch.turn}, Seen(current'),
           ~excused' /\ server.running /\ announced' = server.turn => current' = announced'
    PROVE  TrackInv'
<1>1. /\ server.turn \in Nat /\ announced \in Nat /\ Seen(0)
      /\ server.running => server.turn # 0
  BY TurnNumbers, SMT DEF Seen
<1>2. \A t : (Seen(t)' <=> Seen(t)) /\ (Over(t)' <=> Over(t))
  BY Zenon DEF Seen, Over
<1>3. Bounded'
  <2>1. Seen(current') /\ Seen(announced') /\ Seen(latch'.turn)
    BY <1>1, Zenon DEF TrackInv, Bounded
  <2>2. ASSUME NEW a \in Actors PROVE Seen(actor'[a].turn)
    BY <1>1, Zenon DEF TrackInv, Bounded, NoFinish
  <2>3. \A i \in DOMAIN channel' : Seen(channel'[i].turn)
    BY Zenon DEF TrackInv, Bounded
  <2> QED
    BY <1>2, <2>1, <2>2, <2>3, Zenon DEF Bounded
<1>4. ASSUME ~excused' PROVE Tracked'
  <2>0. Tracked
    BY <1>4, Zenon DEF TrackInv
  <2>1. EndsAreOver'
    BY <1>2, <2>0, Zenon DEF Tracked, EndsAreOver
  <2>2. StartIsLast' /\ StartIsUnsaid'
    BY <1>1, <2>0, Zenon DEF Tracked, StartIsLast, StartIsUnsaid
  <2>3. Missed => Missed'
    <3>1. announced # server.turn => announced' # server.turn
      <4>1. announced # server.turn => server.turn # 0
        BY <1>1, SMT DEF TrackInv, Bounded, Seen
      <4> QED
        BY <4>1, Zenon
    <3> QED
      BY <3>1, Zenon DEF Missed
  <2>4. FinishIsOver'
    BY <1>2, <2>0, <2>3, Zenon DEF Tracked, FinishIsOver, NoFinish
  <2>5. Followed'
    <3> SUFFICES ASSUME server.running, announced' = server.turn
                 PROVE  current' = announced' /\ channel = <<>> /\ latch'.turn # server.turn
      BY Zenon DEF Followed
    <3>1. announced = server.turn /\ server.turn # 0
      BY <1>1, Zenon
    <3> QED
      BY <1>4, <2>0, <3>1, Zenon DEF Tracked, Followed
  <2> QED
    BY <2>1, <2>2, <2>4, <2>5, Zenon DEF Tracked
<1> QED
  BY <1>3, <1>4, Zenon DEF TrackInv

\* The router takes a notification.
LEMMA TrackReceive ==
    ASSUME IInv, TrackInv, channel # <<>>, channel' = Tail(channel), server' = server,
           excused' = excused, Seen(current'), Seen(latch'.turn),
           \A b \in Actors : /\ Seen(actor'[b].turn)
                             /\ actor'[b].pc = "finish" => \/ actor'[b] = actor[b]
                                                           \/ excused \/ Over(actor'[b].turn),
           \/ announced' = announced
           \/ /\ Head(channel).kind = "started" /\ latch'.turn = 0
              /\ announced' = Head(channel).turn /\ current' = Head(channel).turn
    PROVE  TrackInv'
<1>1. /\ server.turn \in Nat /\ channel \in Seq(Notification)
      /\ server.running => server.turn # 0
  BY TurnNumbers, Zenon
<1>2. \A t : (Seen(t)' <=> Seen(t)) /\ (Over(t)' <=> Over(t))
  BY Zenon DEF Seen, Over
<1>3. /\ 1 \in DOMAIN channel /\ Head(channel) = channel[1] /\ Len(channel) \in Nat
      /\ Len(channel') = Len(channel) - 1
      /\ \A i \in DOMAIN channel' : i \in Nat /\ i + 1 \in DOMAIN channel
                                    /\ channel'[i] = channel[i + 1] /\ i + 1 # 1
  BY <1>1, SMT
<1>4. Bounded'
  <2>1. Seen(announced')
    BY <1>3, Zenon DEF TrackInv, Bounded
  <2>2. \A i \in DOMAIN channel' : Seen(channel'[i].turn)
    BY <1>3, Zenon DEF TrackInv, Bounded
  <2> QED
    BY <1>2, <2>1, <2>2, Zenon DEF Bounded
<1>5. ASSUME ~excused PROVE Tracked'
  <2>0. Tracked
    BY <1>5, Zenon DEF TrackInv
  <2>1. EndsAreOver'
    BY <1>2, <1>3, <2>0, Zenon DEF Tracked, EndsAreOver
  <2>n. announced # announced' /\ server.running /\ announced' = server.turn =>
          Len(channel) = 1 /\ server.started
    BY <1>3, <2>0, Zenon DEF Tracked, StartIsLast
  <2>2. StartIsLast'
    <3> SUFFICES ASSUME server.running, NEW i \in DOMAIN channel', channel'[i].kind = "started",
                        channel'[i].turn = server.turn
                 PROVE  i = Len(channel') /\ announced' # server.turn /\ server.started
      BY Zenon DEF StartIsLast
    <3>1. i + 1 = Len(channel) /\ announced # server.turn /\ server.started
      <4>1. PICK j \in DOMAIN channel : j = i + 1 /\ channel'[i] = channel[j]
        BY <1>3, Zenon
      <4>2. channel[j].kind = "started" /\ channel[j].turn = server.turn
        BY <4>1, Zenon
      <4> QED
        BY <2>0, <4>1, <4>2, Zenon DEF Tracked, StartIsLast
    <3>2. Len(channel) # 1
      BY <1>3, <3>1, SMT
    <3> QED
      BY <1>3, <2>n, <3>1, <3>2, SMT
  <2>3. StartIsUnsaid'
    BY <2>0, <2>n, Zenon DEF Tracked, StartIsUnsaid
  <2>4. Missed => Missed'
    <3> SUFFICES ASSUME Missed PROVE Missed'
      OBVIOUS
    <3>1. ASSUME NEW i \in DOMAIN channel', channel'[i].kind = "started"
          PROVE  channel'[i].turn # server.turn
      <4>1. PICK j \in DOMAIN channel : channel'[i] = channel[j]
        BY <1>3, Zenon
      <4> QED
        BY <3>1, <4>1, Zenon DEF Missed
    <3>2. announced' # server.turn
      BY <1>3, Zenon DEF Missed
    <3> QED
      BY <3>1, <3>2, Zenon DEF Missed
  <2>5. FinishIsOver'
    BY <1>2, <1>5, <2>0, <2>4, Zenon DEF Tracked, FinishIsOver
  <2>6. Followed'
    <3> SUFFICES ASSUME server.running, announced' = server.turn
                 PROVE  current' = announced' /\ channel' = <<>> /\ latch'.turn # server.turn
      BY Zenon DEF Followed
    <3>1. announced # server.turn
      BY <2>0, Zenon DEF Tracked, Followed
    <3>2. channel' = <<>>
      <4>1. Len(channel) = 1
        BY <2>n, <3>1
      <4> QED
        BY <1>1, <4>1, SMT
    <3> QED
      BY <1>1, <3>1, <3>2, Zenon
  <2> QED
    BY <2>1, <2>2, <2>3, <2>5, <2>6, Zenon DEF Tracked
<1> QED
  BY <1>4, <1>5, Zenon DEF TrackInv

\* A turn starts: all that is known is about turns that are over.
LEMMA TrackNewTurn ==
    ASSUME IInv, TrackInv, server' = NewTurn,
           UNCHANGED <<channel, current, announced, latch, excused>>,
           \A b \in Actors :
               \/ actor'[b] = actor[b]
               \/ actor'[b].pc # "finish" /\ actor'[b].turn = server.turn + 1
    PROVE  TrackInv'
<1>1. /\ channel' = channel /\ current' = current /\ announced' = announced /\ latch' = latch
  OBVIOUS
<1>2. server'.turn = server.turn + 1 /\ ~server'.started
  BY SMT DEF NewTurn
<1>3. ASSUME NEW t \in Nat, Seen(t) PROVE t <= server'.turn /\ t # server'.turn
  <2>1. t <= server.turn /\ server.turn \in Nat
    BY <1>3, TurnNumbers, Zenon DEF Seen
  <2> QED
    BY <1>2, <2>1, SMT
<1>4. server.turn + 1 <= server'.turn
  BY <1>2, TurnNumbers, SMT
<1>5. \A i \in DOMAIN channel : channel[i].turn <= server'.turn /\ channel[i].turn # server'.turn
  BY <1>3, TurnNumbers, Zenon DEF TrackInv, Bounded
<1>6. ASSUME NEW b \in Actors
      PROVE  /\ actor'[b].turn <= server'.turn
             /\ actor'[b].pc = "finish" => actor'[b].turn # server'.turn
  <2>1. CASE actor'[b] = actor[b]
    <3>1. actor[b].turn \in Nat /\ Seen(actor[b].turn)
      BY TurnNumbers, Zenon DEF TrackInv, Bounded
    <3> QED
      BY <1>3, <2>1, <3>1, Zenon
  <2>2. CASE actor'[b].pc # "finish" /\ actor'[b].turn = server.turn + 1
    BY <1>4, <2>2, Zenon
  <2> QED
    BY <2>1, <2>2
<1>7. Bounded' /\ announced # server'.turn
  <2>1. /\ current <= server'.turn /\ announced <= server'.turn /\ latch.turn <= server'.turn
        /\ announced # server'.turn
    <3>1. /\ current \in Nat /\ announced \in Nat /\ latch.turn \in Nat
          /\ Seen(current) /\ Seen(announced) /\ Seen(latch.turn)
      BY TurnNumbers, Zenon DEF TrackInv, Bounded
    <3> QED
      BY <1>3, <3>1, Zenon
  <2> QED
    BY <1>1, <1>5, <1>6, <2>1, Zenon DEF Bounded, Seen
<1>8. EndsAreOver' /\ StartIsLast' /\ StartIsUnsaid' /\ FinishIsOver' /\ Followed'
  <2>1. EndsAreOver' /\ FinishIsOver'
    BY <1>1, <1>5, <1>6, Zenon DEF EndsAreOver, FinishIsOver, Over, Seen
  <2>2. StartIsLast'
    BY <1>1, <1>5, Zenon DEF StartIsLast
  <2> QED
    BY <1>1, <1>7, <2>1, <2>2, Zenon DEF StartIsUnsaid, Followed
<1> QED
  BY <1>7, <1>8, Zenon DEF TrackInv, Tracked

\* The turn has ended, or ends.
LEMMA TrackEnded ==
    ASSUME IInv, TrackInv, server'.turn = server.turn, ~server'.running,
           UNCHANGED <<current, announced>>, latch'.turn \in {0, latch.turn, current},
           \/ channel' = channel
           \/ \E e \in Notification : channel' = Append(channel, e) /\ e.turn = server.turn,
           \A b \in Actors : actor'[b].turn = actor[b].turn
    PROVE  TrackInv'
<1>1. Seen(0) /\ Seen(server.turn) /\ \A t : Seen(t)' <=> Seen(t)
  <2>1. 0 <= server.turn /\ server.turn <= server.turn
    BY TurnNumbers, SMT
  <2> QED
    BY <2>1, Zenon DEF Seen
<1>2. \A i \in DOMAIN channel' : Seen(channel'[i].turn)
  <2>1. CASE channel' = channel
    BY <2>1, Zenon DEF TrackInv, Bounded
  <2>2. CASE \E e \in Notification : channel' = Append(channel, e) /\ e.turn = server.turn
    <3>1. PICK e \in Notification : channel' = Append(channel, e) /\ e.turn = server.turn
      BY <2>2
    <3>2. \A i \in DOMAIN channel' : (i \in DOMAIN channel /\ channel'[i] = channel[i])
                                     \/ channel'[i] = e
      BY <3>1, TurnNumbers, SMT
    <3> QED
      BY <1>1, <3>1, <3>2, Zenon DEF TrackInv, Bounded
  <2> QED
    BY <2>1, <2>2
<1>3. Bounded'
  BY <1>1, <1>2, Zenon DEF TrackInv, Bounded
<1> QED
  BY <1>3, NoTurnRuns DEF TrackInv

\* The start of the turn is said.
LEMMA TrackSayStarted == ASSUME IInv, TrackInv, SayStarted PROVE TrackInv'
<1>0. /\ server.running /\ ~server.started /\ server' = [server EXCEPT !.started = TRUE]
      /\ channel' = Append(channel, Event("started")) /\ actor' = actor
      /\ current' = current /\ announced' = announced /\ latch' = latch /\ excused' = excused
  BY Zenon DEF SayStarted, runtimeVars
<1>1. /\ server'.turn = server.turn /\ server'.running = server.running /\ server'.started
  BY <1>0, TurnNumbers, Zenon DEF AppServer
<1>2. Seen(server.turn) /\ \A t : (Seen(t)' <=> Seen(t)) /\ (Over(t)' <=> Over(t))
  <2>1. server.turn <= server.turn
    BY TurnNumbers, SMT
  <2> QED
    BY <1>1, <2>1, Zenon DEF Seen, Over
<1>3. PICK e : e = Event("started")
  OBVIOUS
<1>4. e.kind = "started" /\ e.turn = server.turn
  BY <1>3, Zenon DEF Event
<1>5. /\ \A i \in DOMAIN channel' : \/ i \in DOMAIN channel /\ channel'[i] = channel[i]
                                    \/ i = Len(channel') /\ channel'[i] = e
  BY <1>0, <1>3, TurnNumbers, SMT
<1>6. Bounded'
  <2>1. \A i \in DOMAIN channel' : Seen(channel'[i].turn)
    BY <1>2, <1>4, <1>5, Zenon DEF TrackInv, Bounded
  <2> QED
    BY <1>0, <1>2, <2>1, Zenon DEF TrackInv, Bounded
<1>7. ASSUME ~excused PROVE Tracked'
  <2>0. Tracked
    BY <1>7, Zenon DEF TrackInv
  <2>1. EndsAreOver'
    BY <1>2, <1>4, <1>5, <2>0, Zenon DEF Tracked, EndsAreOver
  <2>2. announced # server.turn
    BY <1>0, <2>0, Zenon DEF Tracked, StartIsUnsaid
  <2>3. StartIsLast'
    <3>1. ASSUME NEW i \in DOMAIN channel, channel[i].kind = "started",
                 channel[i].turn = server.turn
          PROVE  FALSE
      BY <1>0, <2>0, <3>1, Zenon DEF Tracked, StartIsLast
    <3> QED
      BY <1>0, <1>1, <1>5, <2>2, <3>1, Zenon DEF StartIsLast
  <2>4. FinishIsOver'
    BY <1>0, <1>2, <2>0, Zenon DEF Tracked, FinishIsOver, Missed
  <2>5. StartIsUnsaid' /\ Followed'
    BY <1>0, <1>1, <2>2, Zenon DEF StartIsUnsaid, Followed
  <2> QED
    BY <2>1, <2>3, <2>4, <2>5, Zenon DEF Tracked
<1> QED
  BY <1>0, <1>6, <1>7, Zenon DEF TrackInv

LEMMA NoFinishSame == ASSUME actor' = actor PROVE NoFinish
BY Zenon DEF NoFinish

LEMMA NoFinishTask ==
    ASSUME TaskInv, NEW a \in Actors, NEW r, r.pc # "finish",
           r.turn \in {0, actor[a].turn, current}, actor' = [actor EXCEPT ![a] = r]
    PROVE  NoFinish
<1>1. actor'[a] = r /\ \A b \in Actors : b # a => actor'[b] = actor[b]
  BY Zenon DEF TaskInv
<1> QED
  BY <1>1, Zenon DEF NoFinish

\* A task that goes on at p, or that starts anew there
LEMMA NoFinishMove ==
    ASSUME TaskInv, NEW a \in Actors, NEW p \in Pc, p # "finish",
           \/ actor' = [actor EXCEPT ![a] = At(actor[a], p)]
           \/ actor' = [actor EXCEPT ![a] = Begin(p)]
           \/ actor' = [actor EXCEPT ![a] = Idle]
    PROVE  NoFinish
<1>1. CASE actor' = [actor EXCEPT ![a] = At(actor[a], p)]
  <2>1. actor[a] \in Task
    BY Zenon DEF TaskInv
  <2>2. At(actor[a], p).pc = p /\ At(actor[a], p).turn = actor[a].turn
    BY <2>1, AtTask
  <2> QED
    BY <1>1, <2>2, NoFinishTask, Zenon
<1>2. CASE actor' = [actor EXCEPT ![a] = Begin(p)]
  <2>1. Begin(p).pc = p /\ Begin(p).turn = Idle.turn
    BY IdleTask, BeginTask, Zenon DEF Begin, Task
  <2> QED
    BY <1>2, <2>1, IdleTask, NoFinishTask, Zenon
<1>3. CASE actor' = [actor EXCEPT ![a] = Idle]
  BY <1>3, IdleTask, NoFinishTask, Zenon
<1> QED
  BY <1>1, <1>2, <1>3

\* The tasks of a start
LEMMA StarterNoFinish == ASSUME IInv, NEW a \in Actors, Starter(a) PROVE NoFinish
<1>i. TaskInv /\ queue \in Seq(1..MaxItems) /\ actor[a] \in Task
  BY Zenon DEF IInv, QueueInv, TaskInv
<1>p. {"take", "clear", "mark", "await", "requeue", "lock"} \subseteq Pc \ {"finish"}
  BY Zenon DEF Pc
<1>2. ASSUME Lock(a) PROVE NoFinish
  <2>1. actor' = [actor EXCEPT ![a] = Begin("take")]
    BY <1>2, Zenon DEF Lock, Begin
  <2> QED
    BY <1>i, <1>p, <2>1, NoFinishMove
<1>3. ASSUME Take(a) PROVE NoFinish
  <2>1. \/ actor' = [actor EXCEPT ![a] = Idle]
        \/ queue # <<>> /\ actor' = [actor EXCEPT ![a] = Taking(Head(queue))]
    BY <1>3, Zenon DEF Take, Taking
  <2>2. CASE actor' = [actor EXCEPT ![a] = Idle]
    BY <1>i, <1>p, <2>2, NoFinishMove
  <2>3. CASE queue # <<>> /\ actor' = [actor EXCEPT ![a] = Taking(Head(queue))]
    <3>1. Taking(Head(queue)).pc = "route" /\ Taking(Head(queue)).turn = Idle.turn
      BY IdleTask, Zenon DEF Taking, Task
    <3> QED
      BY <1>i, <2>3, <3>1, IdleTask, NoFinishTask, Zenon
  <2> QED
    BY <2>1, <2>2, <2>3
<1>4. ASSUME NEW q \in {Refused(a), NoThread(a)}, actor' = [actor EXCEPT ![a] = q]
      PROVE  NoFinish
  <2>1. q \in {Idle, At(actor[a], "requeue"), Begin("clear")}
    BY Zenon DEF Refused, NoThread, At, Begin
  <2> QED
    BY <1>i, <1>p, <1>4, <2>1, NoFinishMove
<1>5. ASSUME Route(a) \/ Mark(a) PROVE NoFinish
  <2>1. \/ actor' = [actor EXCEPT ![a] = Refused(a)]
        \/ actor' = [actor EXCEPT ![a] = NoThread(a)]
        \/ actor' = [actor EXCEPT ![a] = At(actor[a], "mark")]
        \/ actor' = [actor EXCEPT ![a] = At(actor[a], "await")]
        \/ actor' = [actor EXCEPT ![a] = Idle]
        \/ actor' = [actor EXCEPT ![a] = Begin("take")]
    BY <1>5, Zenon DEF Route, Mark, At, Begin
  <2> QED
    BY <1>i, <1>p, <1>4, <2>1, NoFinishMove
<1>6. ASSUME Requeue(a) \/ ClearQueue(a) \/ Started(a) PROVE NoFinish
  <2>1. actor' = [actor EXCEPT ![a] = Idle]
    BY <1>6, Zenon DEF Requeue, ClearQueue, Started
  <2> QED
    BY <1>i, <1>p, <2>1, NoFinishMove
<1>7. ASSUME StartFailed(a) PROVE NoFinish
  <2>1. \/ actor' = [actor EXCEPT ![a] = Idle]
        \/ actor' = [actor EXCEPT ![a] = Begin("take")]
    BY <1>7, Zenon DEF StartFailed, Begin
  <2> QED
    BY <1>i, <1>p, <2>1, NoFinishMove
<1>8. ASSUME StartStale(a) PROVE NoFinish
  BY <1>4, <1>8, Zenon DEF StartStale
<1> QED
  BY <1>2, <1>3, <1>5, <1>6, <1>7, <1>8, Zenon DEF Starter

\* ... and the record of the turn
LEMMA TrackSame ==
    ASSUME IInv, TrackInv, NoFinish, excused => excused', latch'.turn \in {0, latch.turn},
           UNCHANGED <<server, channel, announced, current>>
    PROVE  TrackInv'
<1>1. Seen(current') /\ server' = server /\ channel' = channel /\ announced' = announced
  BY Zenon DEF TrackInv, Bounded
<1>2. ~excused' /\ server.running /\ announced' = server.turn => current' = announced'
  BY Zenon DEF TrackInv, Tracked, Followed
<1> QED
  BY <1>1, <1>2, TrackQuiet

\* The response of a start makes its turn the current one, if it runs.
LEMMA StartedTrack == ASSUME IInv, TrackInv, NEW a \in Actors, Started(a) PROVE TrackInv'
<1>0. /\ latch' = NoLatch /\ current' = actor[a].turn /\ announced' = announced
      /\ excused' = (excused \/ ~server.running \/ server.turn # actor[a].turn)
      /\ server' = server /\ channel' = channel
  BY Zenon DEF Started, MarkTurnStarted
<1>1. NoFinish
  BY StarterNoFinish DEF Starter
<1>2. Seen(current') /\ NoLatch.turn = 0
  BY <1>0, Zenon DEF TrackInv, Bounded, NoLatch
<1>3. (excused => excused') /\ (~excused' => server.turn = current')
  BY <1>0, Zenon
<1> QED
  BY <1>0, <1>1, <1>2, <1>3, TrackQuiet, Zenon

\* The binding goes with what was announced.
LEMMA ForgetTrack ==
    ASSUME IInv, TrackInv, NoFinish, UNCHANGED <<server, channel, excused>>, announced' = 0,
           current' \in {0, current}, latch'.turn \in {0, latch.turn}
    PROVE  TrackInv'
<1>1. Seen(current')
  <2>1. 0 <= server.turn
    BY TurnNumbers, SMT
  <2> QED
    BY <2>1, Zenon DEF TrackInv, Bounded, Seen
<1>2. server.running => server.turn # 0
  BY TurnNumbers
<1>3. /\ server' = server /\ channel' = channel /\ (excused => excused')
      /\ announced' \in {announced, 0}
      /\ ~excused' /\ server.running /\ announced' = server.turn => current' = announced'
  BY <1>2, Zenon
<1> QED
  BY <1>1, <1>3, TrackQuiet

LEMMA StaleTrack == ASSUME IInv, TrackInv, NEW a \in Actors, StartStale(a) PROVE TrackInv'
<1>0. /\ announced' = 0 /\ UNCHANGED <<server, channel, excused>> /\ UnbindRoutes
  BY Zenon DEF StartStale
<1>1. NoFinish
  BY StarterNoFinish DEF Starter
<1>2. current' \in {0, current} /\ (latch' = NoLatch \/ latch' = latch)
  BY <1>0, Zenon DEF UnbindRoutes
<1>3. latch'.turn \in {0, latch.turn}
  <2>1. NoLatch.turn = 0
    BY Zenon DEF NoLatch
  <2> QED
    BY <1>2, <2>1, Zenon
<1> QED
  BY <1>0, <1>1, <1>2, <1>3, ForgetTrack

LEMMA StarterTrack == ASSUME IInv, TrackInv, NEW a \in Actors, Starter(a) PROVE TrackInv'
<1>1. NoFinish
  BY StarterNoFinish
<1>2. CASE Lock(a) \/ Take(a) \/ Route(a) \/ Mark(a) \/ Requeue(a) \/ ClearQueue(a) \/ StartFailed(a)
  <2>1. server' = server /\ channel' = channel /\ current' = current /\ announced' = announced
        /\ latch' = latch
    BY <1>2, Zenon DEF Lock, Take, Route, Mark, Requeue, ClearQueue, StartFailed, runtimeVars
  <2>2. excused => excused'
    BY <1>2, Zenon DEF Lock, Take, Route, Mark, Requeue, ClearQueue, StartFailed, runtimeVars
  <2> QED
    BY <1>1, <2>1, <2>2, TrackSame, Zenon
<1> QED
  BY <1>2, StartedTrack, StaleTrack, Zenon DEF Starter

\* A turn is completed that is not the one that runs.
LEMMA CompletedTrack ==
    ASSUME IInv, TrackInv, NoFinish, NEW t, MarkTurnCompleted(t) \/ UNCHANGED <<current, latch>>,
           UNCHANGED <<server, channel, announced>>, excused => excused',
           ~excused' /\ server.running /\ announced = server.turn => t # server.turn
    PROVE  TrackInv'
<1>1. /\ current' \in {0, current} /\ (current' # current => current = t)
      /\ latch' = NoLatch \/ latch' = latch
  BY Zenon DEF MarkTurnCompleted
<1>2. latch'.turn \in {0, latch.turn}
  <2>1. NoLatch.turn = 0
    BY Zenon DEF NoLatch
  <2> QED
    BY <1>1, <2>1, Zenon
<1>3. Seen(current')
  <2>1. 0 <= server.turn
    BY TurnNumbers, SMT
  <2> QED
    BY <1>1, <2>1, Zenon DEF TrackInv, Bounded, Seen
<1>4. ASSUME ~excused', server.running, announced' = server.turn PROVE current' = announced'
  <2>1. current = announced /\ announced = server.turn
    BY <1>4, Zenon DEF TrackInv, Tracked, Followed
  <2> QED
    BY <1>1, <1>4, <2>1, Zenon
<1>5. server' = server /\ channel' = channel /\ announced' \in {announced, 0}
  OBVIOUS
<1> QED
  BY <1>2, <1>3, <1>4, <1>5, TrackQuiet

\* What a task completes that is about to has ended, or was never announced.
LEMMA FinishingIsOver ==
    ASSUME TrackInv, ~excused, NEW a \in Actors, actor[a].pc = "finish",
           server.running, announced = server.turn
    PROVE  actor[a].turn # server.turn
BY Zenon DEF TrackInv, Tracked, FinishIsOver, Over, Missed

LEMMA FinishTurnTrack == ASSUME IInv, TrackInv, NEW a \in Actors, FinishTurn(a) PROVE TrackInv'
<1>0. /\ \/ actor' = [actor EXCEPT ![a] = Idle]
         \/ actor' = [actor EXCEPT ![a] = At(actor[a], "lock")]
         \/ actor' = [actor EXCEPT ![a] = Noticing(actor[a], Completes(a))]
      /\ actor[a].pc = "finish"
      /\ MarkTurnCompleted(actor[a].turn) \/ UNCHANGED <<current, latch>>
      /\ UNCHANGED <<server, channel, announced>> /\ excused' = excused
  BY Zenon DEF FinishTurn, At, Noticing, Completes
<1>i. TaskInv /\ actor[a] \in Task /\ "lock" \in Pc
  BY Zenon DEF IInv, TaskInv, Pc
<1>1. NoFinish
  <2>1. Completes(a) \in BOOLEAN
    BY Zenon DEF Completes
  <2>2. /\ Noticing(actor[a], Completes(a)).pc = "notice"
        /\ Noticing(actor[a], Completes(a)).turn = actor[a].turn
    BY <1>i, <2>1, NoticingTask
  <2>3. CASE actor' = [actor EXCEPT ![a] = Noticing(actor[a], Completes(a))]
    BY <1>i, <2>2, <2>3, NoFinishTask, Zenon
  <2> QED
    BY <1>0, <1>i, <2>3, NoFinishMove
<1>2. ~excused' /\ server.running /\ announced = server.turn => actor[a].turn # server.turn
  BY <1>0, FinishingIsOver
<1>3. excused => excused'
  BY <1>0
<1> QED
  BY <1>0, <1>1, <1>2, <1>3, CompletedTrack

LEMMA TerminalNoticeTrack ==
    ASSUME IInv, TrackInv, NEW a \in Actors, TerminalNotice(a) PROVE TrackInv'
<1>0. /\ UNCHANGED <<server, channel, announced, current>> /\ latch' = latch /\ excused' = excused
      /\ \/ actor' = [actor EXCEPT ![a] = Idle]
         \/ actor' = [actor EXCEPT ![a] = At(actor[a], "lock")]
  BY Zenon DEF TerminalNotice, At
<1>1. TaskInv /\ "lock" \in Pc
  BY Zenon DEF IInv, Pc
<1>2. NoFinish
  BY <1>0, <1>1, NoFinishMove
<1>3. (excused => excused') /\ latch'.turn \in {0, latch.turn}
  BY <1>0, Zenon
<1> QED
  BY <1>0, <1>2, <1>3, TrackSame

LEMMA ActorTrack == ASSUME IInv, TrackInv, NEW a \in Actors, Actor(a) PROVE TrackInv'
BY FinishTurnTrack, TerminalNoticeTrack, StarterTrack DEF Actor

\* What the router takes from the channel
LEMMA HeadSeen ==
    ASSUME IInv, TrackInv, channel # <<>>
    PROVE  /\ Seen(Head(channel).turn) /\ Seen(0) /\ Head(channel) \in Notification
           /\ \A b \in Actors : Seen(actor[b].turn)
           /\ Seen(current) /\ Seen(latch.turn)
           /\ Head(channel).kind # "started" => excused \/ Over(Head(channel).turn)
<1>1. 1 \in DOMAIN channel /\ Head(channel) = channel[1] /\ Head(channel) \in Notification
  BY TurnNumbers, SMT
<1>2. Seen(0)
  BY TurnNumbers, SMT DEF Seen
<1> QED
  BY <1>1, <1>2, Zenon DEF TrackInv, Bounded, Tracked, EndsAreOver

LEMMA HandleStartedTrack == ASSUME IInv, TrackInv, HandleStarted PROVE TrackInv'
<1>0. /\ channel # <<>> /\ channel' = Tail(channel) /\ Head(channel).kind = "started"
      /\ server' = server /\ excused' = excused /\ actor' = actor
  BY Zenon DEF HandleStarted, Received
<1>1. \/ /\ announced' = Head(channel).turn /\ current' = Head(channel).turn /\ latch' = NoLatch
      \/ announced' = announced /\ current' = current /\ latch' = latch
  BY Zenon DEF HandleStarted, MarkTurnStarted
<1>2. Seen(current') /\ Seen(latch'.turn) /\ (latch' = NoLatch => latch'.turn = 0)
  <2>1. NoLatch.turn = 0
    BY Zenon DEF NoLatch
  <2> QED
    BY <1>0, <1>1, <2>1, HeadSeen, Zenon
<1>3. \A b \in Actors : Seen(actor'[b].turn) /\ actor'[b] = actor[b]
  BY <1>0, HeadSeen, Zenon
<1> QED
  BY <1>0, <1>1, <1>2, <1>3, TrackReceive

LEMMA HandleTerminalTrack == ASSUME IInv, TrackInv, HandleTerminal PROVE TrackInv'
<1>0. /\ channel # <<>> /\ channel' = Tail(channel) /\ Head(channel).kind # "started"
      /\ server' = server /\ excused' = excused /\ announced' = announced
  BY Zenon DEF HandleTerminal, Received
<1>1. /\ current' \in {0, current} /\ (latch' = NoLatch \/ latch' = latch)
      /\ \/ actor' = actor
         \/ actor' = [actor EXCEPT ![Router] = Finishing(Head(channel).turn, Head(channel).failed)]
  BY Zenon DEF HandleTerminal, MarkTurnCompleted, CancelTerminalStatusFallback, Finishing
<1>2. Seen(current') /\ Seen(latch'.turn)
  <2>1. NoLatch.turn = 0
    BY Zenon DEF NoLatch
  <2> QED
    BY <1>0, <1>1, <2>1, HeadSeen, Zenon
<1>3. ASSUME NEW b \in Actors
      PROVE  /\ Seen(actor'[b].turn)
             /\ actor'[b].pc = "finish" => \/ actor'[b] = actor[b] \/ excused \/ Over(actor'[b].turn)
  <2>1. CASE actor'[b] = actor[b]
    BY <1>0, <2>1, HeadSeen, Zenon
  <2>2. CASE actor'[b] = Finishing(Head(channel).turn, Head(channel).failed)
    <3>1. actor'[b].turn = Head(channel).turn
      <4>1. Head(channel).turn \in 0..MaxTurns /\ Head(channel).failed \in BOOLEAN
        BY <1>0, HeadSeen, NotificationFields
      <4> QED
        BY <2>2, <4>1, FinishingTask
    <3> QED
      BY <1>0, <3>1, HeadSeen, Zenon
  <2> QED
    BY <1>1, <2>1, <2>2, Zenon DEF IInv, TaskInv
<1> QED
  BY <1>0, <1>1, <1>2, <1>3, TrackReceive

LEMMA HandleStatusTrack == ASSUME IInv, TrackInv, HandleStatus PROVE TrackInv'
<1>0. /\ channel # <<>> /\ channel' = Tail(channel)
      /\ server' = server /\ excused' = excused /\ announced' = announced /\ current' = current
  BY Zenon DEF HandleStatus, Received
<1> DEFINE r == Timer(current, Head(channel).failed)
<1>1. \/ latch' = latch /\ actor' = actor
      \/ \E k : /\ latch' = Armed(current, k, TRUE, latch.server)
                /\ actor' = [actor EXCEPT ![k] = r]
  BY Zenon DEF HandleStatus, Timer, Armed
<1>2. r.pc = "asleep" /\ r.turn = current
  BY <1>0, HeadSeen, NotificationFields, TimerTask, Zenon DEF IInv, MiscOK
<1>3. latch'.turn \in {latch.turn, current}
  <2>1. \A k : Armed(current, k, TRUE, latch.server).turn = current
    BY SMT DEF Armed
  <2> QED
    BY <1>1, <2>1, Zenon
<1>4. Seen(current') /\ Seen(latch'.turn)
  BY <1>0, <1>3, HeadSeen, Zenon
<1>5. ASSUME NEW b \in Actors
      PROVE  Seen(actor'[b].turn) /\ (actor'[b].pc = "finish" => actor'[b] = actor[b])
  <2>1. CASE actor'[b] = actor[b]
    BY <1>0, <2>1, HeadSeen, Zenon
  <2>2. CASE actor'[b] = r
    BY <1>0, <1>2, <2>2, HeadSeen, Zenon
  <2> QED
    BY <1>1, <2>1, <2>2, Zenon DEF IInv, TaskInv
<1> HIDE DEF r
<1> QED
  BY <1>0, <1>4, <1>5, TrackReceive

LEMMA RouterTrack == ASSUME IInv, TrackInv, RouterStep PROVE TrackInv'
BY HandleStartedTrack, HandleTerminalTrack, HandleStatusTrack, ActorTrack, ActorNumbers
   DEF RouterStep

\* The IM side's timer claims the latch of the current turn, and the router has
\* received all that was said.
LEMMA FireTrack ==
    ASSUME "slow" \notin Faults, IInv, TrackInv, NEW k \in Tokens, Fire(k) PROVE TrackInv'
<1>0. /\ UNCHANGED <<server, channel, announced, current, excused>> /\ actor[k].pc = "asleep"
      /\ CaughtUp
  BY Zenon DEF Fire, MayFire
<1>i. TaskInv /\ k \in Actors /\ actor[k] \in Task /\ "finish" \in Pc /\ "lock" \in Pc
  BY ActorNumbers, Zenon DEF IInv, TaskInv, Pc
<1>1. CASE latch' = latch /\ actor' = [actor EXCEPT ![k] = Idle]
  <2>1. NoFinish
    BY <1>1, <1>i, NoFinishMove
  <2> QED
    BY <1>0, <1>1, <2>1, TrackSame, Zenon
<1>2. CASE /\ latch' = NoLatch /\ actor' = [actor EXCEPT ![k] = At(actor[k], "finish")]
           /\ latch.turn = actor[k].turn
  <2>1. /\ actor'[k].turn = actor[k].turn /\ \A b \in Actors : b # k => actor'[b] = actor[b]
    BY <1>2, <1>i, AtTask, Zenon DEF TaskInv
  <2>2. \A t : (Seen(t)' <=> Seen(t)) /\ (Over(t)' <=> Over(t)) /\ (Missed' <=> Missed)
    BY <1>0, Zenon DEF Seen, Over, Missed
  <2>3. Seen(0) /\ NoLatch.turn = 0
    BY TurnNumbers, SMT DEF Seen, NoLatch
  <2>4. Bounded'
    <3>1. /\ Seen(current') /\ Seen(announced') /\ Seen(latch'.turn)
          /\ \A i \in DOMAIN channel' : Seen(channel'[i].turn)
      BY <1>0, <1>2, <2>3, Zenon DEF TrackInv, Bounded
    <3>2. ASSUME NEW b \in Actors PROVE Seen(actor'[b].turn)
      BY <2>1, Zenon DEF TrackInv, Bounded
    <3> QED
      BY <2>2, <3>1, <3>2, Zenon DEF Bounded
  <2>5. ASSUME ~excused PROVE Tracked'
    <3>0. Tracked
      BY <2>5, Zenon DEF TrackInv
    <3>1. EndsAreOver' /\ StartIsLast' /\ StartIsUnsaid'
      BY <1>0, <2>2, <3>0, Zenon DEF Tracked, EndsAreOver, StartIsLast, StartIsUnsaid
    <3>2. Over(actor[k].turn) \/ Missed
      <4>1. Seen(actor[k].turn) /\ channel = <<>> /\ server.started
        BY <1>0, <1>i, Zenon DEF TrackInv, Bounded, CaughtUp
      <4>2. actor[k].turn = server.turn /\ server.running => announced # server.turn
        BY <1>2, <3>0, Zenon DEF Tracked, Followed
      <4>3. \A i : i \notin DOMAIN channel
        BY <4>1, SMT
      <4> QED
        BY <4>1, <4>2, <4>3, Zenon DEF Over, Missed
    <3>3. FinishIsOver'
      BY <2>1, <2>2, <3>0, <3>2, Zenon DEF Tracked, FinishIsOver
    <3>4. Followed'
      <4>1. server.running => server.turn # 0
        BY TurnNumbers
      <4> QED
        BY <1>0, <1>2, <2>3, <3>0, <4>1, Zenon DEF Tracked, Followed
    <3> QED
      BY <3>1, <3>3, <3>4, Zenon DEF Tracked
  <2> QED
    BY <1>0, <2>4, <2>5, Zenon DEF TrackInv
<1> QED
  BY <1>1, <1>2, Zenon DEF Fire, At, ClaimTerminalStatusFallback

\* The server side's timer ends what would strand the queue, and says so.
LEMMA OrphanTrack ==
    ASSUME IInv, TrackInv, NEW k, NEW t, OrphanCleanup(k, t) PROVE TrackInv'
<1>0. /\ UNCHANGED <<server, channel, announced>> /\ actor' = actor
      /\ \/ MarkTurnCompleted(t) /\ excused' = TRUE
         \/ UNCHANGED <<current, latch, excused>>
  BY Zenon DEF OrphanCleanup
<1>1. NoFinish
  BY <1>0, NoFinishSame
<1>2. CASE MarkTurnCompleted(t) /\ excused' = TRUE
  BY <1>0, <1>1, <1>2, CompletedTrack
<1>3. CASE UNCHANGED <<current, latch, excused>>
  <2>1. latch'.turn \in {0, latch.turn} /\ (excused => excused')
    BY <1>3, Zenon
  <2> QED
    BY <1>0, <1>1, <1>3, <2>1, TrackSame
<1> QED
  BY <1>0, <1>2, <1>3

\* The app-server
LEMMA EndedFields ==
    ASSUME server \in AppServer, NEW failed, NEW s
    PROVE  Ended(failed, s).turn = server.turn /\ Ended(failed, s).running = FALSE
BY Zenon DEF AppServer, Ended

LEMMA EndTurnTrack == ASSUME IInv, TrackInv, EndTurn PROVE TrackInv'
<1>0. /\ channel' = channel /\ actor' = actor /\ UNCHANGED <<current, announced>> /\ latch' = latch
      /\ \E failed, s : server' = Ended(failed, s)
  BY Zenon DEF EndTurn, runtimeVars, Ended
<1>1. server'.turn = server.turn /\ ~server'.running
  BY <1>0, EndedFields, TurnNumbers, Zenon
<1>2. \A b \in Actors : actor'[b].turn = actor[b].turn
  BY <1>0, Zenon
<1> QED
  BY <1>0, <1>1, <1>2, TrackEnded, Zenon

LEMMA SayTerminalTrack ==
    ASSUME IInv, TrackInv, NEW kind \in {"error", "completed"}, SayTerminal(kind) PROVE TrackInv'
<1>0. /\ kind \in server.owes /\ server' = Less(kind) /\ channel' = Append(channel, Event(kind))
      /\ UNCHANGED <<current, announced>> /\ actor' = actor
      /\ latch' = NoLatch \/ latch' = latch
  BY Zenon DEF SayTerminal, Less, CancelTerminalStatusFallback
<1>1. server'.turn = server.turn /\ ~server'.running
  BY <1>0, LessFields, TurnNumbers, Zenon
<1>2. Event(kind) \in Notification /\ Event(kind).turn = server.turn
  <2>1. kind \in Kind /\ server.owes # {}
    BY <1>0, Zenon DEF Kind
  <2>2. Event(kind) \in Notification
    BY <2>1, EventType, Zenon DEF IInv
  <2> QED
    BY <2>2, Zenon DEF Event
<1>3. latch'.turn \in {0, latch.turn, current}
  <2>1. NoLatch.turn = 0
    BY Zenon DEF NoLatch
  <2> QED
    BY <1>0, <2>1, Zenon
<1>4. \A b \in Actors : actor'[b].turn = actor[b].turn
  BY <1>0, Zenon
<1> QED
  BY <1>0, <1>1, <1>2, <1>3, <1>4, TrackEnded, Zenon

LEMMA SayStatusTrack == ASSUME IInv, TrackInv, SayStatus PROVE TrackInv'
<1>0. /\ "status" \in server.owes /\ server' = Less("status")
      /\ channel' = Append(channel, Event("status"))
      /\ UNCHANGED <<current, announced>> /\ actor' = actor
      /\ \/ latch' = latch
         \/ latch' = [latch EXCEPT !.server = TRUE]
         \/ latch' = Armed(current, token + 1, FALSE, TRUE)
  BY Zenon DEF SayStatus, Less, Armed
<1>1. server'.turn = server.turn /\ ~server'.running
  BY <1>0, LessFields, TurnNumbers, Zenon
<1>2. Event("status") \in Notification /\ Event("status").turn = server.turn
  <2>1. "status" \in Kind /\ server.owes # {}
    BY <1>0, Zenon DEF Kind
  <2>2. Event("status") \in Notification
    BY <2>1, EventType, Zenon DEF IInv
  <2> QED
    BY <2>2, Zenon DEF Event
<1>3. latch'.turn \in {0, latch.turn, current}
  <2>1. CASE latch' = [latch EXCEPT !.server = TRUE]
    BY <2>1, Zenon DEF IInv, TimerInv, Latch
  <2>2. CASE latch' = Armed(current, token + 1, FALSE, TRUE)
    <3>1. Armed(current, token + 1, FALSE, TRUE).turn = current
      BY SMT DEF Armed
    <3> QED
      BY <2>2, <3>1, Zenon
  <2> QED
    BY <1>0, <2>1, <2>2, Zenon
<1>4. \A b \in Actors : actor'[b].turn = actor[b].turn
  BY <1>0, Zenon
<1> QED
  BY <1>0, <1>1, <1>2, <1>3, <1>4, TrackEnded, Zenon

LEMMA ServerTrack == ASSUME IInv, TrackInv, ServerSays PROVE TrackInv'
BY EndTurnTrack, TrackSayStarted, SayTerminalTrack, SayStatusTrack, Zenon DEF ServerSays

LEMMA DesktopTurnTrack == ASSUME IInv, TrackInv, DesktopTurn PROVE TrackInv'
<1>1. /\ server' = NewTurn /\ UNCHANGED <<channel, current, announced, latch, excused>>
      /\ \A b \in Actors : actor'[b] = actor[b]
  BY Zenon DEF DesktopTurn, runtimeVars
<1> QED
  BY <1>1, TrackNewTurn, Zenon

LEMMA AcceptTrack == ASSUME IInv, TrackInv, NEW a \in Actors, Accept(a) PROVE TrackInv'
<1>0. /\ server' = NewTurn /\ UNCHANGED <<channel, current, announced, latch, excused>>
      /\ actor[a].pc = "await" /\ actor' = [actor EXCEPT ![a] = Answered(actor[a], server.turn + 1)]
  BY Zenon DEF Accept, runtimeVars, Answered
<1>i. TaskInv /\ actor[a] \in Task
  BY Zenon DEF IInv, TaskInv
<1>1. /\ Answered(actor[a], server.turn + 1).pc = "await"
      /\ Answered(actor[a], server.turn + 1).turn = server.turn + 1
  BY <1>0, <1>i, Zenon DEF Answered, Task
<1>2. ASSUME NEW b \in Actors
      PROVE  \/ actor'[b] = actor[b]
             \/ actor'[b].pc # "finish" /\ actor'[b].turn = server.turn + 1
  BY <1>0, <1>1, <1>i, Zenon DEF TaskInv
<1> QED
  BY <1>0, <1>2, TrackNewTurn

\* What excuses the record leaves the bounds.
LEMMA LaggedTrack == ASSUME IInv, TrackInv, Lagged PROVE TrackInv'
<1>0. /\ channel # <<>> /\ channel' = Tail(channel) /\ excused' /\ server' = server
      /\ actor' = actor /\ current' = current /\ announced' = announced /\ latch' = latch
  BY Zenon DEF Lagged, runtimeVars
<1>1. ASSUME NEW i \in DOMAIN channel' PROVE Seen(channel'[i].turn)
  <2>1. PICK j \in DOMAIN channel : channel'[i] = channel[j]
    <3>1. i + 1 \in DOMAIN channel /\ channel'[i] = channel[i + 1]
      BY <1>0, TurnNumbers, SMT
    <3> QED
      BY <3>1
  <2> QED
    BY <2>1, Zenon DEF TrackInv, Bounded
<1> QED
  BY <1>0, <1>1, Zenon DEF TrackInv, Bounded, Seen

LEMMA RestartTrack == ASSUME IInv, TrackInv, RestartBridge PROVE TrackInv'
<1>0. /\ channel' = <<>> /\ excused' /\ server' = server /\ latch' = NoLatch
      /\ actor' = [actor EXCEPT ![Router] = Idle, ![Worker] = Idle]
      /\ current' = current /\ announced' = announced
  BY Zenon DEF RestartBridge
<1>1. \A i : i \notin DOMAIN channel'
  BY <1>0, SMT
<1>2. Seen(0) /\ NoLatch.turn = 0
  BY TurnNumbers, SMT DEF Seen, NoLatch
<1>3. ASSUME NEW b \in Actors PROVE Seen(actor'[b].turn)
  <2>1. actor'[b] \in {actor[b], Idle}
    <3>1. PICK f : f = [actor EXCEPT ![Router] = Idle]
      OBVIOUS
    <3>2. actor' = [f EXCEPT ![Worker] = Idle]
      BY <1>0, <3>1, Zenon
    <3>3. f \in [Actors -> Task] /\ f[b] \in {actor[b], Idle}
      BY <3>1, IdleTask, Zenon DEF IInv, TaskInv
    <3> QED
      BY <3>2, <3>3, Zenon
  <2> QED
    BY <1>2, <2>1, IdleTask, Zenon DEF TrackInv, Bounded
<1> QED
  BY <1>0, <1>1, <1>2, <1>3, Zenon DEF TrackInv, Bounded, Seen

\* The worker
LEMMA WorkerAtNoFinish ==
    ASSUME TaskInv, NEW p \in Pc, p # "finish", NEW t \in 0..MaxTurns, t \in {0, current},
           NEW o \in BOOLEAN, WorkerAt(p, t, o)
    PROVE  NoFinish
<1>1. actor' = [actor EXCEPT ![Worker] = Working(p, t, o)]
  BY Zenon DEF WorkerAt, Working
<1>2. Working(p, t, o).pc = p /\ Working(p, t, o).turn = t
  BY WorkingTask
<1> QED
  BY <1>1, <1>2, ActorNumbers, NoFinishTask, Zenon

\* Between messages the worker looks at the record, or goes about a turn.
LEMMA IdleWorkerTrack ==
    ASSUME IInv, TrackInv, Text \/ Enqueue \/ Stop \/ Exit \/ Bind \/ StopFails PROVE TrackInv'
<1>0. /\ UNCHANGED <<server, channel, announced, current>> /\ latch' = latch /\ excused' = excused
      /\ \/ actor' = actor
         \/ actor' = [actor EXCEPT ![Worker] = Idle]
         \/ WorkerAt("route", 0, FALSE)
         \/ WorkerAt("unbind", 0, FALSE)
         \/ WorkerAt("exit", current, FALSE)
         \/ WorkerAt("stop", current, MayClaimNotice(current, TRUE))
  <2>1. CASE Text \/ Enqueue \/ Bind \/ Stop
    BY <2>1, Zenon DEF Text, Enqueue, Bind, Stop, runtimeVars
  <2>2. CASE Exit \/ StopFails
    BY <2>2, Zenon DEF Exit, StopFails, Interrupt
  <2> QED
    BY <2>1, <2>2
<1>i. /\ TaskInv /\ Worker \in Actors /\ current \in 0..MaxTurns /\ 0 \in 0..MaxTurns
      /\ {"route", "unbind", "exit", "stop", "idle"} \subseteq Pc \ {"finish"}
      /\ FALSE \in BOOLEAN /\ MayClaimNotice(current, TRUE) \in BOOLEAN
  BY ActorNumbers, Numbers, Zenon DEF IInv, MiscOK, Pc, MayClaimNotice
<1>1. NoFinish
  <2>1. CASE actor' = actor
    BY <2>1, NoFinishSame
  <2>2. CASE actor' = [actor EXCEPT ![Worker] = Idle]
    BY <1>i, <2>2, NoFinishMove
  <2>3. CASE WorkerAt("route", 0, FALSE) \/ WorkerAt("unbind", 0, FALSE)
    BY <1>i, <2>3, WorkerAtNoFinish
  <2>4. CASE WorkerAt("exit", current, FALSE)
    BY <1>i, <2>4, WorkerAtNoFinish
  <2>5. CASE WorkerAt("stop", current, MayClaimNotice(current, TRUE))
    BY <1>i, <2>5, WorkerAtNoFinish
  <2> QED
    BY <1>0, <2>1, <2>2, <2>3, <2>4, <2>5
<1>2. (excused => excused') /\ latch'.turn \in {0, latch.turn}
  BY <1>0, Zenon
<1> QED
  BY <1>0, <1>1, <1>2, TrackSame

\* turn/interrupt ends the turn, or changes nothing.
LEMMA InterruptTrack ==
    ASSUME IInv, TrackInv, StopInterrupts \/ ExitInterrupts PROVE TrackInv'
<1>0. /\ channel' = channel /\ UNCHANGED <<current, announced>> /\ latch' = latch
      /\ excused' = excused
      /\ \/ StopInterrupts /\ actor' = [actor EXCEPT ![Worker] = At(actor[Worker], "finish")]
         \/ ExitInterrupts /\ actor' = [actor EXCEPT ![Worker] = At(actor[Worker], "leave")]
  BY Zenon DEF StopInterrupts, ExitInterrupts, runtimeVars, At
<1>i. /\ TaskInv /\ Worker \in Actors /\ actor[Worker] \in Task /\ "finish" \in Pc
      /\ "leave" \in Pc /\ "leave" # "finish"
  BY ActorNumbers, Zenon DEF IInv, TaskInv, Pc
<1>1. CASE \E failed, s : server' = Ended(failed, s)
  <2>1. server'.turn = server.turn /\ ~server'.running
    BY <1>1, EndedFields, TurnNumbers, Zenon
  <2>2. \A b \in Actors : actor'[b].turn = actor[b].turn
    <3>1. /\ At(actor[Worker], "finish").turn = actor[Worker].turn
          /\ At(actor[Worker], "leave").turn = actor[Worker].turn
      BY <1>i, AtTask
    <3> QED
      BY <1>0, <1>i, <3>1, Zenon DEF TaskInv
  <2> QED
    BY <1>0, <2>1, <2>2, TrackEnded, Zenon
<1>2. CASE ExitInterrupts /\ server' = server
  <2>1. NoFinish
    <3>1. actor' = [actor EXCEPT ![Worker] = At(actor[Worker], "leave")]
      BY <1>2, Zenon DEF ExitInterrupts, At
    <3> QED
      BY <1>i, <3>1, NoFinishMove
  <2>2. (excused => excused') /\ latch'.turn \in {0, latch.turn}
    BY <1>0, Zenon
  <2> QED
    BY <1>0, <1>2, <2>1, <2>2, TrackSame
<1>3. \/ \E failed, s : server' = Ended(failed, s)
      \/ ExitInterrupts /\ server' = server
  BY Zenon DEF StopInterrupts, ExitInterrupts, Interrupt, Ended
<1> QED
  BY <1>1, <1>2, <1>3

LEMMA StopFinishTrack == ASSUME IInv, TrackInv, StopFinish PROVE TrackInv'
<1>0. /\ UNCHANGED <<server, channel, announced>> /\ MarkTurnCompleted(actor[Worker].turn)
      /\ actor[Worker].pc = "finish" /\ (excused' = excused \/ excused' = TRUE)
      /\ \/ actor' = [actor EXCEPT ![Worker] = At(actor[Worker], "lock")]
         \/ actor' = [actor EXCEPT ![Worker] = Idle]
  BY Zenon DEF StopFinish, At
<1>1. NoFinish
  <2>1. TaskInv /\ Worker \in Actors /\ "lock" \in Pc
    BY ActorNumbers, Zenon DEF IInv, Pc
  <2> QED
    BY <1>0, <2>1, NoFinishMove
<1>2. excused => excused'
  BY <1>0
<1>3. ~excused' /\ server.running /\ announced = server.turn => actor[Worker].turn # server.turn
  BY <1>0, <1>2, FinishingIsOver, ActorNumbers
<1> QED
  BY <1>0, <1>1, <1>2, <1>3, CompletedTrack

\* /exit completes the turn, and unbinds the thread.
LEMMA ExitTrack == ASSUME IInv, TrackInv, ExitFinish \/ ExitUnbind PROVE TrackInv'
<1>0. /\ UNCHANGED <<server, channel, excused>> /\ announced' = 0
      /\ current' \in {0, current} /\ (latch' = NoLatch \/ latch' = latch)
      /\ \/ actor' = [actor EXCEPT ![Worker] = Begin("unbind")]
         \/ actor' = [actor EXCEPT ![Worker] = Idle]
  BY Zenon DEF ExitFinish, ExitUnbind, Begin, MarkTurnCompleted
<1>1. NoFinish
  <2>1. TaskInv /\ Worker \in Actors /\ "unbind" \in Pc /\ "unbind" # "finish"
    BY ActorNumbers, Zenon DEF IInv, Pc
  <2> QED
    BY <1>0, <2>1, NoFinishMove
<1>2. latch'.turn \in {0, latch.turn}
  <2>1. NoLatch.turn = 0
    BY Zenon DEF NoLatch
  <2> QED
    BY <1>0, <2>1, Zenon
<1> QED
  BY <1>0, <1>1, <1>2, ForgetTrack

LEMMA WorkerTrack == ASSUME IInv, TrackInv, WorkerStep PROVE TrackInv'
BY IdleWorkerTrack, InterruptTrack, StopFinishTrack, ExitTrack, ActorTrack, ActorNumbers
   DEF WorkerStep

LEMMA StutterTrack == ASSUME IInv, TrackInv, UNCHANGED vars PROVE TrackInv'
<1>1. /\ UNCHANGED <<server, channel, announced, current>> /\ latch' = latch /\ excused' = excused
      /\ actor' = actor
  BY Zenon DEF vars, runtimeVars
<1>2. (excused => excused') /\ latch'.turn \in {0, latch.turn}
  BY <1>1, Zenon
<1> QED
  BY <1>1, <1>2, NoFinishSame, TrackSame

LEMMA NextTrack ==
    ASSUME "slow" \notin Faults, IInv, TrackInv, [Next]_vars PROVE TrackInv'
<1>1. CASE \E k \in Tokens : TimerStep(k)
  BY <1>1, FireTrack, ActorTrack, ActorNumbers, Zenon DEF TimerStep
<1>2. CASE \E k \in Tokens, t \in Turns : OrphanCleanup(k, t)
  BY <1>2, OrphanTrack
<1>3. CASE \E a \in Actors : Accept(a)
  BY <1>3, AcceptTrack
<1>4. CASE Text \/ Enqueue \/ Stop \/ Exit \/ Bind
  BY <1>4, IdleWorkerTrack
<1> QED
  BY <1>1, <1>2, <1>3, <1>4, RouterTrack, WorkerTrack, ServerTrack, DesktopTurnTrack, LaggedTrack,
     RestartTrack, StutterTrack, Zenon DEF Next

\* A turn that the app-server runs, and whose turn/started the router has seen, is
\* the current turn of its thread: none of error, turn/completed, the two
\* fallbacks, /stop, /exit and the response of a start that belongs to another
\* turn completes or replaces it.  A timer must not fire while notifications that
\* were said before wait in the channel, and what `excused` records (a notification
\* lost, a restart, a response that is late or lost) must not have happened.
THEOREM TurnCorrect == ASSUME "slow" \notin Faults PROVE Spec => []TurnInv
<1>1. Init => TrackInv
  <2> SUFFICES ASSUME Init PROVE TrackInv
    OBVIOUS
  <2>1. /\ current = 0 /\ announced = 0 /\ latch.turn = 0 /\ channel = <<>>
        /\ server.turn = 0 /\ ~server.running /\ \A a \in Actors : actor[a] = Idle
    BY SMT DEF Init, NoLatch
  <2>2. \A i : i \notin DOMAIN channel
    BY <2>1, SMT
  <2>3. Seen(0)
    BY <2>1, SMT DEF Seen
  <2>4. Bounded
    BY <2>1, <2>2, <2>3, IdleTask, Zenon DEF Bounded
  <2>5. Tracked
    BY <2>1, <2>2, IdleTask, Zenon
       DEF Tracked, EndsAreOver, StartIsLast, StartIsUnsaid, FinishIsOver, Followed
  <2> QED
    BY <2>4, <2>5, Zenon DEF TrackInv
<1>2. IInv /\ TrackInv /\ [Next]_vars => TrackInv'
  BY NextTrack
<1>3. TrackInv => TurnIsTracked
  BY Zenon DEF TrackInv, Tracked, Followed, TurnIsTracked
<1> QED
  BY <1>1, <1>2, <1>3, InvCorrect, TypeCorrect, PTL DEF Spec, TurnInv
====
