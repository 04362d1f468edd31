----------------------- MODULE TelegramInboundProofs -----------------------
(***************************************************************************)
(* Proofs about TelegramInbound, for any number of conversations, messages *)
(* and workers and any capacity: order, exclusion and accounting.          *)
(***************************************************************************)
EXTENDS TelegramInbound, TLAPS

Increasing(s) == \A i, j \in 1..Len(s) : i < j => s[i] < s[j]

\* A worker that has not ended is the registered one of its conversation.
LiveRegistered ==
    \A w \in Workers :
        worker[w].phase # "gone" => inbound_workers[worker[w].conversation] = w

\* Ids are handed out in order, and an entry names a worker of its conversation.
EntriesStarted ==
    \A c \in Conversations :
        /\ inbound_workers[c] <= next_inbound_worker_id
        /\ inbound_workers[c] # 0 => worker[inbound_workers[c]].conversation = c

GoneIsEmpty == \A w \in Workers : worker[w].phase = "gone" => worker[w].queue = <<>>

\* A failed send met an ended worker on the first attempt, whose entry stays
\* until the dispatcher removes it; the second attempt finds no entry.
SecondAttempt ==
    /\ dispatcher.phase = "closed" =>
           /\ dispatcher.attempt = 0
           /\ inbound_workers[dispatcher.conversation] = dispatcher.worker
           /\ dispatcher.worker # 0
           /\ worker[dispatcher.worker].phase = "gone"
    /\ dispatcher.phase = "lookup" /\ dispatcher.attempt = 1 =>
           inbound_workers[dispatcher.conversation] = 0

\* The message that the dispatcher is placing; all others of its conversation
\* came before it.
Placing(c) == dispatcher.phase \in {"lookup", "closed"} /\ dispatcher.conversation = c

Placed(c, n) == n <= received[c] /\ (Placing(c) => n < received[c])

HandledOrdered(c) == Increasing(handled[c]) /\ \A n \in Elements(handled[c]) : Placed(c, n)

QueueOrdered(w, c) ==
    worker[w].conversation = c =>
        /\ Increasing(worker[w].queue)
        /\ \A n \in Elements(worker[w].queue) :
               Placed(c, n) /\ \A m \in Elements(handled[c]) : m < n

\* Handled messages come before queued ones, these before the one being placed.
Ordered ==
    \A c \in Conversations :
        /\ Placing(c) => dispatcher.n = received[c]
        /\ HandledOrdered(c)
        /\ \A w \in Workers : QueueOrdered(w, c)

WorkerInv == TypeOK /\ LiveRegistered /\ EntriesStarted /\ GoneIsEmpty /\ SecondAttempt

-----------------------------------------------------------------------------
(* Sequences *)

LEMMA ElementsOfAppend ==
    ASSUME NEW s \in Seq(Nat), NEW x \in Nat
    PROVE  /\ Append(s, x) \in Seq(Nat)
           /\ Len(Append(s, x)) = Len(s) + 1
           /\ Elements(Append(s, x)) = Elements(s) \cup {x}
<1>1. Append(s, x) \in Seq(Nat) /\ Len(Append(s, x)) = Len(s) + 1
  OBVIOUS
<1>2. \A i \in 1..Len(s) : Append(s, x)[i] = s[i]
  OBVIOUS
<1>3. Append(s, x)[Len(s) + 1] = x
  OBVIOUS
<1>4. 1..(Len(s) + 1) = (1..Len(s)) \cup {Len(s) + 1}
  OBVIOUS
<1> QED
  BY <1>1, <1>2, <1>3, <1>4 DEF Elements

LEMMA ElementsOfTail ==
    ASSUME NEW s \in Seq(Nat), s # <<>>
    PROVE  /\ Head(s) \in Nat
           /\ Tail(s) \in Seq(Nat)
           /\ Len(Tail(s)) = Len(s) - 1
           /\ Elements(s) = {Head(s)} \cup Elements(Tail(s))
<1>1. /\ Head(s) = s[1] /\ s[1] \in Nat /\ Len(s) \in Nat \ {0}
      /\ Tail(s) \in Seq(Nat) /\ Len(Tail(s)) = Len(s) - 1
  OBVIOUS
<1>2. \A i \in 1..(Len(s) - 1) : Tail(s)[i] = s[i + 1]
  OBVIOUS
<1>3. \A i \in 1..Len(s) : i = 1 \/ (i - 1 \in 1..(Len(s) - 1) /\ (i - 1) + 1 = i)
  BY <1>1
<1>4. \A i \in 1..(Len(s) - 1) : i + 1 \in 1..Len(s)
  BY <1>1
<1>5. ASSUME NEW y \in Elements(s) PROVE y \in {Head(s)} \cup Elements(Tail(s))
  <2>1. PICK i \in 1..Len(s) : y = s[i]
    BY <1>5 DEF Elements
  <2>2. CASE i = 1
    BY <2>1, <2>2, <1>1
  <2>3. CASE i - 1 \in 1..(Len(s) - 1) /\ (i - 1) + 1 = i
    <3>1. Tail(s)[i - 1] = s[i]
      BY <2>3, <1>2
    <3> QED
      BY <3>1, <2>1, <2>3, <1>1 DEF Elements
  <2> QED
    BY <2>2, <2>3, <1>3
<1>6. ASSUME NEW y \in {Head(s)} \cup Elements(Tail(s)) PROVE y \in Elements(s)
  <2>1. CASE y = Head(s)
    BY <2>1, <1>1 DEF Elements
  <2>2. CASE y \in Elements(Tail(s))
    <3>1. PICK i \in 1..(Len(s) - 1) : y = Tail(s)[i]
      BY <2>2, <1>1 DEF Elements
    <3> QED
      BY <3>1, <1>2, <1>4 DEF Elements
  <2> QED
    BY <1>6, <2>1, <2>2
<1> QED
  BY <1>1, <1>5, <1>6

LEMMA IncreasingAppend ==
    ASSUME NEW s \in Seq(Nat), NEW x \in Nat, Increasing(s), \A y \in Elements(s) : y < x
    PROVE  Increasing(Append(s, x))
<1>1. \A i \in 1..Len(s) : s[i] < x
  BY DEF Elements
<1> SUFFICES ASSUME NEW i \in 1..Len(s), NEW j \in 1..(Len(s) + 1), i < j
             PROVE  Append(s, x)[i] < Append(s, x)[j]
  BY DEF Increasing
<1>2. Append(s, x)[i] = s[i]
  OBVIOUS
<1>3. CASE j \in 1..Len(s)
  BY <1>2, <1>3 DEF Increasing
<1>4. CASE j = Len(s) + 1
  BY <1>1, <1>2, <1>4
<1> QED
  BY <1>3, <1>4

LEMMA IncreasingTail ==
    ASSUME NEW s \in Seq(Nat), s # <<>>, Increasing(s)
    PROVE  /\ Increasing(Tail(s))
           /\ \A y \in Elements(Tail(s)) : Head(s) < y
<1>1. /\ Head(s) = s[1] /\ Len(s) \in Nat \ {0}
      /\ Len(Tail(s)) = Len(s) - 1
  OBVIOUS
<1>2. \A i \in 1..(Len(s) - 1) : Tail(s)[i] = s[i + 1] /\ i + 1 \in 1..Len(s)
  OBVIOUS
<1>3. Increasing(Tail(s))
  <2> SUFFICES ASSUME NEW i \in 1..(Len(s) - 1), NEW j \in 1..(Len(s) - 1), i < j
               PROVE  s[i + 1] < s[j + 1]
    BY <1>1, <1>2 DEF Increasing
  <2> QED
    BY <1>2 DEF Increasing
<1>4. ASSUME NEW y \in Elements(Tail(s)) PROVE Head(s) < y
  <2>1. PICK i \in 1..(Len(s) - 1) : y = s[i + 1]
    BY <1>1, <1>2 DEF Elements
  <2>2. 1 \in 1..Len(s) /\ i + 1 \in 1..Len(s) /\ 1 < i + 1
    BY <1>1, <1>2
  <2> QED
    BY <1>1, <2>1, <2>2 DEF Increasing
<1> QED
  BY <1>3, <1>4

-----------------------------------------------------------------------------
(* Types *)

LEMMA TypeInit == Init => TypeOK
<1> SUFFICES ASSUME Init PROVE TypeOK
  OBVIOUS
<1>1. <<>> \in Seq(Nat) /\ Len(<<>>) = 0
  OBVIOUS
<1>2. worker \in [Workers -> WorkerState] /\ \A w \in Workers : worker[w].queue = <<>>
  <2> DEFINE Start == [conversation : {dispatcher.conversation}, phase : {"gone"}, queue : {<<>>}]
  <2>1. worker \in [Workers -> Start] /\ dispatcher.conversation \in Conversations
    BY DEF Init
  <2>2. \A r \in Start : r \in WorkerState /\ r.queue = <<>>
    BY <1>1, <2>1, Zenon DEF WorkerState
  <2> HIDE DEF Start
  <2> QED
    BY <2>1, <2>2, Zenon
<1>3. \A w \in Workers : Len(worker[w].queue) <= Capacity
  BY <1>1, <1>2, InboundAssumption
<1>4. dispatcher \in DispatcherState
  BY InboundAssumption DEF Init, DispatcherState
<1>5. handled \in [Conversations -> Seq(Nat)]
  BY <1>1 DEF Init
<1> QED
  BY <1>2, <1>3, <1>4, <1>5, InboundAssumption DEF Init, TypeOK

\* A step that changes one worker keeps the types of all.
LEMMA WorkerTyped ==
    ASSUME TypeOK, NEW w \in Workers, NEW r \in WorkerState, Len(r.queue) <= Capacity,
           worker' = [worker EXCEPT ![w] = r]
    PROVE  /\ worker' \in [Workers -> WorkerState]
           /\ \A v \in Workers : Len(worker'[v].queue) <= Capacity
BY DEF TypeOK

\* The worker that takes its next message.
Taken(w) == [worker[w] EXCEPT !.phase = "handle", !.queue = Tail(worker[w].queue)]

\* What Take does: the head of the queue goes to handled.
LEMMA TakeTyped ==
    ASSUME TypeOK, NEW w \in Workers, Take(w)
    PROVE  /\ Taken(w).conversation = worker[w].conversation
           /\ Taken(w).phase = "handle"
           /\ Taken(w).queue = Tail(worker[w].queue)
           /\ worker' = [worker EXCEPT ![w] = Taken(w)]
           /\ worker' \in [Workers -> WorkerState]
           /\ \A v \in Workers : Len(worker'[v].queue) <= Capacity
           /\ handled' = [handled EXCEPT ![worker[w].conversation] =
                              Append(handled[worker[w].conversation], Head(worker[w].queue))]
           /\ handled' \in [Conversations -> Seq(Nat)]
<1>1. worker[w] \in WorkerState /\ worker[w].queue \in Seq(Nat) /\ worker[w].conversation \in Conversations
  BY DEF TypeOK, WorkerState
<1>2. /\ Tail(worker[w].queue) \in Seq(Nat) /\ Head(worker[w].queue) \in Nat
      /\ Len(Tail(worker[w].queue)) = Len(worker[w].queue) - 1
      /\ Len(worker[w].queue) \in Nat
  BY <1>1, ElementsOfTail DEF Take
<1>3. worker' = [worker EXCEPT ![w] = Taken(w)]
  BY DEF Take, Taken
<1>4. /\ Taken(w) \in WorkerState
      /\ Taken(w).conversation = worker[w].conversation
      /\ Taken(w).phase = "handle"
      /\ Taken(w).queue = Tail(worker[w].queue)
  BY <1>1, <1>2 DEF Taken, WorkerState
<1>5. Len(Taken(w).queue) <= Capacity
  <2>1. Len(worker[w].queue) <= Capacity
    BY DEF TypeOK
  <2> QED
    BY <1>2, <1>4, <2>1, InboundAssumption
<1>6. handled' = [handled EXCEPT ![worker[w].conversation] =
                      Append(handled[worker[w].conversation], Head(worker[w].queue))]
  BY DEF Take
<1>7. Append(handled[worker[w].conversation], Head(worker[w].queue)) \in Seq(Nat)
  BY <1>1, <1>2 DEF TypeOK
<1>8. /\ worker' \in [Workers -> WorkerState]
      /\ \A v \in Workers : Len(worker'[v].queue) <= Capacity
  BY <1>3, <1>4, <1>5, WorkerTyped
<1>9. handled' \in [Conversations -> Seq(Nat)]
  BY <1>6, <1>7 DEF TypeOK
<1> QED
  BY <1>3, <1>4, <1>6, <1>8, <1>9

LEMMA EndedTyped ==
    ASSUME TypeOK, NEW w \in Workers
    PROVE  /\ Ended(w) \in WorkerState
           /\ Ended(w).queue = <<>>
           /\ Ended(w).phase = "gone"
           /\ Ended(w).conversation = worker[w].conversation
           /\ Len(Ended(w).queue) <= Capacity
<1>1. <<>> \in Seq(Nat) /\ Len(<<>>) = 0
  OBVIOUS
<1>2. worker[w] \in WorkerState
  BY DEF TypeOK
<1>3. /\ Ended(w).queue = <<>> /\ Ended(w).phase = "gone"
      /\ Ended(w).conversation = worker[w].conversation
  BY <1>2 DEF Ended, WorkerState
<1>4. Ended(w) \in WorkerState
  BY <1>1, <1>2 DEF Ended, WorkerState
<1> QED
  BY <1>1, <1>3, <1>4, InboundAssumption

\* A step that ends one worker keeps the types of all.
LEMMA EndTyped ==
    ASSUME TypeOK, NEW w \in Workers, worker' = [worker EXCEPT ![w] = Ended(w)]
    PROVE  /\ worker' \in [Workers -> WorkerState]
           /\ \A v \in Workers : Len(worker'[v].queue) <= Capacity
BY EndedTyped, WorkerTyped

LEMMA TypeStep == TypeOK /\ [Next]_vars => TypeOK'
<1> SUFFICES ASSUME TypeOK, [Next]_vars PROVE TypeOK'
  OBVIOUS
<1> USE InboundAssumption
<1>1. ASSUME NEW c \in Conversations, Receive(c) PROVE TypeOK'
  BY <1>1 DEF Receive, TypeOK, DispatcherState
<1>2. CASE StartWorker
  <2> DEFINE w == next_inbound_worker_id + 1
             r == [conversation |-> dispatcher.conversation, phase |-> "recv",
                   queue |-> <<dispatcher.n>>]
  <2>1. w \in Workers /\ w \in 0..MaxWorkers
    BY <1>2 DEF StartWorker, TypeOK, Workers
  <2>2. dispatcher.n \in Nat /\ dispatcher.conversation \in Conversations
    BY DEF TypeOK, DispatcherState
  <2>3. <<dispatcher.n>> \in Seq(Nat) /\ Len(<<dispatcher.n>>) = 1
    BY <2>2
  <2>4. r \in WorkerState /\ Len(r.queue) <= Capacity
    BY <2>2, <2>3 DEF WorkerState
  <2>5. worker' = [worker EXCEPT ![w] = r]
    BY <1>2 DEF StartWorker
  <2> HIDE DEF r
  <2>6. /\ worker' \in [Workers -> WorkerState]
        /\ \A v \in Workers : Len(worker'[v].queue) <= Capacity
    BY <2>1, <2>4, <2>5, WorkerTyped
  <2> QED
    BY <1>2, <2>1, <2>6 DEF StartWorker, TypeOK, DispatcherState, historyVars
<1>3. CASE TrySend
  <2> DEFINE c == dispatcher.conversation
             w == inbound_workers[c]
  <2>1. c \in Conversations /\ w \in 1..MaxWorkers /\ w \in 0..MaxWorkers /\ dispatcher.n \in Nat
    BY <1>3 DEF TrySend, TypeOK, DispatcherState
  <2>2. w \in Workers /\ worker[w].queue \in Seq(Nat)
    BY <2>1 DEF TypeOK, Workers, WorkerState
  <2>3. Append(worker[w].queue, dispatcher.n) \in Seq(Nat)
        /\ Len(Append(worker[w].queue, dispatcher.n)) = Len(worker[w].queue) + 1
    BY <2>1, <2>2
  <2>4. dispatcher' \in DispatcherState
    BY <1>3, <2>1 DEF TrySend, TypeOK, DispatcherState
  <2>5. refused' \in [Conversations -> SUBSET Nat]
    <3>1. CASE UNCHANGED refused
      BY <3>1 DEF TypeOK
    <3>2. CASE refused' = [refused EXCEPT ![c] = @ \cup {dispatcher.n}]
      BY <2>1, <3>2 DEF TypeOK
    <3> QED
      BY <1>3, <3>1, <3>2 DEF TrySend
  <2>6. /\ worker' \in [Workers -> WorkerState]
        /\ \A v \in Workers : Len(worker'[v].queue) <= Capacity
    <3>1. CASE worker' = worker
      BY <3>1 DEF TypeOK
    <3>2. CASE HasRoom(w) /\ worker' = [worker EXCEPT ![w].queue = Append(@, dispatcher.n)]
      <4> DEFINE r == [worker[w] EXCEPT !.queue = Append(worker[w].queue, dispatcher.n)]
      <4>0. r \in WorkerState /\ r.queue = Append(worker[w].queue, dispatcher.n)
        BY <2>2, <2>3 DEF TypeOK, WorkerState
      <4>2. worker' = [worker EXCEPT ![w] = r]
        BY <3>2
      <4> HIDE DEF r
      <4>1. r \in WorkerState /\ Len(r.queue) <= Capacity
        BY <2>2, <2>3, <3>2, <4>0 DEF HasRoom
      <4> QED
        BY <2>2, <4>1, <4>2, WorkerTyped
    <3> QED
      BY <1>3, <3>1, <3>2 DEF TrySend
  <2> QED
    BY <1>3, <2>4, <2>5, <2>6 DEF TrySend, TypeOK
<1>4. CASE Retry
  <2>1. inbound_workers' \in [Conversations -> 0..MaxWorkers]
    <3> DEFINE d == dispatcher.conversation
               e == IF inbound_workers[d] = dispatcher.worker THEN 0 ELSE inbound_workers[d]
    <3>1. d \in Conversations /\ inbound_workers[d] \in 0..MaxWorkers
      BY DEF TypeOK, DispatcherState
    <3>2. e \in 0..MaxWorkers
      BY <3>1
    <3>3. inbound_workers' = [inbound_workers EXCEPT ![d] = e]
      BY <1>4 DEF Retry
    <3> HIDE DEF e, d
    <3> QED
      BY <3>2, <3>3 DEF TypeOK
  <2>2. dispatcher' \in DispatcherState
    BY <1>4 DEF Retry, TypeOK, DispatcherState
  <2> QED
    BY <1>4, <2>1, <2>2 DEF Retry, TypeOK, historyVars
<1>5. CASE NoticeSent
  BY <1>5 DEF NoticeSent, TypeOK, DispatcherState, historyVars
<1>6. CASE BridgeEnds
  BY <1>6, EndedTyped DEF BridgeEnds, TypeOK, historyVars
<1>7. ASSUME NEW w \in Workers, Recv(w) PROVE TypeOK'
  BY <1>7, TakeTyped DEF Recv, TypeOK
<1>8. ASSUME NEW w \in Workers, Leave(w) PROVE TypeOK'
  <2>1. CASE Take(w) /\ UNCHANGED inbound_workers
    BY <1>8, <2>1, TakeTyped DEF Leave, TypeOK
  <2>2. CASE ~(Take(w) /\ UNCHANGED inbound_workers)
    <3>0. /\ worker' = [worker EXCEPT ![w] = Ended(w)]
          /\ \/ inbound_workers' = inbound_workers
             \/ inbound_workers' = [inbound_workers EXCEPT ![worker[w].conversation] = 0]
          /\ UNCHANGED handled
      BY <1>8, <2>2 DEF Leave
    <3>1. inbound_workers' \in [Conversations -> 0..MaxWorkers]
      <4>1. CASE inbound_workers' = inbound_workers
        BY <4>1 DEF TypeOK
      <4>2. CASE inbound_workers' = [inbound_workers EXCEPT ![worker[w].conversation] = 0]
        <5> DEFINE d == worker[w].conversation
        <5>1. inbound_workers' = [inbound_workers EXCEPT ![d] = 0]
          BY <4>2
        <5>2. 0 \in 0..MaxWorkers
          OBVIOUS
        <5> HIDE DEF d
        <5> QED
          BY <5>1, <5>2 DEF TypeOK
      <4> QED
        BY <3>0, <4>1, <4>2
    <3> QED
      BY <1>8, <3>0, <3>1, EndTyped DEF Leave, TypeOK
  <2> QED
    BY <2>1, <2>2
<1>9. ASSUME NEW w \in Workers, IdleTimeout(w) PROVE TypeOK'
  BY <1>9 DEF IdleTimeout, TypeOK, WorkerState, historyVars
<1>10. ASSUME NEW w \in Workers, HandlerReturns(w) PROVE TypeOK'
  BY <1>10 DEF HandlerReturns, TypeOK, WorkerState, historyVars
<1>11. ASSUME NEW w \in Workers, HandlerPanics(w) PROVE TypeOK'
  <2>1. worker[w].queue \in Seq(Nat) /\ worker[w].conversation \in Conversations
    BY DEF TypeOK, WorkerState
  <2>2. Elements(worker[w].queue) \in SUBSET Nat
    BY <2>1 DEF Elements
  <2>3. panicked' \in [Conversations -> SUBSET Nat]
    BY <1>11, <2>1, <2>2 DEF HandlerPanics, TypeOK
  <2> QED
    <3>1. panics' \in 0..MaxPanics
      BY <1>11 DEF HandlerPanics, TypeOK
    <3>2. /\ worker' \in [Workers -> WorkerState]
          /\ \A v \in Workers : Len(worker'[v].queue) <= Capacity
      BY <1>11, EndTyped DEF HandlerPanics
    <3> QED
      BY <1>11, <2>3, <3>1, <3>2 DEF HandlerPanics, TypeOK
<1>12. CASE UNCHANGED vars
  BY <1>12 DEF vars, historyVars, TypeOK
<1> QED
  BY <1>1, <1>2, <1>3, <1>4, <1>5, <1>6, <1>7, <1>8, <1>9, <1>10, <1>11, <1>12
     DEF Next, DispatcherNext, WorkerNext

\* Every variable of the bridge's loop and its workers stays in its domain, and
\* no worker's queue exceeds the channel's capacity.
THEOREM TypeCorrect == Spec => []TypeOK
BY TypeInit, TypeStep, PTL DEF Spec

-----------------------------------------------------------------------------
(* Workers and their entries *)

LEMMA WorkerInit == Init => WorkerInv
<1> SUFFICES ASSUME Init PROVE WorkerInv
  OBVIOUS
<1>1. TypeOK
  BY TypeInit
<1>2. \A w \in Workers : worker[w].phase = "gone" /\ worker[w].queue = <<>>
  BY DEF Init
<1>3. SecondAttempt
  BY DEF Init, SecondAttempt
<1>4. EntriesStarted
  <2>1. next_inbound_worker_id = 0 /\ \A c \in Conversations : inbound_workers[c] = 0
    BY DEF Init
  <2> QED
    <3> SUFFICES ASSUME NEW c \in Conversations
                 PROVE  /\ inbound_workers[c] <= next_inbound_worker_id
                        /\ inbound_workers[c] # 0 => worker[inbound_workers[c]].conversation = c
      BY DEF EntriesStarted
    <3>1. inbound_workers[c] = 0 /\ next_inbound_worker_id = 0
      BY <2>1
    <3> QED
      BY <3>1
<1> QED
  BY <1>1, <1>2, <1>3, <1>4 DEF WorkerInv, LiveRegistered, GoneIsEmpty

\* A worker that changes without ending, and the entries stay: all that the
\* invariant says about workers is kept.
LEMMA WorkerChanges ==
    ASSUME WorkerInv, NEW w \in Workers, NEW r,
           worker[w].phase # "gone", r.phase # "gone",
           r.conversation = worker[w].conversation,
           worker' = [worker EXCEPT ![w] = r],
           UNCHANGED <<inbound_workers, next_inbound_worker_id>>
    PROVE  LiveRegistered' /\ EntriesStarted' /\ GoneIsEmpty'
<1> USE DEF WorkerInv
<1>1. \A v \in Workers : worker'[v] = IF v = w THEN r ELSE worker[v]
  BY DEF TypeOK
<1>2. LiveRegistered'
  BY <1>1 DEF LiveRegistered
<1>3. EntriesStarted'
  <2> SUFFICES ASSUME NEW c \in Conversations, inbound_workers[c] # 0
               PROVE  worker'[inbound_workers[c]].conversation = c
    BY DEF EntriesStarted
  <2>1. inbound_workers[c] \in Workers
    BY InboundAssumption DEF TypeOK, Workers
  <2> QED
    BY <1>1, <2>1 DEF EntriesStarted
<1>4. GoneIsEmpty'
  BY <1>1 DEF GoneIsEmpty
<1> QED
  BY <1>2, <1>3, <1>4

\* A worker ends: its entry stays, or is removed.
LEMMA WorkerEnds ==
    ASSUME WorkerInv, NEW w \in Workers,
           worker[w].phase # "gone",
           worker' = [worker EXCEPT ![w] = Ended(w)],
           \/ inbound_workers' = inbound_workers
           \/ inbound_workers' = [inbound_workers EXCEPT ![worker[w].conversation] = 0],
           UNCHANGED <<next_inbound_worker_id, dispatcher>>
    PROVE  LiveRegistered' /\ EntriesStarted' /\ GoneIsEmpty' /\ SecondAttempt'
<1> DEFINE d == worker[w].conversation
<1>1. /\ \A v \in Workers : worker'[v] = IF v = w THEN Ended(w) ELSE worker[v]
      /\ Ended(w).queue = <<>> /\ Ended(w).phase = "gone" /\ Ended(w).conversation = d
      /\ d \in Conversations
  BY EndedTyped DEF WorkerInv, TypeOK, WorkerState
<1>2. inbound_workers[d] = w
  BY DEF WorkerInv, LiveRegistered
<1>3. \A c \in Conversations : c # d => inbound_workers'[c] = inbound_workers[c]
  BY DEF WorkerInv, TypeOK
<1>4. inbound_workers'[d] \in {0, w}
  BY <1>1, <1>2 DEF WorkerInv, TypeOK
<1>5. \A c \in Conversations : inbound_workers[c] # 0 => inbound_workers[c] \in Workers
  BY InboundAssumption DEF WorkerInv, TypeOK, Workers
<1> HIDE DEF d
<1>6. LiveRegistered'
  <2> SUFFICES ASSUME NEW v \in Workers, v # w, worker[v].phase # "gone"
               PROVE  inbound_workers'[worker[v].conversation] = v
    BY <1>1 DEF LiveRegistered
  <2>1. inbound_workers[worker[v].conversation] = v /\ worker[v].conversation \in Conversations
    BY DEF WorkerInv, LiveRegistered, TypeOK, WorkerState
  <2>2. worker[v].conversation # d
    BY <1>2, <2>1
  <2> QED
    BY <1>3, <2>1, <2>2
<1>7. EntriesStarted'
  <2> SUFFICES ASSUME NEW c \in Conversations
               PROVE  /\ inbound_workers'[c] <= next_inbound_worker_id
                      /\ inbound_workers'[c] # 0 => worker'[inbound_workers'[c]].conversation = c
    BY DEF EntriesStarted
  <2>1. CASE c = d
    BY <2>1, <1>1, <1>2, <1>4 DEF WorkerInv, EntriesStarted, TypeOK
  <2>2. CASE c # d
    BY <2>2, <1>1, <1>3, <1>5 DEF WorkerInv, EntriesStarted, d
  <2> QED
    BY <2>1, <2>2
<1>8. GoneIsEmpty'
  BY <1>1 DEF WorkerInv, GoneIsEmpty
<1>9. SecondAttempt'
  <2>0. dispatcher.conversation \in Conversations
    BY DEF WorkerInv, TypeOK, DispatcherState
  <2>1. ASSUME dispatcher.phase = "closed"
        PROVE  /\ dispatcher.attempt = 0
               /\ inbound_workers'[dispatcher.conversation] = dispatcher.worker
               /\ dispatcher.worker # 0
               /\ worker'[dispatcher.worker].phase = "gone"
    <3>1. /\ inbound_workers[dispatcher.conversation] = dispatcher.worker
          /\ dispatcher.attempt = 0 /\ dispatcher.worker # 0
          /\ worker[dispatcher.worker].phase = "gone"
      BY <2>1 DEF WorkerInv, SecondAttempt
    <3>2. dispatcher.worker \in Workers
      BY <3>1, <2>0, <1>5
    <3>3. dispatcher.conversation # d
      BY <3>1, <1>2
    <3> QED
      BY <3>1, <3>2, <3>3, <2>0, <1>1, <1>3
  <2>2. ASSUME dispatcher.phase = "lookup", dispatcher.attempt = 1
        PROVE  inbound_workers'[dispatcher.conversation] = 0
    <3>1. inbound_workers[dispatcher.conversation] = 0
      BY <2>2 DEF WorkerInv, SecondAttempt
    <3>2. dispatcher.conversation # d
      BY <3>1, <1>2 DEF Workers
    <3> QED
      BY <3>1, <3>2, <2>0, <1>3
  <2> QED
    BY <2>1, <2>2 DEF SecondAttempt
<1> QED
  BY <1>6, <1>7, <1>8, <1>9

LEMMA WorkerStep == WorkerInv /\ [Next]_vars => WorkerInv'
<1> SUFFICES ASSUME WorkerInv, [Next]_vars PROVE WorkerInv'
  OBVIOUS
<1>0. TypeOK /\ TypeOK'
  BY TypeStep DEF WorkerInv
<1>a. /\ dispatcher.conversation \in Conversations
      /\ \A c \in Conversations :
             inbound_workers[c] \in Nat /\ (inbound_workers[c] # 0 => inbound_workers[c] \in Workers)
      /\ \A w \in Workers : worker[w].conversation \in Conversations /\ w # 0
  <2>1. dispatcher.conversation \in Conversations
    BY <1>0 DEF TypeOK, DispatcherState
  <2>2. ASSUME NEW c \in Conversations
        PROVE  inbound_workers[c] \in Nat /\ (inbound_workers[c] # 0 => inbound_workers[c] \in Workers)
    BY <1>0, InboundAssumption DEF TypeOK, Workers
  <2>3. ASSUME NEW w \in Workers PROVE worker[w].conversation \in Conversations /\ w # 0
    <3>1. worker[w].conversation \in Conversations
      BY <1>0 DEF TypeOK, WorkerState
    <3> QED
      BY <3>1 DEF Workers
  <2> QED
    BY <2>1, <2>2, <2>3
<1> SUFFICES LiveRegistered' /\ EntriesStarted' /\ GoneIsEmpty' /\ SecondAttempt'
  BY <1>0 DEF WorkerInv
<1>1. ASSUME NEW c \in Conversations, Receive(c)
      PROVE  LiveRegistered' /\ EntriesStarted' /\ GoneIsEmpty' /\ SecondAttempt'
  <2>1. dispatcher'.phase = "lookup" /\ dispatcher'.attempt = 0
    BY <1>1 DEF Receive
  <2> QED
    BY <1>1, <2>1 DEF Receive, WorkerInv, LiveRegistered, EntriesStarted, GoneIsEmpty, SecondAttempt
<1>2. CASE StartWorker
  <2> DEFINE d == dispatcher.conversation
             n == next_inbound_worker_id + 1
  <2>1. /\ n \in Workers /\ next_inbound_worker_id \in Nat
        /\ inbound_workers[d] = 0
        /\ next_inbound_worker_id' = n
    BY <1>0, <1>2, InboundAssumption DEF StartWorker, TypeOK, Workers
  <2>2. \A c \in Conversations : inbound_workers'[c] = IF c = d THEN n ELSE inbound_workers[c]
    BY <1>0, <1>2 DEF StartWorker, TypeOK
  <2>3. /\ \A w \in Workers : w # n => worker'[w] = worker[w]
        /\ worker'[n].conversation = d /\ worker'[n].phase = "recv"
    BY <1>0, <1>2, <2>1 DEF StartWorker, TypeOK
  <2>4. dispatcher'.phase = "select"
    BY <1>0, <1>2 DEF StartWorker, TypeOK, DispatcherState
  <2>5. \A c \in Conversations : inbound_workers[c] <= next_inbound_worker_id
    BY DEF WorkerInv, EntriesStarted
  <2> HIDE DEF d
  <2>6. LiveRegistered'
    <3> SUFFICES ASSUME NEW w \in Workers, w # n, worker[w].phase # "gone"
                 PROVE  inbound_workers'[worker[w].conversation] = w
      BY <1>a, <2>2, <2>3 DEF LiveRegistered, d
    <3>1. inbound_workers[worker[w].conversation] = w
      BY DEF WorkerInv, LiveRegistered
    <3> QED
      BY <3>1, <1>a, <2>1, <2>2
  <2>7. EntriesStarted'
    <3> SUFFICES ASSUME NEW c \in Conversations
                 PROVE  /\ inbound_workers'[c] <= n
                        /\ inbound_workers'[c] # 0 => worker'[inbound_workers'[c]].conversation = c
      BY <2>1 DEF EntriesStarted
    <3>1. CASE c = d
      BY <3>1, <2>1, <2>2, <2>3
    <3>2. CASE c # d
      <4>1. inbound_workers'[c] = inbound_workers[c] /\ inbound_workers[c] <= n /\ inbound_workers[c] # n
        BY <3>2, <1>a, <2>1, <2>2, <2>5
      <4> QED
        BY <4>1, <1>a, <2>3 DEF WorkerInv, EntriesStarted
    <3> QED
      BY <3>1, <3>2
  <2>8. GoneIsEmpty'
    BY <2>3 DEF WorkerInv, GoneIsEmpty
  <2> QED
    BY <2>4, <2>6, <2>7, <2>8 DEF SecondAttempt
<1>3. CASE TrySend
  <2> DEFINE c == dispatcher.conversation
             w == inbound_workers[c]
  <2>1. w \in Workers /\ UNCHANGED <<inbound_workers, next_inbound_worker_id>>
    BY <1>3, <1>a DEF TrySend
  <2>2. CASE /\ worker[w].phase = "gone"
             /\ dispatcher' = [dispatcher EXCEPT !.phase = "closed", !.worker = w]
             /\ UNCHANGED worker
    <3>1. /\ dispatcher'.phase = "closed" /\ dispatcher'.worker = w
          /\ dispatcher'.conversation = c /\ dispatcher'.attempt = dispatcher.attempt
      BY <1>0, <2>2 DEF TypeOK, DispatcherState
    <3>2. dispatcher.attempt = 0
      <4>1. dispatcher.attempt \in {0, 1} /\ dispatcher.phase = "lookup" /\ w # 0
        BY <1>0, <1>3 DEF TrySend, TypeOK, DispatcherState
      <4> QED
        BY <4>1 DEF WorkerInv, SecondAttempt
    <3>3. SecondAttempt'
      BY <3>1, <3>2, <2>1, <2>2, <1>a DEF SecondAttempt
    <3> QED
      BY <3>3, <2>1, <2>2 DEF WorkerInv, LiveRegistered, EntriesStarted, GoneIsEmpty
  <2>3. CASE /\ worker[w].phase # "gone"
             /\ worker' = [worker EXCEPT ![w].queue = Append(@, dispatcher.n)]
             /\ dispatcher' = [dispatcher EXCEPT !.phase = "select"]
    <3> DEFINE r == [worker[w] EXCEPT !.queue = Append(worker[w].queue, dispatcher.n)]
    <3>1. worker' = [worker EXCEPT ![w] = r]
      BY <2>3
    <3>2. r.phase = worker[w].phase /\ r.conversation = worker[w].conversation
      BY <1>0, <2>1 DEF TypeOK, WorkerState
    <3>3. dispatcher'.phase = "select"
      BY <1>0, <2>3 DEF TypeOK, DispatcherState
    <3> HIDE DEF r, w
    <3>4. LiveRegistered' /\ EntriesStarted' /\ GoneIsEmpty'
      BY <2>1, <2>3, <3>1, <3>2, WorkerChanges
    <3> QED
      BY <3>3, <3>4 DEF SecondAttempt
  <2>4. CASE dispatcher' = [dispatcher EXCEPT !.phase = "notice"] /\ UNCHANGED worker
    <3>1. dispatcher'.phase = "notice"
      BY <1>0, <2>4 DEF TypeOK, DispatcherState
    <3> QED
      BY <3>1, <2>1, <2>4 DEF WorkerInv, LiveRegistered, EntriesStarted, GoneIsEmpty, SecondAttempt
  <2> QED
    BY <1>3, <2>2, <2>3, <2>4 DEF TrySend
<1>4. CASE Retry
  <2> DEFINE c == dispatcher.conversation
  <2>1. /\ dispatcher.attempt = 0 /\ inbound_workers[c] = dispatcher.worker
        /\ inbound_workers[c] # 0 /\ worker[inbound_workers[c]].phase = "gone"
    BY <1>4 DEF Retry, WorkerInv, SecondAttempt
  <2>2. /\ dispatcher'.phase = "lookup" /\ dispatcher'.conversation = c
    BY <1>0, <1>4, <2>1 DEF Retry, TypeOK, DispatcherState
  <2>3. /\ \A b \in Conversations : inbound_workers'[b] = IF b = c THEN 0 ELSE inbound_workers[b]
        /\ UNCHANGED <<worker, next_inbound_worker_id>>
    BY <1>0, <1>4, <2>1 DEF Retry, TypeOK
  <2>4. LiveRegistered'
    BY <1>a, <2>1, <2>3 DEF WorkerInv, LiveRegistered
  <2>5. EntriesStarted'
    BY <1>0, <2>3 DEF WorkerInv, EntriesStarted, TypeOK
  <2>6. GoneIsEmpty'
    BY <2>3 DEF WorkerInv, GoneIsEmpty
  <2>7. SecondAttempt'
    BY <1>a, <2>2, <2>3 DEF SecondAttempt
  <2> QED
    BY <2>4, <2>5, <2>6, <2>7
<1>5. CASE NoticeSent
  <2>1. dispatcher'.phase = "select"
    BY <1>0, <1>5 DEF NoticeSent, TypeOK, DispatcherState
  <2> QED
    BY <1>5, <2>1
       DEF NoticeSent, WorkerInv, LiveRegistered, EntriesStarted, GoneIsEmpty, SecondAttempt
<1>6. CASE BridgeEnds
  <2>1. \A w \in Workers : /\ worker'[w].phase = "gone" /\ worker'[w].queue = <<>>
                           /\ worker'[w].conversation = worker[w].conversation
    BY <1>0, <1>6, EndedTyped DEF BridgeEnds
  <2>2. UNCHANGED <<dispatcher, inbound_workers, next_inbound_worker_id>>
    BY <1>6 DEF BridgeEnds
  <2>3. LiveRegistered' /\ GoneIsEmpty'
    BY <2>1 DEF LiveRegistered, GoneIsEmpty
  <2>4. EntriesStarted'
    BY <1>a, <2>1, <2>2 DEF WorkerInv, EntriesStarted
  <2>5. SecondAttempt'
    BY <1>a, <2>1, <2>2 DEF WorkerInv, SecondAttempt
  <2> QED
    BY <2>3, <2>4, <2>5
<1>b. ASSUME NEW w \in Workers, NEW r, worker[w].phase # "gone", r.phase # "gone",
             r.conversation = worker[w].conversation,
             worker' = [worker EXCEPT ![w] = r],
             UNCHANGED <<dispatcher, inbound_workers, next_inbound_worker_id>>
      PROVE  LiveRegistered' /\ EntriesStarted' /\ GoneIsEmpty' /\ SecondAttempt'
  <2>1. LiveRegistered' /\ EntriesStarted' /\ GoneIsEmpty'
    BY <1>b, WorkerChanges
  <2>2. \A v \in Workers : worker[v].phase = "gone" => worker'[v].phase = "gone"
    BY <1>0, <1>b DEF TypeOK
  <2>3. SecondAttempt'
    BY <1>a, <1>b, <2>2 DEF WorkerInv, SecondAttempt
  <2> QED
    BY <2>1, <2>3
<1>c. ASSUME NEW w \in Workers, Take(w), worker[w].phase # "gone",
             UNCHANGED <<dispatcher, inbound_workers, next_inbound_worker_id>>
      PROVE  LiveRegistered' /\ EntriesStarted' /\ GoneIsEmpty' /\ SecondAttempt'
  BY <1>0, <1>b, <1>c, TakeTyped
<1>7. ASSUME NEW w \in Workers, Recv(w)
      PROVE  LiveRegistered' /\ EntriesStarted' /\ GoneIsEmpty' /\ SecondAttempt'
  BY <1>7, <1>c DEF Recv
<1>8. ASSUME NEW w \in Workers, Leave(w)
      PROVE  LiveRegistered' /\ EntriesStarted' /\ GoneIsEmpty' /\ SecondAttempt'
  <2>1. CASE Take(w) /\ UNCHANGED inbound_workers
    BY <1>8, <2>1, <1>c DEF Leave
  <2>2. CASE ~(Take(w) /\ UNCHANGED inbound_workers)
    <3>1. /\ worker' = [worker EXCEPT ![w] = Ended(w)]
          /\ \/ inbound_workers' = inbound_workers
             \/ inbound_workers' = [inbound_workers EXCEPT ![worker[w].conversation] = 0]
          /\ UNCHANGED <<dispatcher, next_inbound_worker_id>>
          /\ worker[w].phase # "gone"
      BY <1>8, <2>2 DEF Leave
    <3> QED
      BY <3>1, WorkerEnds
  <2> QED
    BY <2>1, <2>2
<1>9. ASSUME NEW w \in Workers, NEW p \in {"idle", "recv"}, worker[w].phase # "gone",
             worker' = [worker EXCEPT ![w].phase = p],
             UNCHANGED <<dispatcher, inbound_workers, next_inbound_worker_id>>
      PROVE  LiveRegistered' /\ EntriesStarted' /\ GoneIsEmpty' /\ SecondAttempt'
  <2> DEFINE r == [worker[w] EXCEPT !.phase = p]
  <2>1. r.phase # "gone" /\ r.conversation = worker[w].conversation
    BY <1>0, <1>9 DEF TypeOK, WorkerState
  <2>2. worker' = [worker EXCEPT ![w] = r]
    BY <1>9
  <2> HIDE DEF r
  <2> QED
    BY <1>9, <1>b, <2>1, <2>2
<1>10. ASSUME NEW w \in Workers, HandlerPanics(w)
      PROVE  LiveRegistered' /\ EntriesStarted' /\ GoneIsEmpty' /\ SecondAttempt'
  BY <1>10, WorkerEnds DEF HandlerPanics
<1>11. CASE UNCHANGED vars
  BY <1>11 DEF vars, WorkerInv, LiveRegistered, EntriesStarted, GoneIsEmpty, SecondAttempt
<1>12. ASSUME NEW w \in Workers, IdleTimeout(w) \/ HandlerReturns(w)
       PROVE  LiveRegistered' /\ EntriesStarted' /\ GoneIsEmpty' /\ SecondAttempt'
  BY <1>9, <1>12 DEF IdleTimeout, HandlerReturns
<1> QED
  BY <1>1, <1>2, <1>3, <1>4, <1>5, <1>6, <1>7, <1>8, <1>10, <1>11, <1>12
     DEF Next, DispatcherNext, WorkerNext

\* A worker that runs is registered, and the others have ended with nothing in
\* their queues.
THEOREM WorkersCorrect == Spec => []WorkerInv
BY WorkerInit, WorkerStep, PTL DEF Spec

\* At most one worker of a conversation is in handle_inbound: "Keep each private
\* chat ordered".
THEOREM OneHandler == Spec => []OneAtATime
<1>1. WorkerInv => OneAtATime
  BY DEF WorkerInv, LiveRegistered, OneAtATime
<1> QED
  BY <1>1, WorkersCorrect, PTL

-----------------------------------------------------------------------------
(* Nothing is lost *)

LEMMA LossInit == Init => NothingLost
<1> SUFFICES ASSUME Init, NEW c \in Conversations, NEW n \in 1..received[c] PROVE FALSE
  BY DEF NothingLost
<1>1. received[c] = 0
  BY DEF Init
<1> QED
  BY <1>1

LEMMA LossStep == WorkerInv /\ NothingLost /\ [Next]_vars => NothingLost'
<1> SUFFICES ASSUME WorkerInv, NothingLost, [Next]_vars, up', NEW c \in Conversations,
                    NEW n \in 1..received'[c]
             PROVE  \/ /\ dispatcher'.phase \in {"lookup", "closed"}
                       /\ dispatcher'.conversation = c /\ dispatcher'.n = n
                    \/ /\ inbound_workers'[c] # 0
                       /\ n \in Elements(worker'[inbound_workers'[c]].queue)
                    \/ n \in Elements(handled'[c]) \cup refused'[c] \cup panicked'[c]
  BY DEF NothingLost
<1> DEFINE With(d) == d.phase \in {"lookup", "closed"} /\ d.conversation = c /\ d.n = n
           Queued == inbound_workers[c] # 0 /\ n \in Elements(worker[inbound_workers[c]].queue)
           Done == n \in Elements(handled[c]) \cup refused[c] \cup panicked[c]
<1>0. TypeOK /\ TypeOK' /\ WorkerInv'
  BY WorkerStep DEF WorkerInv
<1>a. up /\ n \in 1..received[c] => With(dispatcher) \/ Queued \/ Done
  BY DEF NothingLost
<1>b. /\ dispatcher.conversation \in Conversations
      /\ inbound_workers[c] \in Nat /\ received[c] \in Nat
      /\ inbound_workers[c] # 0 => inbound_workers[c] \in Workers
  <2>1. dispatcher.conversation \in Conversations
    BY <1>0 DEF TypeOK, DispatcherState
  <2> QED
    BY <1>0, <2>1, InboundAssumption DEF TypeOK, Workers
<1> HIDE DEF With, Queued, Done
<1>1. CASE \E b \in Conversations : Receive(b)
  <2>1. PICK b \in Conversations : Receive(b)
    BY <1>1
  <2>2. ~With(dispatcher)
    BY <2>1 DEF Receive, With
  <2>3. CASE n \in 1..received[c]
    BY <1>a, <2>1, <2>2, <2>3 DEF Receive, Queued, Done
  <2>4. CASE n \notin 1..received[c]
    <3>1. c = b /\ n = received[c] + 1
      BY <1>0, <1>b, <2>1, <2>4 DEF Receive, TypeOK
    <3> QED
      BY <2>1, <3>1 DEF Receive
  <2> QED
    BY <2>3, <2>4
<1>2. CASE StartWorker
  <2> DEFINE d == dispatcher.conversation
             m == next_inbound_worker_id + 1
  <2>1. /\ m \in Workers /\ next_inbound_worker_id \in Nat /\ m # 0
        /\ inbound_workers[d] = 0
    BY <1>0, <1>2, InboundAssumption DEF StartWorker, TypeOK, Workers
  <2>2. inbound_workers'[c] = IF c = d THEN m ELSE inbound_workers[c]
    BY <1>0, <1>2 DEF StartWorker, TypeOK
  <2>3. /\ \A w \in Workers : w # m => worker'[w] = worker[w]
        /\ worker'[m].queue = <<dispatcher.n>>
    BY <1>0, <1>2, <2>1 DEF StartWorker, TypeOK
  <2>4. inbound_workers[c] <= next_inbound_worker_id
    BY DEF WorkerInv, EntriesStarted
  <2>5. up /\ n \in 1..received[c] /\ (Done => n \in Elements(handled'[c]) \cup refused'[c] \cup panicked'[c])
    BY <1>2 DEF StartWorker, historyVars, Done
  <2>6. CASE With(dispatcher)
    <3>1. c = d /\ dispatcher.n = n
      BY <2>6 DEF With
    <3>2. n \in Elements(<<n>>)
      BY DEF Elements
    <3> QED
      BY <2>1, <2>2, <2>3, <3>1, <3>2
  <2>7. CASE Queued
    <3>1. c # d /\ inbound_workers[c] # m
      BY <1>b, <2>1, <2>4, <2>7 DEF Queued
    <3> QED
      BY <1>b, <2>2, <2>3, <2>7, <3>1 DEF Queued
  <2> QED
    BY <1>a, <2>5, <2>6, <2>7
<1>3. CASE TrySend
  <2> DEFINE d == dispatcher.conversation
             w == inbound_workers[d]
  <2>1. /\ w \in Workers /\ up /\ n \in 1..received[c]
        /\ UNCHANGED <<inbound_workers, handled, panicked>>
    BY <1>0, <1>3, InboundAssumption, <1>b DEF TrySend, TypeOK, Workers
  <2>2. CASE /\ dispatcher' = [dispatcher EXCEPT !.phase = "closed", !.worker = w]
             /\ UNCHANGED <<worker, refused>>
    <3>1. /\ dispatcher'.phase = "closed" /\ dispatcher'.conversation = dispatcher.conversation
          /\ dispatcher'.n = dispatcher.n
      BY <1>0, <2>2 DEF TypeOK, DispatcherState
    <3> QED
      BY <1>a, <2>1, <2>2, <3>1 DEF With, Queued, Done
  <2>3. CASE /\ worker' = [worker EXCEPT ![w].queue = Append(@, dispatcher.n)]
             /\ UNCHANGED refused
    <3>1. worker[w].queue \in Seq(Nat) /\ dispatcher.n \in Nat
      BY <1>0, <2>1 DEF TypeOK, WorkerState, DispatcherState
    <3>2. Elements(Append(worker[w].queue, dispatcher.n)) = Elements(worker[w].queue) \cup {dispatcher.n}
      BY <3>1, ElementsOfAppend
    <3>3. /\ \A v \in Workers : v # w => worker'[v] = worker[v]
          /\ worker'[w].queue = Append(worker[w].queue, dispatcher.n)
      BY <1>0, <2>1, <2>3 DEF TypeOK, WorkerState
    <3>4. CASE With(dispatcher)
      <4>1. c = d /\ n = dispatcher.n
        BY <3>4 DEF With
      <4>2. w # 0 /\ inbound_workers'[c] = w
        BY <2>1, <4>1 DEF Workers
      <4> QED
        BY <3>2, <3>3, <4>1, <4>2
    <3>5. CASE Queued
      BY <1>b, <2>1, <3>2, <3>3, <3>5 DEF Queued
    <3>6. CASE Done
      BY <2>1, <2>3, <3>6 DEF Done
    <3> QED
      BY <1>a, <2>1, <3>4, <3>5, <3>6
  <2>4. CASE /\ refused' = [refused EXCEPT ![d] = @ \cup {dispatcher.n}]
             /\ UNCHANGED worker
    <3>1. refused[c] \subseteq refused'[c] /\ (c = d => dispatcher.n \in refused'[c])
      BY <1>0, <1>b, <2>4 DEF TypeOK
    <3> QED
      BY <1>a, <2>1, <2>4, <3>1 DEF With, Queued, Done
  <2> QED
    BY <1>3, <2>2, <2>3, <2>4 DEF TrySend
<1>4. CASE Retry
  <2> DEFINE d == dispatcher.conversation
  <2>1. /\ dispatcher.attempt = 0 /\ inbound_workers[d] = dispatcher.worker
        /\ inbound_workers[d] # 0 /\ worker[inbound_workers[d]].phase = "gone"
    BY <1>4 DEF Retry, WorkerInv, SecondAttempt
  <2>2. /\ dispatcher'.phase = "lookup" /\ dispatcher'.conversation = d
        /\ dispatcher'.n = dispatcher.n
    BY <1>0, <1>4, <2>1 DEF Retry, TypeOK, DispatcherState
  <2>3. /\ inbound_workers'[c] = IF c = d THEN 0 ELSE inbound_workers[c]
        /\ UNCHANGED <<worker, handled, refused, panicked, received>>
    BY <1>0, <1>4, <2>1 DEF Retry, TypeOK, historyVars
  <2>4. up /\ n \in 1..received[c]
    BY <1>4, <2>3 DEF Retry
  <2>5. CASE Queued
    <3>1. c # d
      <4>1. ASSUME c = d PROVE FALSE
        <5>1. worker[inbound_workers[c]].queue = <<>>
          BY <1>b, <2>1, <4>1 DEF WorkerInv, GoneIsEmpty
        <5> QED
          BY <5>1, <2>5 DEF Queued, Elements
      <4> QED
        BY <4>1
    <3> QED
      BY <2>3, <2>5, <3>1 DEF Queued
  <2> QED
    BY <1>a, <2>2, <2>3, <2>4, <2>5 DEF With, Done
<1>5. CASE NoticeSent
  <2>1. ~With(dispatcher)
    BY <1>5 DEF NoticeSent, With
  <2> QED
    BY <1>5, <1>a, <2>1 DEF NoticeSent, historyVars, Queued, Done
<1>6. CASE BridgeEnds
  BY <1>6 DEF BridgeEnds
<1>c. ASSUME NEW w \in Workers, Take(w), up,
             UNCHANGED <<dispatcher, inbound_workers, received, refused, panicked>>
      PROVE  \/ With(dispatcher')
             \/ /\ inbound_workers'[c] # 0
                /\ n \in Elements(worker'[inbound_workers'[c]].queue)
             \/ n \in Elements(handled'[c]) \cup refused'[c] \cup panicked'[c]
  <2> DEFINE d == worker[w].conversation
             q == worker[w].queue
  <2>1. q \in Seq(Nat) /\ q # <<>> /\ d \in Conversations /\ handled[d] \in Seq(Nat)
    BY <1>0, <1>c DEF TypeOK, WorkerState, Take
  <2>2. Elements(q) = {Head(q)} \cup Elements(Tail(q)) /\ Head(q) \in Nat
    BY <2>1, ElementsOfTail
  <2>3. Elements(Append(handled[d], Head(q))) = Elements(handled[d]) \cup {Head(q)}
    BY <2>1, <2>2, ElementsOfAppend
  <2>4. /\ \A v \in Workers : v # w => worker'[v] = worker[v]
        /\ worker'[w].queue = Tail(q)
    BY <1>0, <1>c, TakeTyped DEF TypeOK
  <2>5. /\ handled'[d] = Append(handled[d], Head(q))
        /\ c # d => handled'[c] = handled[c]
    BY <1>0, <1>c, <2>1, TakeTyped DEF TypeOK
  <2>6. CASE With(dispatcher)
    BY <1>c, <2>6
  <2>7. CASE Queued
    <3>1. inbound_workers[c] = w => c = d
      BY <2>7 DEF WorkerInv, EntriesStarted, Queued
    <3> QED
      BY <1>b, <1>c, <2>2, <2>3, <2>4, <2>5, <2>7, <3>1 DEF Queued
  <2>8. CASE Done
    <3>1. Elements(handled[c]) \subseteq Elements(handled'[c])
      BY <2>3, <2>5
    <3> QED
      BY <1>c, <2>8, <3>1 DEF Done
  <2> QED
    BY <1>a, <1>c, <2>6, <2>7, <2>8
<1>7. CASE \E w \in Workers : Recv(w)
  BY <1>7, <1>c DEF Recv, With
<1>8. CASE \E w \in Workers : Leave(w)
  <2>1. PICK w \in Workers : Leave(w)
    BY <1>8
  <2>2. CASE Take(w) /\ UNCHANGED inbound_workers
    BY <2>1, <2>2, <1>c DEF Leave, With
  <2>3. CASE ~(Take(w) /\ UNCHANGED inbound_workers)
    <3> DEFINE d == worker[w].conversation
    <3>1. d \in Conversations /\ inbound_workers[d] = w
      BY <1>0, <2>1 DEF Leave, WorkerInv, LiveRegistered, TypeOK, WorkerState
    <3>2. /\ worker' = [worker EXCEPT ![w] = Ended(w)] /\ worker[w].queue = <<>>
          /\ inbound_workers' = [inbound_workers EXCEPT ![d] = 0]
          /\ UNCHANGED <<dispatcher, received, handled, refused, panicked>> /\ up
      BY <2>1, <2>3, <3>1 DEF Leave
    <3>3. /\ c # d => inbound_workers'[c] = inbound_workers[c]
          /\ \A v \in Workers : v # w => worker'[v] = worker[v]
      BY <1>0, <3>2 DEF TypeOK
    <3>4. CASE Queued
      <4>1. inbound_workers[c] # w
        BY <3>2, <3>4 DEF Queued, Elements
      <4> QED
        BY <1>b, <3>1, <3>3, <3>4, <4>1 DEF Queued
    <3> QED
      BY <1>a, <3>2, <3>4 DEF With, Done
  <2> QED
    BY <2>2, <2>3
<1>9. CASE \E w \in Workers : IdleTimeout(w) \/ HandlerReturns(w)
  <2>1. PICK w \in Workers : IdleTimeout(w) \/ HandlerReturns(w)
    BY <1>9
  <2>2. PICK p \in {"idle", "recv"} : worker' = [worker EXCEPT ![w].phase = p]
    BY <2>1 DEF IdleTimeout, HandlerReturns
  <2>3. \A v \in Workers : worker'[v].queue = worker[v].queue
    BY <1>0, <2>2 DEF TypeOK, WorkerState
  <2>4. /\ up /\ n \in 1..received[c]
        /\ UNCHANGED <<dispatcher, inbound_workers, handled, refused, panicked>>
    BY <2>1 DEF IdleTimeout, HandlerReturns, historyVars
  <2> QED
    BY <1>a, <1>b, <2>3, <2>4 DEF With, Queued, Done
<1>10. CASE \E w \in Workers : HandlerPanics(w)
  <2>1. PICK w \in Workers : HandlerPanics(w)
    BY <1>10
  <2> DEFINE d == worker[w].conversation
  <2>2. d \in Conversations
    BY <1>0 DEF TypeOK, WorkerState
  <2>3. \A v \in Workers : v # w => worker'[v] = worker[v]
    BY <1>0, <2>1 DEF HandlerPanics, TypeOK
  <2>4. /\ panicked[c] \subseteq panicked'[c]
        /\ c = d => Elements(worker[w].queue) \subseteq panicked'[c]
    BY <1>0, <2>1, <2>2 DEF HandlerPanics, TypeOK
  <2>5. CASE Queued
    <3>1. inbound_workers[c] = w => c = d
      BY <2>5 DEF WorkerInv, EntriesStarted, Queued
    <3> QED
      BY <1>b, <2>1, <2>3, <2>4, <2>5, <3>1 DEF HandlerPanics, Queued
  <2> QED
    BY <1>a, <2>1, <2>4, <2>5 DEF HandlerPanics, With, Done
<1>11. CASE UNCHANGED vars
  BY <1>11, <1>a DEF vars, historyVars, With, Queued, Done
<1> QED
  BY <1>1, <1>2, <1>3, <1>4, <1>5, <1>6, <1>7, <1>8, <1>9, <1>10, <1>11
     DEF Next, DispatcherNext, WorkerNext

\* Every message that the bridge has taken from the channel is with the
\* dispatcher, in the queue of the registered worker, handled, refused with a
\* notice or lost to a panic: an idle worker never leaves with a message, and
\* the dispatcher never gives one up.
THEOREM NoMessageLost == Spec => []NothingLost
<1>1. Init => WorkerInv /\ NothingLost
  BY WorkerInit, LossInit
<1>2. WorkerInv /\ NothingLost /\ [Next]_vars => (WorkerInv /\ NothingLost)'
  BY WorkerStep, LossStep
<1> QED
  BY <1>1, <1>2, PTL DEF Spec

-----------------------------------------------------------------------------
(* Order *)

LEMMA OrderInit == Init => Ordered
<1> SUFFICES ASSUME Init PROVE Ordered
  OBVIOUS
<1>1. Elements(<<>>) = {} /\ Increasing(<<>>)
  BY DEF Elements, Increasing
<1>2. \A w \in Workers : worker[w].queue = <<>>
  BY DEF Init
<1>3. \A c \in Conversations : handled[c] = <<>>
  BY DEF Init
<1>4. \A c \in Conversations : ~Placing(c)
  BY DEF Init, Placing
<1> QED
  BY <1>1, <1>2, <1>3, <1>4 DEF Ordered, HandledOrdered, QueueOrdered

\* A step that moves no message to a queue or to a handler, and after which the
\* dispatcher places none that it was not placing before.
LEMMA OrderKept ==
    ASSUME Ordered, TypeOK, UNCHANGED <<received, handled>>,
           \A c \in Conversations : Placing(c)' => Placing(c) /\ dispatcher'.n = dispatcher.n,
           \A w \in Workers : /\ worker'[w].conversation = worker[w].conversation
                              /\ worker'[w].queue \in {worker[w].queue, <<>>}
    PROVE  Ordered'
<1> SUFFICES ASSUME NEW c \in Conversations
             PROVE  /\ Placing(c)' => dispatcher'.n = received'[c]
                    /\ HandledOrdered(c)'
                    /\ \A w \in Workers : QueueOrdered(w, c)'
  BY DEF Ordered
<1>0. Elements(<<>>) = {} /\ Increasing(<<>>)
  BY DEF Elements, Increasing
<1>1. Placing(c)' => dispatcher'.n = received'[c]
  BY DEF Ordered
<1>2. ASSUME NEW n, Placed(c, n) PROVE Placed(c, n)'
  BY <1>2 DEF Placed
<1>3. HandledOrdered(c)'
  BY <1>2 DEF Ordered, HandledOrdered
<1>4. ASSUME NEW w \in Workers PROVE QueueOrdered(w, c)'
  BY <1>0, <1>2 DEF Ordered, QueueOrdered
<1> QED
  BY <1>1, <1>3, <1>4

\* A worker takes the head of its queue: it is the next in order.
LEMMA OrderTake ==
    ASSUME Ordered, WorkerInv, NEW w \in Workers, Take(w), worker[w].phase # "gone",
           UNCHANGED <<received, dispatcher>>
    PROVE  Ordered'
<1> DEFINE d == worker[w].conversation
           q == worker[w].queue
<1>0. TypeOK
  BY DEF WorkerInv
<1>1. /\ q \in Seq(Nat) /\ q # <<>> /\ d \in Conversations /\ handled[d] \in Seq(Nat)
      /\ Head(q) \in Nat
  BY <1>0, ElementsOfTail DEF TypeOK, WorkerState, Take
<1>2. Elements(q) = {Head(q)} \cup Elements(Tail(q))
  BY <1>1, ElementsOfTail
<1>3. Elements(Append(handled[d], Head(q))) = Elements(handled[d]) \cup {Head(q)}
  BY <1>1, ElementsOfAppend
<1>4. QueueOrdered(w, d) /\ HandledOrdered(d)
  BY <1>1 DEF Ordered
<1>5. /\ Increasing(q) /\ \A m \in Elements(handled[d]) : m < Head(q)
      /\ \A n \in Elements(q) : Placed(d, n) /\ \A m \in Elements(handled[d]) : m < n
  BY <1>2, <1>4 DEF QueueOrdered
<1>6. Increasing(Append(handled[d], Head(q)))
  BY <1>1, <1>4, <1>5, IncreasingAppend DEF HandledOrdered
<1>7. Increasing(Tail(q)) /\ \A n \in Elements(Tail(q)) : Head(q) < n
  BY <1>1, <1>5, IncreasingTail
<1>8. /\ \A v \in Workers : v # w => worker'[v] = worker[v]
      /\ worker'[w].queue = Tail(q) /\ worker'[w].conversation = d
  BY <1>0, TakeTyped DEF TypeOK
<1>9. /\ handled'[d] = Append(handled[d], Head(q))
      /\ \A c \in Conversations : c # d => handled'[c] = handled[c]
  BY <1>0, <1>1, TakeTyped DEF TypeOK
<1>10. \A v \in Workers : v # w /\ worker[v].conversation = d => worker[v].queue = <<>>
  BY DEF WorkerInv, LiveRegistered, GoneIsEmpty
<1>11. Elements(<<>>) = {} /\ Increasing(<<>>)
  BY DEF Elements, Increasing
<1> HIDE DEF d, q
<1> SUFFICES ASSUME NEW c \in Conversations
             PROVE  /\ Placing(c)' => dispatcher'.n = received'[c]
                    /\ HandledOrdered(c)'
                    /\ \A v \in Workers : QueueOrdered(v, c)'
  BY DEF Ordered
<1>12. Placing(c)' => dispatcher'.n = received'[c]
  BY DEF Ordered, Placing
<1>13. ASSUME NEW n, Placed(c, n) PROVE Placed(c, n)'
  BY <1>13 DEF Placed, Placing
<1>14. HandledOrdered(c)'
  <2>1. CASE c = d
    BY <2>1, <1>2, <1>3, <1>4, <1>5, <1>6, <1>9, <1>13 DEF HandledOrdered
  <2>2. CASE c # d
    BY <2>2, <1>9, <1>13 DEF Ordered, HandledOrdered
  <2> QED
    BY <2>1, <2>2
<1>15. ASSUME NEW v \in Workers PROVE QueueOrdered(v, c)'
  <2>1. CASE v = w
    <3>1. CASE c = d
      BY <2>1, <3>1, <1>2, <1>3, <1>5, <1>7, <1>8, <1>9, <1>13 DEF QueueOrdered
    <3>2. CASE c # d
      BY <2>1, <3>2, <1>8 DEF QueueOrdered
    <3> QED
      BY <3>1, <3>2
  <2>2. CASE v # w
    <3>1. CASE c = d
      BY <2>2, <3>1, <1>8, <1>10, <1>11 DEF QueueOrdered
    <3>2. CASE c # d
      BY <2>2, <3>2, <1>8, <1>9, <1>13 DEF Ordered, QueueOrdered
    <3> QED
      BY <3>1, <3>2
  <2> QED
    BY <2>1, <2>2
<1> QED
  BY <1>12, <1>14, <1>15

\* The dispatcher gives its message to a worker, whose queue holds only earlier
\* messages, and places none afterwards.
LEMMA OrderSend ==
    ASSUME Ordered, TypeOK, NEW w \in Workers, UNCHANGED <<received, handled>>,
           NEW d \in Conversations, NEW k \in Nat,
           Placing(d), dispatcher.n = k, dispatcher'.phase = "select",
           \A v \in Workers : v # w => worker'[v] = worker[v],
           worker'[w].conversation = d,
           \/ worker'[w].queue = <<k>>
           \/ /\ worker[w].conversation = d
              /\ worker'[w].queue = Append(worker[w].queue, k)
    PROVE  Ordered'
<1> DEFINE q == worker[w].queue
<1>1. q \in Seq(Nat) /\ received[d] \in Nat
  <2>1. q \in Seq(Nat)
    BY DEF TypeOK, WorkerState
  <2> QED
    BY <2>1, InboundAssumption DEF TypeOK
<1>2. /\ k = received[d]
      /\ HandledOrdered(d)
      /\ QueueOrdered(w, d)
  BY DEF Ordered
<1>3. \A c \in Conversations : ~Placing(c)'
  BY DEF Placing
<1>4. ASSUME NEW c \in Conversations, NEW n, Placed(c, n) PROVE Placed(c, n)'
  BY <1>3, <1>4 DEF Placed
<1>5. Placed(d, k)'
  BY <1>1, <1>2, <1>3 DEF Placed
<1>6. \A m \in Elements(handled[d]) : m < k
  BY <1>2 DEF HandledOrdered, Placed
<1>7. /\ Increasing(worker'[w].queue)
      /\ \A n \in Elements(worker'[w].queue) :
             Placed(d, n)' /\ \A m \in Elements(handled[d]) : m < n
  <2>1. CASE worker'[w].queue = <<k>>
    <3>1. Elements(<<k>>) = {k} /\ Increasing(<<k>>)
      BY DEF Elements, Increasing
    <3> QED
      BY <2>1, <3>1, <1>5, <1>6
  <2>2. CASE worker[w].conversation = d /\ worker'[w].queue = Append(q, k)
    <3>1. Elements(Append(q, k)) = Elements(q) \cup {k}
      BY <1>1, ElementsOfAppend
    <3>2. Increasing(q) /\ \A n \in Elements(q) : Placed(d, n) /\ \A m \in Elements(handled[d]) : m < n
      BY <1>2, <2>2 DEF QueueOrdered
    <3>3. \A n \in Elements(q) : n < k
      BY <1>2, <3>2 DEF Placed
    <3>4. Increasing(Append(q, k))
      BY <1>1, <3>2, <3>3, IncreasingAppend
    <3> QED
      BY <2>2, <3>1, <3>2, <3>4, <1>4, <1>5, <1>6
  <2> QED
    BY <2>1, <2>2
<1> SUFFICES ASSUME NEW c \in Conversations
             PROVE  HandledOrdered(c)' /\ \A v \in Workers : QueueOrdered(v, c)'
  BY <1>3 DEF Ordered
<1>8. HandledOrdered(c)'
  BY <1>4 DEF Ordered, HandledOrdered
<1>9. ASSUME NEW v \in Workers PROVE QueueOrdered(v, c)'
  <2>1. CASE v = w
    BY <2>1, <1>7 DEF QueueOrdered
  <2>2. CASE v # w
    BY <2>2, <1>4 DEF Ordered, QueueOrdered
  <2> QED
    BY <2>1, <2>2
<1> QED
  BY <1>8, <1>9

LEMMA OrderStep == WorkerInv /\ Ordered /\ [Next]_vars => Ordered'
<1> SUFFICES ASSUME WorkerInv, Ordered, [Next]_vars PROVE Ordered'
  OBVIOUS
<1>0. TypeOK /\ TypeOK'
  BY TypeStep DEF WorkerInv
<1>a. ASSUME UNCHANGED <<received, handled>>,
             dispatcher'.phase \in {"lookup", "closed"} =>
                 /\ dispatcher.phase \in {"lookup", "closed"}
                 /\ dispatcher'.conversation = dispatcher.conversation
                 /\ dispatcher'.n = dispatcher.n,
             \A w \in Workers : /\ worker'[w].conversation = worker[w].conversation
                                /\ worker'[w].queue \in {worker[w].queue, <<>>}
      PROVE  Ordered'
  <2>1. \A c \in Conversations : Placing(c)' => Placing(c) /\ dispatcher'.n = dispatcher.n
    BY <1>a DEF Placing
  <2> QED
    BY <1>0, <1>a, <2>1, OrderKept
<1>1. ASSUME NEW b \in Conversations, Receive(b) PROVE Ordered'
  <2>1. /\ \A c \in Conversations : ~Placing(c)
        /\ received[b] \in Nat /\ received'[b] = received[b] + 1
        /\ \A c \in Conversations : c # b => received'[c] = received[c]
    BY <1>0, <1>1, InboundAssumption DEF Receive, Placing, TypeOK
  <2>2. /\ dispatcher'.conversation = b /\ dispatcher'.n = received'[b]
        /\ UNCHANGED <<handled, worker>>
    BY <1>1, <2>1 DEF Receive
  <2> SUFFICES ASSUME NEW c \in Conversations
               PROVE  /\ Placing(c)' => dispatcher'.n = received'[c]
                      /\ HandledOrdered(c)'
                      /\ \A w \in Workers : QueueOrdered(w, c)'
    BY DEF Ordered
  <2>3. ASSUME NEW n \in Nat, Placed(c, n) PROVE Placed(c, n)'
    <3>1. CASE c = b
      BY <2>1, <2>3, <3>1 DEF Placed
    <3>2. CASE c # b
      BY <2>1, <2>2, <2>3, <3>2 DEF Placed, Placing
    <3> QED
      BY <3>1, <3>2
  <2>4. Elements(handled[c]) \subseteq Nat /\ \A w \in Workers : Elements(worker[w].queue) \subseteq Nat
    <3>1. handled[c] \in Seq(Nat)
      BY <1>0 DEF TypeOK
    <3>2. \A w \in Workers : worker[w].queue \in Seq(Nat)
      BY <1>0 DEF TypeOK, WorkerState
    <3>3. \A s \in Seq(Nat) : Elements(s) \subseteq Nat
      BY DEF Elements
    <3> QED
      BY <3>1, <3>2, <3>3
  <2>5. Placing(c)' => dispatcher'.n = received'[c]
    BY <2>2 DEF Placing
  <2>6. HandledOrdered(c)'
    BY <2>2, <2>3, <2>4 DEF Ordered, HandledOrdered
  <2>7. ASSUME NEW w \in Workers PROVE QueueOrdered(w, c)'
    BY <2>2, <2>3, <2>4 DEF Ordered, QueueOrdered
  <2> QED
    BY <2>5, <2>6, <2>7
<1>2. CASE StartWorker
  <2>1. PICK d \in Conversations, k \in Nat :
            Placing(d) /\ dispatcher.conversation = d /\ dispatcher.n = k
    BY <1>0, <1>2 DEF StartWorker, Placing, TypeOK, DispatcherState
  <2> DEFINE w == next_inbound_worker_id + 1
  <2>2. w \in Workers
    BY <1>0, <1>2, InboundAssumption DEF StartWorker, TypeOK, Workers
  <2>3. /\ \A v \in Workers : v # w => worker'[v] = worker[v]
        /\ worker'[w].conversation = d /\ worker'[w].queue = <<k>>
        /\ UNCHANGED <<received, handled>>
    BY <1>0, <1>2, <2>1, <2>2 DEF StartWorker, TypeOK, historyVars
  <2>4. dispatcher'.phase = "select"
    BY <1>0, <1>2 DEF StartWorker, TypeOK, DispatcherState
  <2> HIDE DEF w
  <2> QED
    BY <1>0, <2>1, <2>2, <2>3, <2>4, OrderSend
<1>3. CASE TrySend
  <2>1. PICK d \in Conversations, k \in Nat :
            Placing(d) /\ dispatcher.conversation = d /\ dispatcher.n = k
    BY <1>0, <1>3 DEF TrySend, Placing, TypeOK, DispatcherState
  <2> DEFINE w == inbound_workers[d]
  <2>2. w \in Workers
    BY <1>0, <1>3, <2>1, InboundAssumption DEF TrySend, TypeOK, Workers
  <2>3. CASE /\ worker' = [worker EXCEPT ![w].queue = Append(@, dispatcher.n)]
             /\ dispatcher' = [dispatcher EXCEPT !.phase = "select"]
    <3>1. /\ \A v \in Workers : v # w => worker'[v] = worker[v]
          /\ worker'[w].conversation = worker[w].conversation
          /\ worker'[w].queue = Append(worker[w].queue, k)
      <4> DEFINE r == [worker[w] EXCEPT !.queue = Append(worker[w].queue, k)]
      <4>1. worker' = [worker EXCEPT ![w] = r]
        BY <2>1, <2>3
      <4>2. r.conversation = worker[w].conversation /\ r.queue = Append(worker[w].queue, k)
        BY <1>0, <2>2 DEF TypeOK, WorkerState
      <4> HIDE DEF r, w
      <4> QED
        BY <1>0, <2>2, <4>1, <4>2 DEF TypeOK
    <3>2. worker[w].conversation = d
      BY <2>2 DEF WorkerInv, EntriesStarted, Workers
    <3>3. dispatcher'.phase = "select" /\ UNCHANGED <<received, handled>>
      BY <1>0, <1>3, <2>3 DEF TrySend, TypeOK, DispatcherState
    <3> HIDE DEF w
    <3> QED
      BY <1>0, <2>1, <2>2, <3>1, <3>2, <3>3, OrderSend
  <2>4. CASE /\ UNCHANGED worker
             /\ \/ dispatcher' = [dispatcher EXCEPT !.phase = "closed", !.worker = w]
                \/ dispatcher' = [dispatcher EXCEPT !.phase = "notice"]
    <3>1. /\ dispatcher'.conversation = dispatcher.conversation /\ dispatcher'.n = dispatcher.n
          /\ dispatcher.phase = "lookup"
      BY <1>0, <1>3, <2>4 DEF TrySend, TypeOK, DispatcherState
    <3> QED
      BY <1>3, <2>4, <3>1, <1>a DEF TrySend
  <2> QED
    BY <1>3, <2>1, <2>3, <2>4 DEF TrySend
<1>4. CASE Retry
  <2>1. /\ dispatcher'.conversation = dispatcher.conversation /\ dispatcher'.n = dispatcher.n
        /\ dispatcher.phase = "closed"
    BY <1>0, <1>4 DEF Retry, TypeOK, DispatcherState
  <2> QED
    BY <1>4, <2>1, <1>a DEF Retry, historyVars
<1>5. CASE NoticeSent
  <2>1. dispatcher'.phase = "select"
    BY <1>0, <1>5 DEF NoticeSent, TypeOK, DispatcherState
  <2> QED
    BY <1>5, <2>1, <1>a DEF NoticeSent, historyVars
<1>6. CASE BridgeEnds
  <2>1. \A w \in Workers : /\ worker'[w].conversation = worker[w].conversation
                           /\ worker'[w].queue = <<>>
    BY <1>0, <1>6, EndedTyped DEF BridgeEnds
  <2> QED
    BY <1>6, <2>1, <1>a DEF BridgeEnds, historyVars
<1>b. ASSUME NEW w \in Workers, worker' = [worker EXCEPT ![w] = Ended(w)],
             UNCHANGED <<dispatcher, received, handled>>
      PROVE  Ordered'
  <2>1. \A v \in Workers : /\ worker'[v].conversation = worker[v].conversation
                           /\ worker'[v].queue \in {worker[v].queue, <<>>}
    BY <1>0, <1>b, EndedTyped DEF TypeOK
  <2> QED
    BY <1>b, <2>1, <1>a
<1>7. ASSUME NEW w \in Workers, Recv(w) PROVE Ordered'
  BY <1>7, OrderTake DEF Recv
<1>8. ASSUME NEW w \in Workers, Leave(w) PROVE Ordered'
  <2>1. CASE Take(w)
    BY <1>8, <2>1, OrderTake DEF Leave
  <2>2. CASE ~Take(w)
    BY <1>8, <2>2, <1>b DEF Leave
  <2> QED
    BY <2>1, <2>2
<1>9. ASSUME NEW w \in Workers, IdleTimeout(w) \/ HandlerReturns(w) PROVE Ordered'
  <2>1. PICK p \in {"idle", "recv"} : worker' = [worker EXCEPT ![w].phase = p]
    BY <1>9 DEF IdleTimeout, HandlerReturns
  <2>2. \A v \in Workers : /\ worker'[v].conversation = worker[v].conversation
                           /\ worker'[v].queue = worker[v].queue
    BY <1>0, <2>1 DEF TypeOK, WorkerState
  <2> QED
    BY <1>9, <2>2, <1>a DEF IdleTimeout, HandlerReturns, historyVars
<1>10. ASSUME NEW w \in Workers, HandlerPanics(w) PROVE Ordered'
  BY <1>10, <1>b DEF HandlerPanics
<1>11. CASE UNCHANGED vars
  BY <1>11, <1>a DEF vars, historyVars
<1> QED
  BY <1>1, <1>2, <1>3, <1>4, <1>5, <1>6, <1>7, <1>8, <1>9, <1>10, <1>11
     DEF Next, DispatcherNext, WorkerNext

\* handle_inbound is called with the messages of a conversation in the order in
\* which they arrived, each at most once, whatever workers come, leave idle or
\* panic in between.
THEOREM OrderCorrect == Spec => []HandledInOrder
<1>1. Init => WorkerInv /\ Ordered
  BY WorkerInit, OrderInit
<1>2. WorkerInv /\ Ordered /\ [Next]_vars => (WorkerInv /\ Ordered)'
  BY WorkerStep, OrderStep
<1>3. Ordered => HandledInOrder
  BY DEF Ordered, HandledOrdered, HandledInOrder, Increasing
<1> QED
  BY <1>1, <1>2, <1>3, PTL DEF Spec
============================================================================
