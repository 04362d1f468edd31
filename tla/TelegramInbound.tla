-------------------------- MODULE TelegramInbound --------------------------
(***************************************************************************)
(* How the bridge (src/bridge.rs) hands Telegram messages to one worker    *)
(* per conversation.  The dispatcher is the bridge's own loop: it looks up *)
(* or creates the worker and tries to enqueue, under the lock of           *)
(* inbound_workers.  A worker leaves after an idle timeout, if it finds    *)
(* under the same lock that nothing has arrived in between; it also ends   *)
(* when its handler panics, with its entry still in the map and its queue  *)
(* lost.                                                                   *)
(*                                                                         *)
(* Messages of a conversation are numbered in the order of their arrival.  *)
(***************************************************************************)
EXTENDS Naturals, Sequences

CONSTANTS Conversations,  \* conversation keys
          Capacity,       \* TELEGRAM_INBOUND_QUEUE_CAPACITY
          MaxMessages,    \* bound: messages of a conversation
          MaxWorkers,     \* bound: workers started
          MaxPanics       \* bound: handlers that panic

ASSUME InboundAssumption ==
    /\ Capacity \in Nat \ {0}
    /\ MaxMessages \in Nat /\ MaxWorkers \in Nat /\ MaxPanics \in Nat

VARIABLES up,                      \* the bridge runs
          dispatcher,              \* what the bridge's loop is doing
          inbound_workers,         \* registered worker of each conversation, 0 if none
          next_inbound_worker_id,  \* the id used last
          worker,                  \* the workers ever started
          received,                \* messages taken from the channel, per conversation
          handled,                 \* messages given to handle_inbound, in this order
          refused,                 \* messages answered with the busy notice
          panicked,                \* messages in the queue of a worker that panicked
          panics

historyVars == <<received, handled, refused, panicked, panics>>
vars == <<up, dispatcher, inbound_workers, next_inbound_worker_id, worker, historyVars>>

Workers == 1..MaxWorkers

\* select   waits for a message or for a task to end
\* lookup   has a message and is about to lock inbound_workers
\* closed   could not send: the registered worker has ended
\* notice   sends the busy notice
DispatcherState == [phase : {"select", "lookup", "closed", "notice"},
                    conversation : Conversations, n : Nat, attempt : {0, 1},
                    worker : 0..MaxWorkers]

\* recv     in rx.recv() with its timeout       handle   in handle_inbound
\* idle     timed out, about to lock the map    gone     the receiver is dropped
WorkerState == [conversation : Conversations, phase : {"recv", "idle", "handle", "gone"},
                queue : Seq(Nat)]

Init ==
    /\ up = TRUE
    /\ dispatcher \in [phase : {"select"}, conversation : Conversations, n : {0}, attempt : {0},
                      worker : {0}]
    /\ inbound_workers = [c \in Conversations |-> 0]
    /\ next_inbound_worker_id = 0
    /\ worker \in [Workers -> [conversation : {dispatcher.conversation}, phase : {"gone"},
                               queue : {<<>>}]]
    /\ received = [c \in Conversations |-> 0]
    /\ handled = [c \in Conversations |-> <<>>]
    /\ refused = [c \in Conversations |-> {}]
    /\ panicked = [c \in Conversations |-> {}]
    /\ panics = 0

Elements(s) == {s[i] : i \in 1..Len(s)}

\* A worker whose task has ended: its receiver is dropped with what is queued.
Ended(w) == [worker[w] EXCEPT !.phase = "gone", !.queue = <<>>]

-----------------------------------------------------------------------------
(* The loop of start_bridge *)

\* rx.recv() yields a message of this bridge's generation.
Receive(c) ==
    /\ up
    /\ dispatcher.phase = "select"
    /\ received[c] < MaxMessages
    /\ received' = [received EXCEPT ![c] = @ + 1]
    /\ dispatcher' = [phase |-> "lookup", conversation |-> c, n |-> received[c] + 1,
                      attempt |-> 0, worker |-> 0]
    /\ UNCHANGED <<up, inbound_workers, next_inbound_worker_id, worker, handled, refused,
                   panicked, panics>>

\* Mutant: every message gets a worker of its own.
StartWorkerAlways ==
    /\ up
    /\ dispatcher.phase = "lookup"
    /\ next_inbound_worker_id < MaxWorkers
    /\ LET w == next_inbound_worker_id + 1
       IN /\ next_inbound_worker_id' = w
          /\ inbound_workers' = [inbound_workers EXCEPT ![dispatcher.conversation] = w]
          /\ worker' = [worker EXCEPT ![w] = [conversation |-> dispatcher.conversation,
                                              phase |-> "recv", queue |-> <<dispatcher.n>>]]
    /\ dispatcher' = [dispatcher EXCEPT !.phase = "select"]
    /\ UNCHANGED <<up, historyVars>>

\* No worker is registered: create one, send it the message and spawn it.
StartWorker ==
    /\ up
    /\ dispatcher.phase = "lookup"
    /\ inbound_workers[dispatcher.conversation] = 0
    /\ next_inbound_worker_id < MaxWorkers
    /\ LET w == next_inbound_worker_id + 1
       IN /\ next_inbound_worker_id' = w
          /\ inbound_workers' = [inbound_workers EXCEPT ![dispatcher.conversation] = w]
          /\ worker' = [worker EXCEPT ![w] = [conversation |-> dispatcher.conversation,
                                              phase |-> "recv", queue |-> <<dispatcher.n>>]]
    /\ dispatcher' = [dispatcher EXCEPT !.phase = "select"]
    /\ UNCHANGED <<up, historyVars>>

\* The channel of a worker was created with this capacity.
HasRoom(w) == Len(worker[w].queue) < Capacity

\* worker.tx.try_send(message) to the registered worker
TrySend ==
    /\ up
    /\ dispatcher.phase = "lookup"
    /\ LET c == dispatcher.conversation
           w == inbound_workers[c]
       IN /\ w # 0
          /\ \/ /\ worker[w].phase = "gone"
                /\ dispatcher' = [dispatcher EXCEPT !.phase = "closed", !.worker = w]
                /\ UNCHANGED <<worker, refused>>
             \/ /\ worker[w].phase # "gone"
                /\ HasRoom(w)
                /\ worker' = [worker EXCEPT ![w].queue = Append(@, dispatcher.n)]
                /\ dispatcher' = [dispatcher EXCEPT !.phase = "select"]
                /\ UNCHANGED refused
             \/ /\ worker[w].phase # "gone"
                /\ ~HasRoom(w)
                /\ refused' = [refused EXCEPT ![c] = @ \cup {dispatcher.n}]
                /\ dispatcher' = [dispatcher EXCEPT !.phase = "notice"]
                /\ UNCHANGED worker
    /\ UNCHANGED <<up, inbound_workers, next_inbound_worker_id, received, handled, panicked, panics>>

\* Mutant: the entry of the ended worker is left in the map.
RetryKeepsEntry ==
    /\ up
    /\ dispatcher.phase = "closed"
    /\ dispatcher' = IF dispatcher.attempt = 0
                     THEN [dispatcher EXCEPT !.phase = "lookup", !.attempt = 1]
                     ELSE [dispatcher EXCEPT !.phase = "select"]
    /\ UNCHANGED <<up, inbound_workers, next_inbound_worker_id, worker, historyVars>>

\* TrySendError::Closed: remove the entry, if it is still this worker's, and try
\* once more; a second failure gives the message up.
Retry ==
    /\ up
    /\ dispatcher.phase = "closed"
    /\ inbound_workers' = [inbound_workers EXCEPT ![dispatcher.conversation] =
                              IF @ = dispatcher.worker THEN 0 ELSE @]
    /\ dispatcher' = IF dispatcher.attempt = 0
                     THEN [dispatcher EXCEPT !.phase = "lookup", !.attempt = 1]
                     ELSE [dispatcher EXCEPT !.phase = "select"]
    /\ UNCHANGED <<up, next_inbound_worker_id, worker, historyVars>>

\* send_text with the busy notice returns, or fails.
NoticeSent ==
    /\ up
    /\ dispatcher.phase = "notice"
    /\ dispatcher' = [dispatcher EXCEPT !.phase = "select"]
    /\ UNCHANGED <<up, inbound_workers, next_inbound_worker_id, worker, historyVars>>

\* The generation is not current any more, or the bridge task is aborted: all
\* its tasks are.
BridgeEnds ==
    /\ up
    /\ up' = FALSE
    /\ worker' = [w \in Workers |-> Ended(w)]
    /\ UNCHANGED <<dispatcher, inbound_workers, next_inbound_worker_id, historyVars>>

DispatcherNext == StartWorker \/ TrySend \/ Retry

-----------------------------------------------------------------------------
(* run_telegram_inbound_worker *)

\* Takes the next message and calls handle_inbound with it.
Take(w) ==
    /\ worker[w].queue # <<>>
    /\ worker' = [worker EXCEPT ![w] = [@ EXCEPT !.phase = "handle", !.queue = Tail(worker[w].queue)]]
    /\ handled' = [handled EXCEPT ![worker[w].conversation] = Append(@, Head(worker[w].queue))]

\* rx.recv() within the idle timeout.  It yields None only if the entry, which
\* holds the sender, is removed while the worker runs, and that never happens:
\* LiveRegistered of TelegramInboundProofs.
Recv(w) ==
    /\ up
    /\ worker[w].phase = "recv"
    /\ Take(w)
    /\ UNCHANGED <<up, dispatcher, inbound_workers, next_inbound_worker_id, received, refused,
                   panicked, panics>>

\* TELEGRAM_INBOUND_WORKER_IDLE passes.
IdleTimeout(w) ==
    /\ up
    /\ worker[w].phase = "recv"
    /\ worker[w].queue = <<>>
    /\ worker' = [worker EXCEPT ![w].phase = "idle"]
    /\ UNCHANGED <<up, dispatcher, inbound_workers, next_inbound_worker_id, historyVars>>

\* Mutant: the worker leaves without looking at its queue again.
LeaveUnchecked(w) ==
    /\ up
    /\ worker[w].phase = "idle"
    /\ worker' = [worker EXCEPT ![w] = Ended(w)]
    /\ inbound_workers' = [inbound_workers EXCEPT ![worker[w].conversation] = 0]
    /\ UNCHANGED <<up, dispatcher, next_inbound_worker_id, historyVars>>

\* Mutant: the entry is removed before the queue is looked at.
LeaveTooEarly(w) ==
    /\ up
    /\ worker[w].phase = "idle"
    /\ inbound_workers' = [inbound_workers EXCEPT ![worker[w].conversation] = 0]
    /\ \/ Take(w)
       \/ /\ worker[w].queue = <<>>
          /\ worker' = [worker EXCEPT ![w].phase = "gone"]
          /\ UNCHANGED handled
    /\ UNCHANGED <<up, dispatcher, next_inbound_worker_id, received, refused, panicked, panics>>

\* With the map locked: try_recv, and leave if there is nothing.  A worker that
\* is not the registered one leaves at once.
Leave(w) ==
    /\ up
    /\ worker[w].phase = "idle"
    /\ LET c == worker[w].conversation
           registered == inbound_workers[c] = w
       IN \/ registered /\ Take(w) /\ UNCHANGED inbound_workers
          \/ /\ registered => worker[w].queue = <<>>
             /\ worker' = [worker EXCEPT ![w] = Ended(w)]
             /\ inbound_workers' = IF registered THEN [inbound_workers EXCEPT ![c] = 0]
                                   ELSE inbound_workers
             /\ UNCHANGED handled
    /\ UNCHANGED <<up, dispatcher, next_inbound_worker_id, received, refused, panicked, panics>>

\* handle_inbound returns; an error is only logged.
HandlerReturns(w) ==
    /\ up
    /\ worker[w].phase = "handle"
    /\ worker' = [worker EXCEPT ![w].phase = "recv"]
    /\ UNCHANGED <<up, dispatcher, inbound_workers, next_inbound_worker_id, historyVars>>

\* handle_inbound panics: the task ends, its receiver and queue are dropped.
HandlerPanics(w) ==
    /\ up
    /\ worker[w].phase = "handle"
    /\ panics < MaxPanics
    /\ panics' = panics + 1
    /\ panicked' = [panicked EXCEPT ![worker[w].conversation] = @ \cup Elements(worker[w].queue)]
    /\ worker' = [worker EXCEPT ![w] = Ended(w)]
    /\ UNCHANGED <<up, dispatcher, inbound_workers, next_inbound_worker_id, received, handled, refused>>

WorkerNext(w) == Recv(w) \/ Leave(w)

Next == \/ \E c \in Conversations : Receive(c)
        \/ DispatcherNext \/ NoticeSent
        \/ BridgeEnds
        \/ \E w \in Workers : \/ WorkerNext(w) \/ IdleTimeout(w)
                              \/ HandlerReturns(w) \/ HandlerPanics(w)

Spec == Init /\ [][Next]_vars

\* The bridge's loop and its workers are polled.  Nothing bounds the time that
\* the notice or a handler takes: the HTTP client has no timeout for a whole
\* request.
Fairness == WF_vars(DispatcherNext) /\ \A w \in Workers : WF_vars(WorkerNext(w))

LiveSpec == Spec /\ Fairness

-----------------------------------------------------------------------------
\* Every variable stays in its domain and no queue grows beyond its capacity.
TypeOK == /\ up \in BOOLEAN
          /\ dispatcher \in DispatcherState
          /\ inbound_workers \in [Conversations -> 0..MaxWorkers]
          /\ next_inbound_worker_id \in 0..MaxWorkers
          /\ worker \in [Workers -> WorkerState]
          /\ \A w \in Workers : Len(worker[w].queue) <= Capacity
          /\ received \in [Conversations -> 0..MaxMessages]
          /\ handled \in [Conversations -> Seq(Nat)]
          /\ refused \in [Conversations -> SUBSET Nat]
          /\ panicked \in [Conversations -> SUBSET Nat]
          /\ panics \in 0..MaxPanics

\* "Keep each private chat ordered": whatever workers come and go, at most one
\* of them handles messages of a conversation at a time.
OneAtATime ==
    \A v, w \in Workers :
        /\ v # w
        /\ worker[v].conversation = worker[w].conversation
        => ~(worker[v].phase = "handle" /\ worker[w].phase = "handle")

\* The handlers of a conversation are called in the order of its messages, each
\* at most once.
HandledInOrder ==
    \A c \in Conversations : \A i, j \in 1..Len(handled[c]) :
        i < j => handled[c][i] < handled[c][j]

\* Where a message of a running bridge can be: with the dispatcher, in the queue
\* of the worker that is registered, handled, refused with a notice, or lost to
\* a panic.  None is left behind in the queue of a worker that went idle, and
\* the dispatcher's two attempts are enough.
NothingLost ==
    up => \A c \in Conversations : \A n \in 1..received[c] :
        \/ dispatcher.phase \in {"lookup", "closed"} /\ dispatcher.conversation = c /\ dispatcher.n = n
        \/ inbound_workers[c] # 0 /\ n \in Elements(worker[inbound_workers[c]].queue)
        \/ n \in Elements(handled[c]) \cup refused[c] \cup panicked[c]

\* A busy notice, or a handler of this conversation, has not returned.
Stuck(c) == \/ dispatcher.phase = "notice"
            \/ \E w \in Workers : worker[w].conversation = c /\ worker[w].phase = "handle"

\* Every message is handled, refused or lost to a panic, unless the bridge ends,
\* a busy notice never returns or a handler of the same conversation never does:
\* "different chats run concurrently", so a handler that hangs in one chat does
\* not hold up another.
MessagesSettle ==
    \A c \in Conversations : \A n \in 1..MaxMessages :
        (received[c] >= n) ~>
            \/ ~up
            \/ n \in Elements(handled[c]) \cup refused[c] \cup panicked[c]
            \/ []Stuck(c)
============================================================================
