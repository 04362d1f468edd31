--------------------------- MODULE RemoteSession ---------------------------
(***************************************************************************)
(* The request and initialization protocol that MochiPort speaks with a    *)
(* Codex app-server over the remote-control websocket: session_api.rs,     *)
(* recovery.rs, outbound.rs, the response half of server_messages.rs and   *)
(* the life of a connection in websocket.rs.                               *)
(*                                                                         *)
(* All tasks share remote_control.inner, an async mutex that is released   *)
(* at every await: one section under the lock is one step here.  A         *)
(* connection carries a client per client key; a client is initialized by  *)
(* whoever finds it uninitialized (the websocket task, a caller, the       *)
(* recovery), requests are registered in its pending map before they are   *)
(* sent, and the app-server may forget a client at any time, which it      *)
(* reports as "unknown" in a pong.                                         *)
(***************************************************************************)
EXTENDS Naturals, Sequences, FiniteSets, SequencesExt

CONSTANTS Clients,         \* client keys
          DefaultClient,   \* the connection's default_client_key
          Callers,         \* tasks that make one API request each
          ClientOf,        \* the client key of each caller
          NonIdempotent,   \* callers of thread/start, thread/fork, turn/start, turn/steer
          Abortable,       \* callers whose task may be aborted at an await
          RecoveryTasks,   \* bound: recovery tasks alive at a time
          MaxEpoch,        \* bound: connections
          MaxForgets,      \* bound: times the app-server forgets a client
          Drains           \* whether a lifecycle drain may begin and be cancelled

\* The websocket task that initializes the clients of its connection.
Opener == "opener"

Initializers == Callers \cup RecoveryTasks \cup {Opener}

ASSUME SessionAssumption ==
    /\ DefaultClient \in Clients
    /\ ClientOf \in [Callers -> Clients]
    /\ NonIdempotent \subseteq Callers
    /\ Abortable \subseteq Callers
    /\ Callers \cap RecoveryTasks = {}
    /\ Opener \notin Callers \cup RecoveryTasks
    /\ MaxEpoch \in Nat /\ MaxForgets \in Nat
    /\ Drains \in BOOLEAN

VARIABLES epoch,      \* connection_epoch of the open connection, 0 if none
          opened,     \* next_connection_epoch
          closing,    \* a Close message is in the outbound channel
          client,     \* RemoteControlClientState per client key
          proc,       \* the tasks
          toServer,   \* outbound channel and websocket, FIFO
          work,       \* server work queue, FIFO
          worker,     \* the response the work queue's task is in the middle of
          known,      \* app-server: clients it knows
          seen,       \* app-server: requests it has taken from a known client
          effects,    \* app-server: how often it carried out a caller's request
          forgets,    \* app-server: how often it forgot a client
          admitting   \* lifecycle_admission is Active

serverVars == <<known, seen, effects, forgets>>
vars == <<epoch, opened, closing, client, proc, toServer, work, worker, serverVars, admitting>>

\* Ids are drawn from one counter in the code; here they are unique by owner.
RequestId == [owner : Initializers, method : {"initialize", "request"}, n : Nat]

NewClient == [initialized |-> FALSE, recovering |-> FALSE, pending |-> {}]

\* A step of the worker after it has taken a request out of the pending map.
Idle == [step |-> "idle"]
WorkerState == {Idle} \cup [step : {"answer", "ready", "replay"}, client : Clients, id : RequestId]

\* drawn      request ids this task has used
\* reply      what its oneshot channel holds
\* retried    retry_after_reinitialize has been used up
\* left       clients the opener has still to look at
Task(phase) == [phase |-> phase, client |-> DefaultClient, epoch |-> 0, drawn |-> 0,
                reply |-> "none", retried |-> FALSE, left |-> {}]

Init == /\ epoch = 0 /\ opened = 0 /\ closing = FALSE
        /\ client = [c \in Clients |-> NewClient]
        /\ proc = [a \in Initializers |-> Task("idle")]
        /\ toServer = <<>> /\ work = <<>> /\ worker = Idle
        /\ known = [c \in Clients |-> FALSE]
        /\ seen = {}
        /\ effects = [a \in Callers |-> 0]
        /\ forgets = 0
        /\ admitting = TRUE

-----------------------------------------------------------------------------
Open == epoch # 0
\* run_websocket starts reader, writer, worker and stale check only when the
\* opener is through.
Running == Open /\ proc[Opener].phase = "idle"
OnConnection(a) == Open /\ proc[a].epoch = epoch
Initializing(c) == \E id \in client[c].pending : id.method = "initialize"

Go(a, phase) == proc' = [proc EXCEPT ![a].phase = phase]

\* A caller's future returns, or a recovery task or the opener, which may run
\* again, ends.
End(a, phase) ==
    proc' = [proc EXCEPT ![a] = IF a \in Callers THEN Task(phase)
                                ELSE [Task(phase) EXCEPT !.drawn = proc[a].drawn]]
Fail(a) == End(a, IF a \in Callers THEN "failed" ELSE "idle")

\* The id this task is waiting for, or about to send.
IdOf(a, method) == [owner |-> a, method |-> method, n |-> proc[a].drawn]

Envelope(c, id) == [type |-> id.method, client |-> c, id |-> id]

\* What a caller's oneshot gets when its pending entry is completed or dropped.
Notify(ids, reply) ==
    [a \in Initializers |->
        IF a \in Callers /\ proc[a].phase \in {"send", "await"} /\ IdOf(a, "request") \in ids
        THEN [proc[a] EXCEPT !.reply = reply] ELSE proc[a]]

-----------------------------------------------------------------------------
(* request_with_timeout_for_client and request_once_with_timeout_for_client_inner *)

\* try_admit, then wait_for_recovery_if_needed looks at recovery_started_at_ms.
Begin(a) ==
    /\ proc[a].phase = "idle"
    /\ IF admitting
       THEN proc' = [proc EXCEPT ![a].client = ClientOf[a],
                                 ![a].phase = IF Open /\ client[ClientOf[a]].recovering
                                              THEN "waitRecovery" ELSE "ready"]
       ELSE Fail(a)
    /\ UNCHANGED <<epoch, opened, closing, client, toServer, work, worker, serverVars, admitting>>

\* wait_for_remote_control_initialized polls every 100 ms: the connection is
\* gone, both the default client and this one are initialized, or time is up.
WaitInitialized(a) ==
    /\ proc[a].phase \in {"waitRecovery", "wait", "waitRetry"}
    /\ \/ /\ Open
          /\ client[DefaultClient].initialized
          /\ client[proc[a].client].initialized
          /\ Go(a, CASE proc[a].phase = "waitRecovery" -> "ready"
                     [] proc[a].phase = "wait"         -> "register"
                     [] proc[a].phase = "waitRetry"    -> "idle")
       \/ Fail(a)
    /\ UNCHANGED <<epoch, opened, closing, client, toServer, work, worker, serverVars, admitting>>

\* ensure_remote_control_client_ready finds the connection ...
EnsureReady(a) ==
    /\ proc[a].phase = "ready"
    /\ IF Open THEN proc' = [proc EXCEPT ![a].epoch = epoch, ![a].phase = "ensure"]
       ELSE Fail(a)
    /\ UNCHANGED <<epoch, opened, closing, client, toServer, work, worker, serverVars, admitting>>

\* ... and ensure_remote_control_client_initialized decides whether to
\* initialize on it; the sending happens in later sections.
EnsureInitialized(a) ==
    /\ proc[a].phase = "ensure"
    /\ Go(a, IF \/ ~OnConnection(a)
                \/ client[proc[a].client].initialized
                \/ Initializing(proc[a].client)
             THEN "wait" ELSE "initialize")
    /\ UNCHANGED <<epoch, opened, closing, client, toServer, work, worker, serverVars, admitting>>

\* send_initialize_for_client_on_connection: admit, register ...
RegisterInitialize(a) ==
    /\ proc[a].phase = "initialize"
    /\ a = Opener => admitting
    /\ IF admitting /\ OnConnection(a)
       THEN LET n == proc[a].drawn + 1
                id == [owner |-> a, method |-> "initialize", n |-> n]
            IN /\ client' = [client EXCEPT ![proc[a].client].pending = @ \cup {id}]
               /\ proc' = [proc EXCEPT ![a].drawn = n, ![a].phase = "sendInitialize"]
       ELSE Fail(a) /\ UNCHANGED client
    /\ UNCHANGED <<epoch, opened, closing, toServer, work, worker, serverVars, admitting>>

AfterInitialize(a) == IF a \in Callers THEN "wait"
                      ELSE IF a = Opener THEN "open" ELSE "waitInitialize"

\* ... and send.
SendInitialize(a) ==
    /\ proc[a].phase = "sendInitialize"
    /\ IF OnConnection(a)
       THEN /\ toServer' = Append(toServer, Envelope(proc[a].client, IdOf(a, "initialize")))
            /\ Go(a, AfterInitialize(a))
       ELSE Fail(a) /\ UNCHANGED toServer
    /\ UNCHANGED <<epoch, opened, closing, client, work, worker, serverVars, admitting>>

\* The request is registered on the connection that is open by now, if the
\* client is initialized there and the connection does not look stale.
RegisterRequest(a) ==
    /\ proc[a].phase = "register"
    /\ \/ /\ Open
          /\ client[proc[a].client].initialized
          /\ LET n == proc[a].drawn + 1
                 id == [owner |-> a, method |-> "request", n |-> n]
             IN /\ client' = [client EXCEPT ![proc[a].client].pending = @ \cup {id}]
                /\ proc' = [proc EXCEPT ![a].drawn = n, ![a].epoch = epoch,
                                        ![a].phase = "send"]
       \/ Fail(a) /\ UNCHANGED client
    /\ UNCHANGED <<epoch, opened, closing, toServer, work, worker, serverVars, admitting>>

SendRequest(a) ==
    /\ proc[a].phase = "send"
    /\ IF OnConnection(a)
       THEN /\ toServer' = Append(toServer, Envelope(proc[a].client, IdOf(a, "request")))
            /\ Go(a, "await")
       ELSE Fail(a) /\ UNCHANGED toServer
    /\ UNCHANGED <<epoch, opened, closing, client, work, worker, serverVars, admitting>>

\* should_retry_request_after_reinitialize
ShouldRetry(a) == a \notin NonIdempotent

\* The oneshot resolves: an answer, a dropped sender, or the reinitialize error
\* that is worth one repetition of an idempotent method.
Resolve(a) ==
    /\ proc[a].phase = "await"
    /\ proc[a].reply # "none"
    /\ CASE proc[a].reply = "ok"     -> End(a, "done")
         [] proc[a].reply = "closed" -> Fail(a)
         [] proc[a].reply = "reinitialized" ->
              IF ~proc[a].retried /\ ShouldRetry(a)
              THEN proc' = [proc EXCEPT ![a].retried = TRUE, ![a].reply = "none",
                                        ![a].phase = "waitRetry"]
              ELSE Fail(a)
    /\ UNCHANGED <<epoch, opened, closing, client, toServer, work, worker, serverVars, admitting>>

\* Mutant: no timeout around the receiver.
TimeoutNever(a) == FALSE /\ UNCHANGED vars

\* Mutant: a request that times out stays in the map.
TimeoutKeepsPending(a) ==
    /\ proc[a].phase = "await"
    /\ proc[a].reply = "none"
    /\ Fail(a)
    /\ UNCHANGED <<epoch, opened, closing, client, toServer, work, worker, serverVars, admitting>>

\* tokio::time::timeout around the receiver: the pending entry is removed.
Timeout(a) ==
    /\ proc[a].phase = "await"
    /\ proc[a].reply = "none"
    /\ client' = [client EXCEPT ![proc[a].client].pending = @ \ {IdOf(a, "request")}]
    /\ Fail(a)
    /\ UNCHANGED <<epoch, opened, closing, toServer, work, worker, serverVars, admitting>>

\* The task of a caller is aborted at an await, as stop_bridge_task does: what
\* it registered stays.
Abandon(a) ==
    /\ a \in Abortable
    /\ proc[a].phase \notin {"idle", "done", "failed", "aborted"}
    /\ End(a, "aborted")
    /\ UNCHANGED <<epoch, opened, closing, client, toServer, work, worker, serverVars, admitting>>

CallerNext(a) == \/ Begin(a) \/ WaitInitialized(a) \/ EnsureReady(a) \/ EnsureInitialized(a)
                 \/ RegisterInitialize(a) \/ SendInitialize(a)
                 \/ RegisterRequest(a) \/ SendRequest(a)
                 \/ Resolve(a) \/ Timeout(a)

-----------------------------------------------------------------------------
(* Recovery of a client that the app-server reports as unknown *)

\* reset_remote_control_client_for_key: fail everything that is pending, then
\* initialize again on the same stream.
Reset(t) ==
    /\ proc[t].phase = "reset"
    /\ LET c == proc[t].client
       IN /\ client' = [client EXCEPT ![c].initialized = FALSE, ![c].pending = {}]
          /\ proc' = [Notify(client[c].pending, "reinitialized") EXCEPT ![t].phase = "initialize"]
    /\ UNCHANGED <<epoch, opened, closing, toServer, work, worker, serverVars, admitting>>

\* Mutant: a reinitialization that times out gives up silently.
RecoveryGivesUp(t) ==
    /\ proc[t].phase = "waitInitialize"
    /\ IF client[proc[t].client].initialized THEN Go(t, "finish") ELSE End(t, "idle")
    /\ UNCHANGED <<epoch, opened, closing, client, toServer, work, worker, serverVars, admitting>>

\* wait_for_remote_control_initialized_on_connection within
\* REMOTE_CONTROL_UNKNOWN_REINITIALIZE_TIMEOUT; otherwise
\* force_remote_control_ws_reconnect.
RecoveryWait(t) ==
    /\ proc[t].phase = "waitInitialize"
    /\ \/ /\ client[proc[t].client].initialized
          /\ Go(t, "finish")
          /\ UNCHANGED closing
       \/ End(t, "idle") /\ closing' = TRUE
    /\ UNCHANGED <<epoch, opened, client, toServer, work, worker, serverVars, admitting>>

\* finish_remote_control_client_recovery
RecoveryFinish(t) ==
    /\ proc[t].phase = "finish"
    /\ client' = [client EXCEPT ![proc[t].client].recovering = FALSE]
    /\ End(t, "idle")
    /\ UNCHANGED <<epoch, opened, closing, toServer, work, worker, serverVars, admitting>>

RecoveryNext(t) == \/ Reset(t) \/ RegisterInitialize(t) \/ SendInitialize(t)
                   \/ RecoveryWait(t) \/ RecoveryFinish(t)

-----------------------------------------------------------------------------
(* The work queue: observe_app_server_message and the pong handler *)

Item == Head(work)
NextItem == worker = Idle /\ work # <<>> /\ work' = Tail(work)

\* observe_app_server_message takes the request of a response out of the map;
\* a response to nothing that is pending changes nothing.
HandleResponse ==
    /\ NextItem
    /\ Item.type \in {"request", "initialize"}
    /\ client' = [client EXCEPT ![Item.client].pending = @ \ {Item.id}]
    /\ LET after(step) == [step |-> step, client |-> Item.client, id |-> Item.id]
       IN worker' \in IF Item.id \notin client[Item.client].pending THEN {Idle}
                      ELSE IF Item.type = "request" THEN {after("answer")}
                      ELSE {after("ready"), Idle}  \* an initialize may be answered with an error
    /\ UNCHANGED <<epoch, opened, closing, proc, toServer, serverVars, admitting>>

\* In the end its oneshot is completed, if anyone still waits for it.
Answer ==
    /\ worker.step = "answer"
    /\ worker' = Idle
    /\ proc' = Notify({worker.id}, "ok")
    /\ UNCHANGED <<epoch, opened, closing, client, toServer, work, serverVars, admitting>>

\* The answer to an initialize makes the client ready and ends a recovery; the
\* "initialized" notification needs no answer.
HandleInitializeResult ==
    /\ worker.step = "ready"
    /\ worker' = [worker EXCEPT !.step = "replay"]
    /\ client' = [client EXCEPT ![worker.client].initialized = TRUE,
                                ![worker.client].recovering = FALSE]
    /\ UNCHANGED <<epoch, opened, closing, proc, toServer, work, serverVars, admitting>>

\* replay_pending_requests: the same envelopes, with the same seq_id, again.
ReplayPending ==
    /\ worker.step = "replay"
    /\ worker' = Idle
    /\ LET c == worker.client
           ids == {id \in client[c].pending : id.method = "request"}
       IN IF client[c].initialized
          THEN \E again \in SetToSeqs(ids) :  \* in the order of a HashMap
                 toServer' = toServer \o [i \in DOMAIN again |-> Envelope(c, again[i])]
          ELSE UNCHANGED toServer
    /\ UNCHANGED <<epoch, opened, closing, client, proc, work, serverVars, admitting>>

\* Mutant: a pong that reports the client unknown is only logged.
HandlePongIgnored ==
    /\ NextItem
    /\ Item.type = "pong"
    /\ UNCHANGED <<epoch, opened, closing, client, proc, toServer, worker, serverVars, admitting>>

\* handle_remote_app_pong_after_ack and start_remote_control_client_recovery:
\* at most one recovery is marked as started.
HandlePong ==
    /\ NextItem
    /\ Item.type = "pong"
    /\ IF ~client[Item.client].recovering
       THEN /\ client' = [client EXCEPT ![Item.client].recovering = TRUE,
                                        ![Item.client].initialized = FALSE]
            /\ \E t \in RecoveryTasks :
                 /\ proc[t].phase = "idle"
                 /\ proc' = [proc EXCEPT ![t].phase = "reset", ![t].client = Item.client,
                                         ![t].epoch = epoch]
       ELSE UNCHANGED <<client, proc>>
    /\ UNCHANGED <<epoch, opened, closing, toServer, worker, serverVars, admitting>>

WorkerNext == HandleResponse \/ Answer \/ HandleInitializeResult \/ ReplayPending \/ HandlePong

-----------------------------------------------------------------------------
(* The connection *)

\* run_websocket: a new epoch with fresh streams, which no app-server client
\* knows yet.  The opener initializes the default client and those of the
\* bound routes.
OpenConnection ==
    /\ ~Open
    /\ opened < MaxEpoch
    /\ opened' = opened + 1
    /\ epoch' = opened + 1
    /\ \E bound \in SUBSET (Clients \ {DefaultClient}) :
         proc' = [proc EXCEPT ![Opener] = [Task("open") EXCEPT !.epoch = opened + 1,
                                             !.drawn = proc[Opener].drawn,
                                             !.left = {DefaultClient} \cup bound]]
    /\ UNCHANGED <<closing, client, toServer, work, worker, serverVars, admitting>>

\* initialize_remote_clients_for_connection, the default client first
OpenerEnsure ==
    /\ proc[Opener].phase = "open"
    /\ LET left == proc[Opener].left
       IN \/ /\ left = {}
             /\ End(Opener, "idle")
          \/ \E c \in left :
               /\ DefaultClient \in left => c = DefaultClient
               /\ proc' = [proc EXCEPT ![Opener].left = left \ {c}, ![Opener].client = c,
                             ![Opener].phase = IF client[c].initialized \/ Initializing(c)
                                               THEN "open" ELSE "initialize"]
    /\ UNCHANGED <<epoch, opened, closing, client, toServer, work, worker, serverVars, admitting>>

\* cleanup_remote_control_connection: the clients go, with their pending maps,
\* and the worker is aborted with whatever it had not handled.  The recovery
\* tasks of the connection find it gone in all their remaining steps.
Cleanup ==
    /\ epoch' = 0
    /\ closing' = FALSE
    /\ client' = [c \in Clients |-> NewClient]
    /\ toServer' = <<>> /\ work' = <<>> /\ worker' = Idle
    /\ known' = [c \in Clients |-> FALSE]
    /\ seen' = {}
    /\ LET held == IF worker.step = "answer" THEN {worker.id} ELSE {}
           n == Notify(held \cup UNION {client[c].pending : c \in Clients}, "closed")
       IN proc' = [a \in Initializers |->
                     IF a \in Callers THEN n[a]
                     ELSE [Task("idle") EXCEPT !.drawn = n[a].drawn]]
    /\ UNCHANGED <<opened, effects, forgets, admitting>>

\* The websocket ends: the peer closes it, it breaks, or a heartbeat times out.
Disconnect == Running /\ Cleanup

\* The writer takes the Close message of a forced reconnect.
CloseRequested == Running /\ closing /\ Cleanup

\* Mutant: the stale check looks at nothing.
StaleNever == FALSE /\ UNCHANGED vars

\* remote_control_stale_reason: the default client has not been initialized in
\* time.
InitializeTimeout == Running /\ ~client[DefaultClient].initialized /\ Cleanup

\* The initialize of a new connection is not admitted: run_websocket gives up.
OpenerRefused == proc[Opener].phase = "initialize" /\ ~admitting /\ Cleanup

OpenerNext == \/ OpenerEnsure \/ RegisterInitialize(Opener) \/ SendInitialize(Opener)
              \/ OpenerRefused

\* A lifecycle drain begins, or is cancelled.
ToggleDrain ==
    /\ Drains
    /\ admitting' = ~admitting
    /\ UNCHANGED <<epoch, opened, closing, client, proc, toServer, work, worker, serverVars>>

-----------------------------------------------------------------------------
(* The app-server, as the code relies on it: it answers an initialize, takes a
   request once per stream and client life, and answers pings. *)

Message == Head(toServer)
Receive(type) == Running /\ toServer # <<>> /\ Message.type = type /\ toServer' = Tail(toServer)

ServerInitialize ==
    /\ Receive("initialize")
    /\ known' = [known EXCEPT ![Message.client] = TRUE]
    /\ work' = Append(work, Message)
    /\ UNCHANGED <<epoch, opened, closing, client, proc, worker, seen, effects, forgets, admitting>>

ServerRequest ==
    /\ Receive("request")
    /\ IF known[Message.client] /\ Message \notin seen
       THEN /\ seen' = seen \cup {Message}
            /\ effects' = [effects EXCEPT ![Message.id.owner] = @ + 1]
            /\ work' \in {work, Append(work, Message)}  \* it may never answer
       ELSE UNCHANGED <<seen, effects, work>>
    /\ UNCHANGED <<epoch, opened, closing, client, proc, worker, known, forgets, admitting>>

\* An app ping, which only initialized clients get, is answered "unknown";
\* record_remote_app_pong looks at the client when the pong arrives.  A pong
\* that finds the client known, or not initialized, changes nothing.
PongUnknown(c) ==
    /\ Open
    /\ client[c].initialized
    /\ ~known[c]
    /\ \A i \in DOMAIN work : work[i].type = "pong" => work[i].client # c
    /\ work' = Append(work, [type |-> "pong", client |-> c])
    /\ UNCHANGED <<epoch, opened, closing, client, proc, toServer, worker, serverVars, admitting>>

\* The app-server loses a client, and with it what it had taken from it.
Forget(c) ==
    /\ known[c]
    /\ forgets < MaxForgets
    /\ forgets' = forgets + 1
    /\ known' = [known EXCEPT ![c] = FALSE]
    /\ seen' = {m \in seen : m.client # c}
    /\ UNCHANGED <<epoch, opened, closing, client, proc, toServer, work, worker, effects, admitting>>

ServerNext == ServerInitialize \/ ServerRequest

Next == \/ \E a \in Callers : CallerNext(a) \/ Abandon(a)
        \/ \E t \in RecoveryTasks : RecoveryNext(t)
        \/ WorkerNext
        \/ OpenConnection \/ OpenerNext
        \/ Disconnect \/ CloseRequested \/ InitializeTimeout
        \/ \E c \in Clients : PongUnknown(c) \/ Forget(c)
        \/ ServerNext
        \/ ToggleDrain

Spec == Init /\ [][Next]_vars

\* Tasks are scheduled fairly, timers fire, the websocket delivers and the
\* app-server takes what it is sent.  Nothing forces a connection to open, to
\* break or to forget.
Fairness == /\ \A a \in Callers : WF_vars(CallerNext(a))
            /\ \A t \in RecoveryTasks : WF_vars(RecoveryNext(t))
            /\ \A c \in Clients : WF_vars(PongUnknown(c))
            /\ WF_vars(OpenerNext)
            /\ WF_vars(WorkerNext)
            /\ WF_vars(ServerNext)
            /\ WF_vars(CloseRequested)
            /\ WF_vars(InitializeTimeout)

LiveSpec == Spec /\ Fairness

-----------------------------------------------------------------------------
CallerPhase == {"idle", "waitRecovery", "ready", "ensure", "initialize", "sendInitialize", "wait",
                "register", "send", "await", "waitRetry", "done", "failed", "aborted"}
RecoveryPhase == {"idle", "reset", "initialize", "sendInitialize", "waitInitialize", "finish"}
OpenerPhase == {"idle", "open", "initialize", "sendInitialize"}

\* Every variable stays in its domain and every task in the phases of its kind.
TypeOK == /\ epoch \in 0..MaxEpoch /\ opened \in 0..MaxEpoch
          /\ closing \in BOOLEAN /\ admitting \in BOOLEAN
          /\ worker \in WorkerState
          /\ known \in [Clients -> BOOLEAN]
          /\ forgets \in 0..MaxForgets
          /\ \A c \in Clients : /\ client[c].initialized \in BOOLEAN
                                /\ client[c].recovering \in BOOLEAN
                                /\ client[c].pending \subseteq RequestId
          /\ \A a \in Callers : proc[a].phase \in CallerPhase
          /\ \A t \in RecoveryTasks : proc[t].phase \in RecoveryPhase
          /\ proc[Opener].phase \in OpenerPhase

\* What the test recovery_retry_policy_does_not_replay_non_idempotent_requests
\* and the error "not replaying method" promise: the app-server carries out a
\* turn/start (or steer, or a thread/start, /fork) at most once.
ExecutedOnce == \A a \in NonIdempotent : effects[a] <= 1

\* While a client is marked as recovering, its recovery is running or the
\* connection is about to be closed.  "recovery_already_running" in the log is
\* then true, and no request waits for a recovery that nobody runs.
RecoveryHasOwner ==
    \A c \in Clients :
        client[c].recovering =>
            \/ closing
            \/ \E t \in RecoveryTasks : proc[t].phase # "idle" /\ proc[t].client = c

\* An entry of a pending map holds a lifecycle permit and the sender that wakes
\* its caller: a request is in the map exactly while its caller is still to be
\* woken, or the worker holds it to do so, through timeouts, resets, retries and
\* lost connections.  (A task that is aborted leaves its entry behind.)
PendingIsAwaited ==
    \A a \in {b \in Callers : proc[b].phase # "aborted"} : \A c \in Clients :
        LET waiting == /\ proc[a].phase \in {"send", "await"}
                       /\ proc[a].reply = "none"
                       /\ proc[a].client = c
                       /\ ~(worker.step = "answer" /\ worker.id = IdOf(a, "request"))
        IN {id \in client[c].pending : id.owner = a /\ id.method = "request"}
              = IF waiting THEN {IdOf(a, "request")} ELSE {}

\* The state of a connection is well formed, and nobody is forgotten in it: the
\* pending map and the waiting callers agree.
SessionInv == TypeOK /\ PendingIsAwaited

\* Every call returns, whatever is lost, forgotten, reinitialized or closed.
CallReturns == \A a \in Callers : <>(proc[a].phase \in {"done", "failed", "aborted"})

\* A client that the app-server has forgotten is found out by a ping and known
\* again, or its connection is given up.
UnknownClientRecovers ==
    \A c \in Clients : \A e \in 1..MaxEpoch :
        (epoch = e /\ client[c].initialized /\ ~known[c]) ~> (epoch # e \/ known[c])

\* A connection whose default client does not get initialized, because its
\* initialize was lost with the task that registered it, is closed.
DefaultClientSettles ==
    \A e \in 1..MaxEpoch :
        (epoch = e) ~> (epoch # e \/ client[DefaultClient].initialized)
=============================================================================
