---------------------------- MODULE TelegramTurns ----------------------------
(***************************************************************************)
(* The turns of one Codex thread that is bound to one Telegram             *)
(* conversation, and the conversation's queue of further turns.            *)
(*                                                                         *)
(* Four kinds of tasks work on RuntimeState, each taking its lock anew for *)
(* every step: the bridge's router of notifications, the conversation's    *)
(* inbound worker, the 60 s timers of the IM side (one per fallback token) *)
(* and the 120 s timers of the server side.  Any of the first three may be *)
(* the one that starts the next queued turn.                               *)
(*                                                                         *)
(* The app-server is external.  What it says passes the server boundary    *)
(* (remote_control_backend/server_messages.rs) in one step and waits in    *)
(* the broadcast channel for the router.                                   *)
(***************************************************************************)
EXTENDS Integers, SequencesExt

CONSTANTS QueueMax,       \* TELEGRAM_QUEUED_TURNS_MAX_COUNT
          NoticeHistory,  \* TERMINAL_NOTICE_TURN_HISTORY_MAX
          MaxTurns,       \* bound: turns of the app-server
          MaxItems,       \* bound: queued messages
          MaxMessages,    \* bound: other messages and commands
          MaxTokens,      \* bound: fallback latches
          MaxRestarts,    \* bound: restarts of the bridge
          Faults          \* which of PossibleFaults may happen

\* orphan   the app-server ends a turn without saying turn/completed
\* refusal  the lifecycle gate refuses the start of a queued turn
\* failure  a turn/start fails, its turn having started or not
\* late     a turn is over before the task that started it sees the response
\* notice   the message that confirms a /stop cannot be sent
\* lag      the router is told that it has missed notifications
\* slow     a timer fires while the router is behind
PossibleFaults == {"orphan", "refusal", "failure", "late", "notice", "lag", "slow"}

ASSUME TurnsAssumption ==
    /\ QueueMax \in Nat \ {0} /\ NoticeHistory \in Nat \ {0}
    /\ MaxTurns \in Nat /\ MaxItems \in Nat /\ MaxMessages \in Nat
    /\ MaxTokens \in Nat /\ MaxRestarts \in Nat
    /\ Faults \subseteq PossibleFaults

VARIABLES
    bound,        \* route_by_thread has the thread
    current,      \* current_turn_by_thread, 0 if none
    starting,     \* starting_turn_by_thread
    overtaken,    \* turn_started_at_by_thread or turn_finished_at_by_thread was set
                  \* while the message taken from the queue was in hand
    queue,        \* pending_telegram_turns_by_conversation
    latch,        \* terminal_status_fallback_by_thread
    token,        \* next_terminal_status_fallback_token
    notices,      \* terminal_notice_failed_by_turn, in the order of the claims
    client_turn,  \* current_turn_id of the remote client, 0 if none
    start_ops,    \* holder of telegram_queue_start_ops
    actor,        \* the tasks
    orphans,      \* server-side timers that have not fired, as <<token, turn>>
    channel,      \* notifications the router has not received
    server,       \* the app-server
    items,        \* history: messages accepted by /queue
    submitted,    \* history: queued messages sent with turn/start
    dropped,      \* history: queued messages given up
    told,         \* history: failure notices of each turn
    announced,    \* history: the turn whose turn/started the router has seen
    excused,      \* history: a fault has happened that may strand the queue
    forsaken,     \* history: a start has lost its binding or its task
    messages, restarts

runtimeVars == <<bound, current, starting, overtaken, queue, latch, token, notices>>
queueHistory == <<items, submitted, dropped>>
boundVars == <<messages, restarts, forsaken>>
vars == <<runtimeVars, client_turn, start_ops, actor, orphans, channel, server, queueHistory,
          told, announced, excused, boundVars>>

Turns == 1..MaxTurns
Tokens == 1..MaxTokens
Router == 0
Worker == MaxTokens + 1
Actors == 0..(MaxTokens + 1)
Nobody == -1

NoLatch == [turn |-> 0, token |-> 0, event |-> FALSE, server |-> FALSE]

\* asleep   a timer before it fires          finish   delivers what is left of a turn
\* notice   claims the terminal notice       stop     awaits the interrupt of /stop
\* exit     awaits the interrupt of /exit    leave    finishes the turn of an /exit
\* unbind   drops queue and binding          lock     awaits telegram_queue_start_ops
\* take     takes the next queued message    route    enters start_turn_for_route
\* mark     is about to reserve the thread   await    awaits the response to turn/start
\* requeue  was refused as busy              clear    found no thread
Idle == [pc |-> "idle", turn |-> 0, item |-> 0, failed |-> FALSE, ok |-> FALSE]

Init ==
    /\ bound = TRUE /\ current = 0 /\ starting = FALSE /\ overtaken = FALSE /\ queue = <<>>
    /\ latch = NoLatch /\ token = 0 /\ notices = <<>> /\ client_turn = 0
    /\ start_ops = Nobody
    /\ actor = [a \in Actors |-> Idle]
    /\ orphans = {} /\ channel = <<>>
    /\ server = [turn |-> 0, running |-> FALSE, started |-> TRUE, failed |-> FALSE, owes |-> {}]
    /\ items = 0 /\ submitted = <<>> /\ dropped = {}
    /\ told = [t \in Turns |-> 0] /\ announced = 0 /\ excused = FALSE /\ forsaken = FALSE
    /\ messages = 0 /\ restarts = 0

-----------------------------------------------------------------------------
(* RuntimeState: each of these holds its lock from beginning to end *)

TurnInProgress == current # 0 \/ starting

\* The queued message that a task has taken and not yet sent.
Held(a) == IF actor[a].pc \in {"route", "mark", "requeue"} THEN {actor[a].item} \ {0} ELSE {}

\* The time of the latest turn is set, which is what a message is compared with.
Stamp == overtaken' = (overtaken \/ \E a \in Actors : Held(a) # {})

\* Mutant: the latch of an earlier status survives the start of a turn.
MarkTurnStartedKeepsLatch(t) ==
    /\ current' = t
    /\ starting' = FALSE
    /\ Stamp
    /\ UNCHANGED latch

MarkTurnStarted(t) ==
    /\ current' = t
    /\ starting' = FALSE
    /\ latch' = NoLatch
    /\ Stamp

MarkTurnCompleted(t) ==
    IF current = t
    THEN current' = 0 /\ starting' = FALSE /\ latch' = NoLatch /\ Stamp
    ELSE UNCHANGED <<current, starting, overtaken, latch>>

CancelTerminalStatusFallback(t) ==
    latch' = IF latch.turn = t THEN NoLatch ELSE latch

ClaimOf(t) == {i \in DOMAIN notices : notices[i].turn = t}

\* Mutant: a failure is always announced.
ClaimFailureAgain(t, failed) == failed \/ ClaimOf(t) = {}

\* claim_terminal_notice: its answer ...
MayClaimNotice(t, failed) == \A i \in ClaimOf(t) : failed /\ ~notices[i].failed

\* ... and the claims it leaves
NoticesAfterClaim(t, failed) ==
    IF ClaimOf(t) # {}
    THEN [i \in DOMAIN notices |->
             IF i \in ClaimOf(t) THEN [notices[i] EXCEPT !.failed = @ \/ failed] ELSE notices[i]]
    ELSE LET all == Append(notices, [turn |-> t, failed |-> failed])
         IN IF Len(all) > NoticeHistory THEN Tail(all) ELSE all

ReleaseNotice(t) ==
    notices' = IF ClaimOf(t) = {} THEN notices
               ELSE RemoveAt(notices, CHOOSE i \in ClaimOf(t) : TRUE)

\* Some task has looked up the binding and is about to reserve the thread, or
\* to put a message back.
Forsake == forsaken' = (forsaken \/ \E a \in Actors : actor[a].pc \in {"mark", "requeue"})

\* unbind_routes_for_conversation_with_reason; nothing if no thread is bound
UnbindRoutes ==
    /\ bound' = FALSE
    /\ IF bound
       THEN /\ current' = 0 /\ starting' = FALSE /\ overtaken' = FALSE
            /\ latch' = NoLatch /\ queue' = <<>>
            /\ dropped' = dropped \cup {queue[i] : i \in DOMAIN queue}
       ELSE UNCHANGED <<current, starting, overtaken, latch, queue, dropped>>

-----------------------------------------------------------------------------
(* The app-server, and what the server boundary does with its notifications *)

\* A notification for the router: its kind, turn and outcome.
Event(kind) == [kind |-> kind, turn |-> server.turn, failed |-> server.failed]

NewTurn == [turn |-> server.turn + 1, running |-> TRUE, started |-> FALSE, failed |-> FALSE,
            owes |-> {}]

\* A turn that somebody starts in the Codex application.
DesktopTurn ==
    /\ ~server.running /\ server.owes = {}
    /\ server.turn < MaxTurns
    /\ server' = NewTurn
    /\ UNCHANGED <<runtimeVars, client_turn, start_ops, actor, orphans, channel, queueHistory,
                   told, announced, excused, boundVars>>

\* turn/start is accepted; the turn id is in the response, which a has not seen.
Accept(a) ==
    /\ actor[a].pc = "await" /\ actor[a].turn = 0
    /\ ~server.running /\ server.owes = {}
    /\ server.turn < MaxTurns
    /\ server' = NewTurn
    /\ actor' = [actor EXCEPT ![a].turn = server.turn + 1]
    /\ UNCHANGED <<runtimeVars, client_turn, start_ops, orphans, channel, queueHistory, told,
                   announced, excused, boundVars>>

\* What the app-server says at the end of a turn, in some order.  A status may
\* arm a latch on each side, which bounds the turns that have one.
Farewells(failed) ==
    {s \in SUBSET {"error", "completed", "status"} :
        /\ "error" \in s => failed
        /\ "status" \in s => 2 * server.turn <= MaxTokens
        /\ "completed" \in s \/ ("orphan" \in Faults /\ "status" \in s)}

EndTurn ==
    /\ server.running /\ server.started
    /\ "late" \in Faults \/ \A a \in Actors : ~(actor[a].pc = "await" /\ actor[a].turn = server.turn)
    /\ \E failed \in BOOLEAN : \E s \in Farewells(failed) :
          server' = [server EXCEPT !.running = FALSE, !.failed = failed, !.owes = s]
    /\ UNCHANGED <<runtimeVars, client_turn, start_ops, actor, orphans, channel, queueHistory,
                   told, announced, excused, boundVars>>

SayStarted ==
    /\ server.running /\ ~server.started
    /\ server' = [server EXCEPT !.started = TRUE]
    /\ client_turn' = server.turn
    /\ channel' = Append(channel, Event("started"))
    /\ UNCHANGED <<runtimeVars, start_ops, actor, orphans, queueHistory, told, announced,
                   excused, boundVars>>

\* error (without willRetry) and turn/completed cancel the latch before the
\* router hears of them
SayTerminal(kind) ==
    /\ kind \in server.owes
    /\ kind = "completed" => "error" \notin server.owes
    /\ server' = [server EXCEPT !.owes = @ \ {kind}]
    /\ CancelTerminalStatusFallback(server.turn)
    /\ client_turn' = IF kind = "completed" THEN 0 ELSE client_turn
    /\ channel' = Append(channel, Event(kind))
    /\ UNCHANGED <<bound, current, starting, overtaken, queue, token, notices, start_ops, actor,
                   orphans, queueHistory, told, announced, excused, boundVars>>

\* observe_thread_status_changed: register_terminal_status_fallback_token for
\* the turn the client is cleared of, and the timer if it is to be started
SayStatus ==
    /\ "status" \in server.owes
    /\ server' = [server EXCEPT !.owes = @ \ {"status"}]
    /\ client_turn' = 0
    /\ channel' = Append(channel, Event("status"))
    /\ IF client_turn = 0 \/ client_turn # current
       THEN UNCHANGED <<latch, token, orphans>>
       ELSE IF latch.turn = client_turn
       THEN /\ latch' = [latch EXCEPT !.server = TRUE]
            /\ orphans' = IF latch.server THEN orphans
                          ELSE orphans \cup {<<latch.token, client_turn>>}
            /\ UNCHANGED token
       ELSE /\ token' = token + 1
            /\ latch' = [turn |-> client_turn, token |-> token + 1, event |-> FALSE, server |-> TRUE]
            /\ orphans' = orphans \cup {<<token + 1, client_turn>>}
    /\ UNCHANGED <<bound, current, starting, overtaken, queue, notices, start_ops, actor,
                   queueHistory, told, announced, excused, boundVars>>

\* The channel is full: the router is told that the oldest notification is gone.
Lagged ==
    /\ "lag" \in Faults
    /\ actor[Router].pc = "idle" /\ channel # <<>>
    /\ channel' = Tail(channel)
    /\ excused' = TRUE
    /\ UNCHANGED <<runtimeVars, client_turn, start_ops, actor, orphans, server, queueHistory,
                   told, announced, boundVars>>

-----------------------------------------------------------------------------
(* The timers *)

\* 60 s and 120 s are long: what the app-server had said has been handled.
CaughtUp == channel = <<>> /\ actor[Router].pc = "idle" /\ server.started /\ server.owes = {}

MayFire == CaughtUp \/ "slow" \in Faults

ClaimTerminalStatusFallback(t, k) == current = t /\ latch.turn = t /\ latch.token = k

\* The IM side's timer claims the latch, or finds that it is not its own.
Fire(k) ==
    /\ actor[k].pc = "asleep"
    /\ MayFire
    /\ IF ClaimTerminalStatusFallback(actor[k].turn, k)
       THEN /\ latch' = NoLatch
            /\ actor' = [actor EXCEPT ![k].pc = "finish"]
       ELSE /\ actor' = [actor EXCEPT ![k] = Idle]
            /\ UNCHANGED latch
    /\ UNCHANGED <<bound, current, starting, overtaken, queue, token, notices, client_turn,
                   start_ops, orphans, channel, server, queueHistory, told, announced, excused, boundVars>>

\* The server side's timer claims the latch and completes the turn at once.
OrphanCleanup(k, t) ==
    /\ <<k, t>> \in orphans
    /\ MayFire
    /\ orphans' = orphans \ {<<k, t>>}
    /\ IF ClaimTerminalStatusFallback(t, k)
       THEN MarkTurnCompleted(t) /\ excused' = TRUE
       ELSE UNCHANGED <<current, starting, overtaken, latch, excused>>
    /\ UNCHANGED <<bound, queue, token, notices, client_turn, start_ops, actor, channel, server,
                   queueHistory, told, announced, boundVars>>

-----------------------------------------------------------------------------
(* The end of a turn, as the router, a timer and /stop see it *)

\* mark_turn_completed(thread, Some(turn)) answers whether the turn was current.
Completes(a) == current = actor[a].turn

\* Mutant: a timer completes the turn and leaves it at that.
FinishTurnOnly(a) ==
    /\ actor[a].pc = "finish" /\ a # Worker
    /\ IF Completes(a) THEN MarkTurnCompleted(current)
       ELSE UNCHANGED <<current, starting, overtaken, latch>>
    /\ actor' = [actor EXCEPT ![a] =
                    IF a # Router THEN Idle ELSE [@ EXCEPT !.pc = "notice", !.ok = Completes(a)]]
    /\ UNCHANGED <<bound, queue, token, notices, client_turn, start_ops, orphans, channel, server,
                   queueHistory, told, announced, excused, boundVars>>

\* A timer that does not complete the turn is done; one whose status was not
\* systemError has no notice to send.
FinishTurn(a) ==
    /\ actor[a].pc = "finish" /\ a # Worker
    /\ IF Completes(a) THEN MarkTurnCompleted(current)
       ELSE UNCHANGED <<current, starting, overtaken, latch>>
    /\ actor' = [actor EXCEPT ![a] =
                    IF a # Router /\ ~Completes(a) THEN Idle
                    ELSE IF a # Router /\ ~@.failed THEN [@ EXCEPT !.pc = "lock"]
                    ELSE [@ EXCEPT !.pc = "notice", !.ok = Completes(a)]]
    /\ UNCHANGED <<bound, queue, token, notices, client_turn, start_ops, orphans, channel, server,
                   queueHistory, told, announced, excused, boundVars>>

\* send_turn_terminal_mark_once: only failures are told in Telegram.
TerminalNotice(a) ==
    /\ actor[a].pc = "notice"
    /\ LET t == actor[a].turn
           failed == actor[a].failed
       IN /\ notices' = NoticesAfterClaim(t, failed)
          /\ told' = IF failed /\ MayClaimNotice(t, failed) THEN [told EXCEPT ![t] = @ + 1] ELSE told
    /\ actor' = [actor EXCEPT ![a] = IF @.ok THEN [@ EXCEPT !.pc = "lock"] ELSE Idle]
    /\ UNCHANGED <<bound, current, starting, overtaken, queue, latch, token, client_turn, start_ops,
                   orphans, channel, server, queueHistory, announced, excused, boundVars>>

-----------------------------------------------------------------------------
(* The router: handle_codex_notification *)

Received(kind) ==
    /\ actor[Router].pc = "idle"
    /\ channel # <<>>
    /\ Head(channel).kind = kind
    /\ channel' = Tail(channel)

HandleStarted ==
    /\ Received("started")
    /\ IF bound
       THEN MarkTurnStarted(Head(channel).turn) /\ announced' = Head(channel).turn
       ELSE UNCHANGED <<current, starting, overtaken, latch, announced>>
    /\ UNCHANGED <<bound, queue, token, notices, client_turn, start_ops, actor, orphans, server,
                   queueHistory, told, excused, boundVars>>

\* error and turn/completed: nothing for a turn that another has followed;
\* only the bookkeeping if no conversation is bound
HandleTerminal ==
    /\ Received("error") \/ Received("completed")
    /\ LET t == Head(channel).turn
       IN \/ /\ current \notin {0, t}
             /\ UNCHANGED <<current, starting, overtaken, latch, actor>>
          \/ /\ current \in {0, t} /\ ~bound
             /\ IF current = t THEN MarkTurnCompleted(t)
                ELSE CancelTerminalStatusFallback(t) /\ UNCHANGED <<current, starting, overtaken>>
             /\ UNCHANGED actor
          \/ /\ current \in {0, t} /\ bound
             /\ CancelTerminalStatusFallback(t)
             /\ actor' = [actor EXCEPT ![Router] =
                             [pc |-> "finish", turn |-> t, item |-> 0, ok |-> FALSE,
                              failed |-> Head(channel).failed]]
             /\ UNCHANGED <<current, starting, overtaken>>
    /\ UNCHANGED <<bound, queue, token, notices, client_turn, start_ops, orphans, server,
                   queueHistory, told, announced, excused, boundVars>>

\* schedule_terminal_status_fallback: start_terminal_status_fallback for the
\* current turn, whichever that is by now, and its timer
HandleStatus ==
    /\ Received("status")
    /\ IF current = 0 \/ ~bound \/ (latch # NoLatch /\ (latch.turn # current \/ latch.event))
       THEN UNCHANGED <<latch, token, actor>>
       ELSE LET k == IF latch # NoLatch THEN latch.token ELSE token + 1
            IN /\ token' = IF k > token THEN k ELSE token
               /\ latch' = [turn |-> current, token |-> k, event |-> TRUE, server |-> latch.server]
               /\ actor' = [actor EXCEPT ![k] = [Idle EXCEPT !.pc = "asleep", !.turn = current,
                                                 !.failed = Head(channel).failed]]
    /\ UNCHANGED <<bound, current, starting, overtaken, queue, notices, client_turn, start_ops,
                   orphans, server, queueHistory, told, announced, excused, boundVars>>

-----------------------------------------------------------------------------
(* Starting turns: start_next_telegram_queued_turn and start_turn_for_route *)

Lock(a) ==
    /\ actor[a].pc = "lock"
    /\ start_ops = Nobody
    /\ start_ops' = a
    /\ actor' = [actor EXCEPT ![a] = [Idle EXCEPT !.pc = "take"]]
    /\ UNCHANGED <<runtimeVars, client_turn, orphans, channel, server, queueHistory, told,
                   announced, excused, boundVars>>

\* Mutant: the lock is not released when the queue is empty.
TakeKeepsLock(a) ==
    /\ actor[a].pc = "take"
    /\ \/ /\ queue = <<>>
          /\ actor' = [actor EXCEPT ![a] = Idle]
          /\ UNCHANGED <<queue, overtaken, start_ops>>
       \/ /\ queue # <<>>
          /\ queue' = Tail(queue)
          /\ overtaken' = FALSE
          /\ actor' = [actor EXCEPT ![a] = [Idle EXCEPT !.pc = "route", !.item = Head(queue)]]
          /\ UNCHANGED start_ops
    /\ UNCHANGED <<bound, current, starting, latch, token, notices, client_turn, orphans, channel,
                   server, queueHistory, told, announced, excused, boundVars>>

Take(a) ==
    /\ actor[a].pc = "take"
    /\ \/ /\ queue = <<>>
          /\ start_ops' = Nobody
          /\ actor' = [actor EXCEPT ![a] = Idle]
          /\ UNCHANGED <<queue, overtaken>>
       \/ /\ queue # <<>>
          /\ queue' = Tail(queue)
          /\ overtaken' = FALSE
          /\ actor' = [actor EXCEPT ![a] = [Idle EXCEPT !.pc = "route", !.item = Head(queue)]]
          /\ UNCHANGED start_ops
    /\ UNCHANGED <<bound, current, starting, latch, token, notices, client_turn, orphans, channel,
                   server, queueHistory, told, announced, excused, boundVars>>

\* Mutant: a message that is refused as busy is dropped.
RefusedForgets(a) == IF actor[a].item = 0 THEN Idle ELSE [Idle EXCEPT !.pc = "take"]

\* A start that was not made: a queued message is put back under another lock,
\* an ordinary one is answered with a notice.
Refused(a) == IF actor[a].item = 0 THEN Idle ELSE [actor[a] EXCEPT !.pc = "requeue"]

\* A queued message is given up with the binding; an ordinary one asks for a thread.
NoThread(a) == IF actor[a].item = 0 THEN Idle ELSE [Idle EXCEPT !.pc = "clear"]

\* try_admit and live_thread_binding_for_route
Route(a) ==
    /\ actor[a].pc = "route"
    /\ \/ /\ "refusal" \in Faults
          /\ actor' = [actor EXCEPT ![a] = Refused(a)]
          /\ excused' = TRUE
          /\ UNCHANGED dropped
       \/ /\ ~bound
          /\ actor' = [actor EXCEPT ![a] = NoThread(a)]
          /\ dropped' = dropped \cup ({actor[a].item} \ {0})
          /\ UNCHANGED excused
       \/ /\ bound
          /\ actor' = [actor EXCEPT ![a].pc = "mark"]
          /\ UNCHANGED <<dropped, excused>>
    /\ UNCHANGED <<runtimeVars, client_turn, start_ops, orphans, channel, server, items,
                   submitted, told, announced, boundVars>>

\* try_mark_turn_starting and message_is_stale_for_latest_turn.  A message that
\* was received before the latest turn started or ended is expired, an ordinary
\* one by the time it came in, a queued one by the time it was taken; both are
\* told so, and of a queue the next message is tried.
Mark(a) ==
    /\ actor[a].pc = "mark"
    /\ \/ /\ TurnInProgress
          /\ actor' = [actor EXCEPT ![a] = Refused(a)]
          /\ UNCHANGED <<starting, submitted, dropped>>
       \/ /\ ~TurnInProgress
          /\ actor[a].item = 0 /\ server.turn # 0
          /\ actor' = [actor EXCEPT ![a] = Idle]
          /\ UNCHANGED <<starting, submitted, dropped>>
       \/ /\ ~TurnInProgress
          /\ actor[a].item # 0 /\ overtaken
          /\ actor' = [actor EXCEPT ![a] = [Idle EXCEPT !.pc = "take"]]
          /\ dropped' = dropped \cup {actor[a].item}
          /\ UNCHANGED <<starting, submitted>>
       \/ /\ ~TurnInProgress
          /\ starting' = TRUE
          /\ actor' = [actor EXCEPT ![a].pc = "await"]
          /\ submitted' = IF actor[a].item = 0 THEN submitted ELSE Append(submitted, actor[a].item)
          /\ UNCHANGED dropped
    /\ UNCHANGED <<bound, current, overtaken, queue, latch, token, notices, client_turn, start_ops,
                   orphans, channel, server, items, told, announced, excused, boundVars>>

\* requeue_telegram_turn_front
Requeue(a) ==
    /\ actor[a].pc = "requeue"
    /\ queue' = <<actor[a].item>> \o queue
    /\ start_ops' = Nobody
    /\ actor' = [actor EXCEPT ![a] = Idle]
    /\ UNCHANGED <<bound, current, starting, overtaken, latch, token, notices, client_turn, orphans,
                   channel, server, queueHistory, told, announced, excused, boundVars>>

\* clear_telegram_queue after NoThread or Stale
ClearQueue(a) ==
    /\ actor[a].pc = "clear"
    /\ queue' = <<>>
    /\ dropped' = dropped \cup {queue[i] : i \in DOMAIN queue}
    /\ start_ops' = Nobody
    /\ actor' = [actor EXCEPT ![a] = Idle]
    /\ UNCHANGED <<bound, current, starting, overtaken, latch, token, notices, client_turn, orphans,
                   channel, server, items, submitted, told, announced, excused, boundVars>>

\* The response has the turn id.
Started(a) ==
    /\ actor[a].pc = "await" /\ actor[a].turn # 0
    /\ client_turn' = actor[a].turn
    /\ MarkTurnStarted(actor[a].turn)
    /\ excused' = (excused \/ ~server.running \/ server.turn # actor[a].turn)
    /\ start_ops' = IF start_ops = a THEN Nobody ELSE start_ops
    /\ actor' = [actor EXCEPT ![a] = Idle]
    /\ UNCHANGED <<bound, queue, token, notices, orphans, channel, server, queueHistory, told,
                   announced, boundVars>>

\* Mutant: the reservation of a failed start is kept.
StartFailedKeepsReservation(a) ==
    /\ "failure" \in Faults
    /\ actor[a].pc = "await"
    /\ excused' = (excused \/ actor[a].item = 0)
    /\ actor' = [actor EXCEPT ![a] = IF @.item = 0 THEN Idle ELSE [Idle EXCEPT !.pc = "take"]]
    /\ UNCHANGED <<runtimeVars, client_turn, start_ops, orphans, channel, server, queueHistory,
                   told, announced, boundVars>>

\* turn/start fails, or its response is lost: the next queued message is tried.
StartFailed(a) ==
    /\ "failure" \in Faults
    /\ actor[a].pc = "await"
    /\ starting' = FALSE
    /\ excused' = (excused \/ actor[a].item = 0)
    /\ actor' = [actor EXCEPT ![a] = IF @.item = 0 THEN Idle ELSE [Idle EXCEPT !.pc = "take"]]
    /\ UNCHANGED <<bound, current, overtaken, queue, latch, token, notices, client_turn, start_ops,
                   orphans, channel, server, queueHistory, told, announced, boundVars>>

\* The app-server no longer has the thread: clear_thread_binding_with_reason.
StartStale(a) ==
    /\ actor[a].pc = "await" /\ actor[a].turn = 0
    /\ UnbindRoutes
    /\ announced' = 0
    /\ Forsake
    /\ actor' = [actor EXCEPT ![a] = NoThread(a)]
    /\ UNCHANGED <<token, notices, client_turn, start_ops, orphans, channel, server, items,
                   submitted, told, excused, messages, restarts>>

-----------------------------------------------------------------------------
(* The inbound worker: handle_inbound *)

\* The worker has a further message.
Message ==
    /\ actor[Worker].pc = "idle"
    /\ messages < MaxMessages
    /\ messages' = messages + 1

\* The next step of the worker about turn t
WorkerAt(pc, t, ok) ==
    actor' = [actor EXCEPT ![Worker] = [Idle EXCEPT !.pc = pc, !.turn = t, !.ok = ok]]

\* An ordinary message starts a turn.  With a turn in progress it is steered,
\* held or refused, and none of this state changes.
Text ==
    /\ Message
    /\ bound /\ ~TurnInProgress
    /\ WorkerAt("route", 0, FALSE)
    /\ UNCHANGED <<runtimeVars, client_turn, start_ops, orphans, channel, server, queueHistory,
                   told, announced, excused, restarts, forsaken>>

\* /queue with a turn to wait for: enqueue_telegram_turn_if_active
Enqueue ==
    /\ actor[Worker].pc = "idle"
    /\ items < MaxItems
    /\ bound /\ TurnInProgress
    /\ Len(queue) < QueueMax
    /\ queue' = Append(queue, items + 1)
    /\ items' = items + 1
    /\ UNCHANGED <<bound, current, starting, overtaken, latch, token, notices, client_turn,
                   start_ops, actor, orphans, channel, server, submitted, dropped, told, announced, excused,
                   boundVars>>

\* active_turn_for_message
HasActiveTurn == bound /\ current # 0

\* /stop claims the notice, so that the interrupted turn is not reported as failed.
Stop ==
    /\ Message
    /\ HasActiveTurn
    /\ notices' = NoticesAfterClaim(current, TRUE)
    /\ WorkerAt("stop", current, MayClaimNotice(current, TRUE))
    /\ UNCHANGED <<bound, current, starting, overtaken, queue, latch, token, client_turn, start_ops,
                   orphans, channel, server, queueHistory, told, announced, excused, restarts, forsaken>>

\* turn/interrupt ends the turn t if it runs; it may also fail.
Interrupt(t, succeeds) ==
    IF succeeds
    THEN /\ server.running /\ server.turn = t /\ server.started
         /\ \E failed \in BOOLEAN : \E s \in Farewells(failed) :
               server' = [server EXCEPT !.running = FALSE, !.failed = failed, !.owes = s]
    ELSE UNCHANGED server

StopFails ==
    /\ actor[Worker].pc = "stop"
    /\ Interrupt(actor[Worker].turn, FALSE)
    /\ IF actor[Worker].ok THEN ReleaseNotice(actor[Worker].turn) ELSE UNCHANGED notices
    /\ actor' = [actor EXCEPT ![Worker] = Idle]
    /\ UNCHANGED <<bound, current, starting, overtaken, queue, latch, token, client_turn, start_ops,
                   orphans, channel, queueHistory, told, announced, excused, boundVars>>

StopInterrupts ==
    /\ actor[Worker].pc = "stop"
    /\ Interrupt(actor[Worker].turn, TRUE)
    /\ client_turn' = IF client_turn = actor[Worker].turn THEN 0 ELSE client_turn
    /\ actor' = [actor EXCEPT ![Worker].pc = "finish"]
    /\ UNCHANGED <<runtimeVars, start_ops, orphans, channel, queueHistory, told, announced,
                   excused, boundVars>>

\* The turn is completed and the user told; then the next queued turn starts.
StopFinish ==
    /\ actor[Worker].pc = "finish"
    /\ MarkTurnCompleted(actor[Worker].turn)
    /\ \/ /\ actor' = [actor EXCEPT ![Worker].pc = "lock"]
          /\ UNCHANGED excused
       \/ /\ "notice" \in Faults
          /\ actor' = [actor EXCEPT ![Worker] = Idle]
          /\ excused' = TRUE
    /\ UNCHANGED <<bound, queue, token, notices, client_turn, start_ops, orphans, channel, server,
                   queueHistory, told, announced, boundVars>>

\* /exit interrupts the turn if there is one; not while one is starting
Exit ==
    /\ Message
    /\ current # 0 \/ ~starting
    /\ IF HasActiveTurn
       THEN WorkerAt("exit", current, FALSE) /\ notices' = NoticesAfterClaim(current, TRUE)
       ELSE WorkerAt("unbind", 0, FALSE) /\ UNCHANGED notices
    /\ UNCHANGED <<bound, current, starting, overtaken, queue, latch, token, client_turn, start_ops,
                   orphans, channel, server, queueHistory, told, announced, excused, restarts, forsaken>>

ExitInterrupts ==
    /\ actor[Worker].pc = "exit"
    /\ \E succeeds \in BOOLEAN : Interrupt(actor[Worker].turn, succeeds)
    /\ client_turn' = 0
    /\ actor' = [actor EXCEPT ![Worker].pc = "leave"]
    /\ UNCHANGED <<runtimeVars, start_ops, orphans, channel, queueHistory, told, announced,
                   excused, boundVars>>

ExitFinish ==
    /\ actor[Worker].pc = "leave"
    /\ MarkTurnCompleted(actor[Worker].turn)
    /\ actor' = [actor EXCEPT ![Worker] = [Idle EXCEPT !.pc = "unbind"]]
    /\ announced' = 0
    /\ UNCHANGED <<bound, queue, token, notices, client_turn, start_ops, orphans, channel, server,
                   queueHistory, told, excused, boundVars>>

\* clear_telegram_queue and clear_thread_binding
ExitUnbind ==
    /\ actor[Worker].pc = "unbind"
    /\ bound' = FALSE
    /\ queue' = <<>>
    /\ dropped' = dropped \cup {queue[i] : i \in DOMAIN queue}
    /\ IF bound THEN current' = 0 /\ starting' = FALSE /\ overtaken' = FALSE /\ latch' = NoLatch
       ELSE UNCHANGED <<current, starting, overtaken, latch>>
    /\ announced' = 0
    /\ Forsake
    /\ actor' = [actor EXCEPT ![Worker] = Idle]
    /\ UNCHANGED <<token, notices, client_turn, start_ops, orphans, channel, server, items,
                   submitted, told, excused, messages, restarts>>

\* The thread is chosen again: bind_route.
Bind ==
    /\ actor[Worker].pc = "idle" /\ ~bound
    /\ bound' = TRUE
    /\ UNCHANGED <<current, starting, overtaken, queue, latch, token, notices, client_turn,
                   start_ops, actor, orphans, channel, server, queueHistory, told, announced, excused, boundVars>>

-----------------------------------------------------------------------------
(* invalidate_bridge_generation and start_bridge_generation.  Router and      *)
(* worker end where they are, the next router subscribes anew; the timers are *)
(* tasks of their own and go on.                                              *)

RestartBridge ==
    /\ restarts < MaxRestarts
    /\ restarts' = restarts + 1
    /\ queue' = <<>> /\ latch' = NoLatch /\ notices' = <<>> /\ channel' = <<>>
    /\ dropped' = dropped \cup {queue[i] : i \in DOMAIN queue} \cup Held(Router) \cup Held(Worker)
    /\ actor' = [actor EXCEPT ![Router] = Idle, ![Worker] = Idle]
    /\ start_ops' = IF start_ops \in {Router, Worker} THEN Nobody ELSE start_ops
    /\ told' = [t \in Turns |-> 0]
    /\ excused' = TRUE
    /\ forsaken' = TRUE
    /\ UNCHANGED <<bound, current, starting, overtaken, token, client_turn, orphans, server, items,
                   submitted, announced, messages>>

Starter(a) ==
    \/ Lock(a) \/ Take(a) \/ Route(a) \/ Mark(a) \/ Requeue(a) \/ ClearQueue(a)
    \/ Started(a) \/ StartFailed(a) \/ StartStale(a)

Actor(a) == FinishTurn(a) \/ TerminalNotice(a) \/ Starter(a)

RouterStep == HandleStarted \/ HandleTerminal \/ HandleStatus \/ Actor(Router)

WorkerStep ==
    \/ StopFails \/ StopInterrupts \/ StopFinish
    \/ ExitInterrupts \/ ExitFinish \/ ExitUnbind
    \/ Actor(Worker)

TimerStep(k) == Fire(k) \/ Actor(k)

ServerSays == EndTurn \/ SayStarted \/ SayTerminal("error") \/ SayTerminal("completed") \/ SayStatus

Next ==
    \/ RouterStep \/ WorkerStep \/ ServerSays
    \/ \E k \in Tokens : TimerStep(k)
    \/ \E k \in Tokens, t \in Turns : OrphanCleanup(k, t)
    \/ \E a \in Actors : Accept(a)
    \/ Text \/ Enqueue \/ Stop \/ Exit \/ Bind
    \/ DesktopTurn \/ Lagged \/ RestartBridge

Spec == Init /\ [][Next]_vars

\* The tasks are polled, the app-server ends its turns and reports it.  Nobody
\* need send messages, and the server-side timers are a second line of defence.
Fairness ==
    /\ WF_vars(RouterStep)
    /\ WF_vars(WorkerStep)
    /\ WF_vars(ServerSays)
    /\ \A k \in Tokens : WF_vars(TimerStep(k))

LiveSpec == Spec /\ Fairness

-----------------------------------------------------------------------------
(* Properties *)

TypeOK ==
    /\ bound \in BOOLEAN /\ starting \in BOOLEAN /\ overtaken \in BOOLEAN
    /\ excused \in BOOLEAN /\ forsaken \in BOOLEAN
    /\ current \in 0..MaxTurns /\ client_turn \in 0..MaxTurns /\ announced \in 0..MaxTurns
    /\ queue \in Seq(1..MaxItems) /\ submitted \in Seq(1..MaxItems)
    /\ items \in 0..MaxItems /\ dropped \subseteq 1..MaxItems
    /\ latch \in [turn : 0..MaxTurns, token : 0..MaxTokens, event : BOOLEAN, server : BOOLEAN]
    /\ token \in 0..MaxTokens
    /\ notices \in Seq([turn : Turns, failed : BOOLEAN])
    /\ start_ops \in Actors \cup {Nobody}
    /\ actor \in [Actors -> [pc : {"idle", "asleep", "finish", "notice", "stop", "exit", "leave",
                                   "unbind", "lock", "take", "route", "mark", "await", "requeue",
                                   "clear"},
                             turn : 0..MaxTurns, item : 0..MaxItems, failed : BOOLEAN,
                             ok : BOOLEAN]]
    /\ orphans \subseteq (Tokens \X Turns)
    /\ channel \in Seq([kind : {"started", "error", "completed", "status"}, turn : Turns,
                        failed : BOOLEAN])
    /\ server \in [turn : 0..MaxTurns, running : BOOLEAN, started : BOOLEAN, failed : BOOLEAN,
                   owes : SUBSET {"error", "completed", "status"}]
    /\ told \in [Turns -> Nat]
    /\ messages \in 0..MaxMessages /\ restarts \in 0..MaxRestarts

\* The queue is first in, first out, and turn/start, which is not idempotent, is
\* sent at most once for a queued message, whoever starts it and however often
\* it was put back.
QueuedInOrder ==
    \A i, j \in DOMAIN submitted : i < j => submitted[i] < submitted[j]

\* A message that /queue has accepted is in the queue, in the hands of the one
\* task that is starting it, or was sent or given up; never in two places.  It is
\* given up with the binding of the thread, by a restart of the bridge, or as
\* expired when another turn started or ended while it was in hand; only a restart
\* says nothing of it in Telegram.
QueueAccounted ==
    /\ \A n \in 1..items :
          \/ \E i \in DOMAIN queue : queue[i] = n
          \/ \E a \in Actors : n \in Held(a)
          \/ \E i \in DOMAIN submitted : submitted[i] = n
          \/ n \in dropped
    /\ \A i, j \in DOMAIN queue : i # j => queue[i] # queue[j]
    /\ \A i \in DOMAIN queue : \A j \in DOMAIN submitted : queue[i] # submitted[j]

\* The queue neither repeats nor reorders a message, and none is lost on the way
\* between the tasks, which take it under one lock and put it back under another.
QueueKept == QueueAccounted /\ QueuedInOrder

\* The task is on its way to the queue.
WillStart(a) ==
    \/ actor[a].pc \in {"lock", "take"}
    \/ actor[a].pc \in {"route", "mark"} /\ actor[a].item # 0
    \/ actor[a].pc = "notice" /\ actor[a].ok
    \/ actor[a].pc = "finish" /\ a = Worker
    \/ actor[a].pc = "unbind"

\* Messages do not wait behind a thread without a turn, unless a task is about
\* to start them or one of the faults that strand the queue has happened.
QueueHasStarter ==
    queue # <<>> /\ ~TurnInProgress /\ ~excused /\ ~forsaken => \E a \in Actors : WillStart(a)

\* A turn the app-server runs, and has announced, stays the current turn: no
\* timer, late event or command about another turn completes it.
TurnIsTracked ==
    server.running /\ announced = server.turn /\ announced # 0 /\ ~excused => current = announced

\* The runtime's record of a thread is well formed (a task that acts on a turn has
\* one) and follows the turn that runs.
TurnInv == TypeOK /\ TurnIsTracked

\* A thread is reserved only as long as a task awaits the answer to turn/start;
\* otherwise it could not be used again.
ReservationHasOwner ==
    starting /\ ~forsaken => \E a \in Actors : actor[a].pc = "await"

\* A failed turn is reported once, by whichever of its events comes first.
FailureToldOnce == \A t \in Turns : told[t] <= 1

\* The queue empties, unless a fault strands it.
QueueMoves == (queue # <<>>) ~> (queue = <<>> \/ excused \/ forsaken)
=============================================================================
