-------------------------- MODULE ProgressDelivery --------------------------
(***************************************************************************)
(* The progress bubble of a Telegram conversation: one message per turn    *)
(* that is sent once and then edited in place, and into which the final    *)
(* reply of the turn is embedded (src/im/runtime.rs, src/im/events.rs).    *)
(* The state of the bubble is kept per thread; whoever changes it claims   *)
(* the delivery, and a driver task sends one revision after the other.     *)
(*                                                                         *)
(* Three kinds of task work on it: the event router, whoever closes a turn *)
(* without its terminal event (/stop, /exit or the status fallback), and   *)
(* the drivers.  Each step between two awaits holds the runtime lock.      *)
(***************************************************************************)
EXTENDS Naturals, FiniteSets

CONSTANTS
    MaxTurns,      \* bound on the turns of the thread
    MaxUpdates,    \* bound on the item events that change a bubble
    MaxCloses,     \* bound on the turns that are closed without their terminal event
    MaxFailures,   \* bound on the requests that Telegram refuses
    MaxDrivers     \* bound on the driver tasks alive at once

ASSUME ProgressAssumption == /\ MaxTurns \in Nat \ {0}
                             /\ MaxUpdates \in Nat /\ MaxCloses \in Nat /\ MaxFailures \in Nat
                             /\ MaxDrivers \in Nat \ {0}

VARIABLES
    current,     \* current_turn_by_thread, 0 if none
    progress,    \* telegram_command_progress_by_thread
    router,      \* the event router: what it is doing, and for which turn
    closer,      \* the task that closes a turn, likewise
    driver,      \* driver -> its task
    server,      \* external: the turn of the app-server, and whether it runs
    heard,       \* where the router is in the stream of events: a turn, and its start
    bubble,      \* external: turn -> what Telegram shows for it
    embedded,    \* history: turns whose reply went into the bubble only
    closed,      \* history: turns that were closed without their terminal event
    updates, failures

vars == <<current, progress, router, closer, driver, server, heard, bubble, embedded,
          closed, updates, failures>>

Turns == 1..MaxTurns
Drivers == 1..MaxDrivers

\* TelegramCommandProgressState.  in_flight = 0: no revision is being sent.
NoProgress == [turn |-> 0, revision |-> 0, message |-> FALSE, completed |-> FALSE,
               dirty |-> FALSE, sending |-> FALSE, in_flight |-> 0, cleanup |-> FALSE,
               reply |-> FALSE]

NewProgress(t) == [NoProgress EXCEPT !.turn = t]

Idle == [pc |-> "idle", turn |-> 0, promotes |-> FALSE]

\* A driver and the snapshot it delivers
IdleDriver == [pc |-> "idle", turn |-> 0, revision |-> 0, message |-> FALSE,
               completed |-> FALSE, reply |-> FALSE, retained |-> FALSE]

NoBubble == [count |-> 0, revision |-> 0, completed |-> FALSE, reply |-> FALSE]

Init ==
    /\ current = 0
    /\ progress = NoProgress
    /\ router = Idle /\ closer = Idle
    /\ driver = [d \in Drivers |-> IdleDriver]
    /\ server = [turn |-> 0, running |-> FALSE]
    /\ heard = [turn |-> 1, started |-> FALSE]
    /\ bubble = [t \in Turns |-> NoBubble]
    /\ embedded = {} /\ closed = {}
    /\ updates = 0 /\ failures = 0

-----------------------------------------------------------------------------
(* RuntimeState *)

Bump(p) == [p EXCEPT !.revision = @ + 1, !.dirty = TRUE]

\* The state of a turn's bubble, made anew when it is another turn's
Of(t) == IF progress.turn = t THEN progress ELSE NewProgress(t)

MarkTurnStarted(t) ==
    /\ current' = t
    /\ progress' = IF progress.turn = t THEN progress ELSE NoProgress

\* Mutant: a bubble that is being sent is dropped with its turn.
MarkTurnCompletedDrops(t) ==
    IF current = t
    THEN current' = 0 /\ progress' = NoProgress
    ELSE UNCHANGED <<current, progress>>

MarkTurnCompleted(t) ==
    IF current = t
    THEN /\ current' = 0
         /\ progress' = IF progress.completed /\ progress.sending
                        THEN [progress EXCEPT !.cleanup = TRUE] ELSE NoProgress
    ELSE UNCHANGED <<current, progress>>

\* finish_telegram_command_progress_with_outcome: the state it leaves ...
Finished(t, failed) ==
    IF progress.turn = t /\ progress.revision > 0 /\ (~progress.completed \/ failed)
    THEN [Bump(progress) EXCEPT !.completed = TRUE]
    ELSE progress

\* ... and whether it returns a snapshot
HasSnapshot(t, failed) == progress.turn = t /\ Finished(t, failed).dirty

Snapshot(p) == [IdleDriver EXCEPT !.pc = "check", !.turn = p.turn, !.revision = p.revision,
                                  !.message = p.message, !.completed = p.completed,
                                  !.reply = p.reply]

\* claim_next_telegram_command_progress_snapshot
Claimed(p) == [p EXCEPT !.sending = TRUE, !.dirty = FALSE, !.in_flight = p.revision]

\* Mutant: a delivery is claimed although one is under way.
ClaimsAnyway(t) == progress.turn = t /\ progress.dirty /\ (current = t \/ progress.cleanup)

\* claim_telegram_command_progress_delivery: when it succeeds
Claims(t) == /\ progress.turn = t
             /\ ~progress.sending
             /\ progress.dirty
             /\ current = t \/ progress.cleanup

\* A claim that succeeds spawns a driver.
Deliver(t) ==
    IF Claims(t)
    THEN \E d \in Drivers :
            /\ driver[d].pc = "idle" /\ \A e \in 1..(d - 1) : driver[e].pc # "idle"
            /\ driver' = [driver EXCEPT ![d] = Snapshot(progress)]
            /\ progress' = Claimed(progress)
    ELSE UNCHANGED <<driver, progress>>

-----------------------------------------------------------------------------
(* External: the app-server, which runs one turn at a time *)

\* The response to turn/start marks the turn; a new one is asked for only when
\* no turn is in progress (try_mark_turn_starting).
StartTurn ==
    /\ current = 0
    /\ ~server.running
    /\ server.turn < MaxTurns
    /\ server' = [turn |-> server.turn + 1, running |-> TRUE]
    /\ MarkTurnStarted(server.turn + 1)
    /\ UNCHANGED <<router, closer, driver, heard, bubble, embedded, closed, updates, failures>>

EndTurn ==
    /\ server.running
    /\ server' = [server EXCEPT !.running = FALSE]
    /\ UNCHANGED <<current, progress, router, closer, driver, heard, bubble, embedded, closed,
                   updates, failures>>

-----------------------------------------------------------------------------
(* The event router, which handles the events of the app-server in order *)

Listening == router.pc = "idle" /\ heard.turn <= server.turn

\* turn/started
HearStarted ==
    /\ Listening /\ ~heard.started
    /\ heard' = [heard EXCEPT !.started = TRUE]
    /\ MarkTurnStarted(heard.turn)
    /\ UNCHANGED <<router, closer, driver, server, bubble, embedded, closed, updates, failures>>

\* item/started, item/completed and the like: telegram_command_turn lets the
\* event pass only for the current turn.
HearItem ==
    /\ Listening /\ heard.started
    /\ current = heard.turn
    /\ updates < MaxUpdates
    /\ updates' = updates + 1
    /\ router' = [Idle EXCEPT !.pc = "item", !.turn = heard.turn]
    /\ UNCHANGED <<current, progress, closer, driver, server, heard, bubble, embedded, closed, failures>>

\* The upsert functions.  All but that of a command look at the current turn
\* again; an update of a known command may wait for a later delivery.
UpsertItem ==
    LET t == router.turn IN
    /\ router.pc = "item"
    /\ \E command, quiet \in BOOLEAN :
          IF (command \/ current = t) /\ ~Of(t).completed
          THEN /\ quiet => command /\ Of(t).message
               /\ progress' = Bump(Of(t))
               /\ router' = IF quiet THEN Idle ELSE [router EXCEPT !.pc = "deliver item"]
          ELSE /\ progress' = IF command THEN Of(t) ELSE progress
               /\ router' = Idle
    /\ UNCHANGED <<current, closer, driver, server, heard, bubble, embedded, closed, updates, failures>>

DeliverItem ==
    /\ router.pc = "deliver item"
    /\ Deliver(router.turn)
    /\ router' = Idle
    /\ UNCHANGED <<current, closer, server, heard, bubble, embedded, closed, updates, failures>>

\* turn/completed, or an error without retry: nothing for a turn that another
\* has followed
HearTerminal ==
    /\ Listening /\ heard.started
    /\ heard.turn < server.turn \/ ~server.running
    /\ heard' = [turn |-> heard.turn + 1, started |-> FALSE]
    /\ router' = IF current \in {0, heard.turn} 
                 THEN [Idle EXCEPT !.pc = "reply", !.turn = heard.turn] ELSE Idle
    /\ UNCHANGED <<current, progress, closer, driver, server, bubble, embedded, closed, updates, failures>>

\* remove_commentary_matching_text and set_telegram_command_progress_final_reply,
\* merged; without a bubble, or without a text, nothing is embedded and a text is
\* sent as a message of its own.
EmbedReply ==
    LET t == router.turn IN
    /\ router.pc = "reply"
    /\ \/ /\ progress.turn = t
          /\ progress' = [Bump(progress) EXCEPT !.reply = TRUE]
          /\ embedded' = embedded \cup {t}
       \/ UNCHANGED <<progress, embedded>>
    /\ router' = [router EXCEPT !.pc = "finish"]
    /\ UNCHANGED <<current, closer, driver, server, heard, bubble, closed, updates, failures>>

\* Finishing a turn: the same three steps for the router and for the closer
Finish(actor, failed) ==
    /\ actor.pc = "finish"
    /\ progress' = Finished(actor.turn, failed)

AfterFinish(actor, failed) ==
    [actor EXCEPT !.pc = IF HasSnapshot(actor.turn, failed) THEN "deliver" ELSE "mark"]

\* A turn that did not fail and had no reply of its own may promote its last
\* message to one.
RouterFinish ==
    /\ \E failed, promotes \in BOOLEAN :
          /\ promotes => ~failed /\ router.turn \notin embedded
          /\ Finish(router, failed)
          /\ router' = [AfterFinish(router, failed) EXCEPT !.promotes = promotes]
    /\ UNCHANGED <<current, closer, driver, server, heard, bubble, embedded, closed, updates, failures>>

RouterDeliver ==
    /\ router.pc = "deliver"
    /\ Deliver(router.turn)
    /\ router' = [router EXCEPT !.pc = "mark"]
    /\ UNCHANGED <<current, closer, server, heard, bubble, embedded, closed, updates, failures>>

\* remove_commentary_and_refresh: the bubble of a completed turn changes once more.
RouterPromote ==
    LET t == router.turn IN
    /\ router.pc = "mark" /\ router.promotes
    /\ \/ /\ progress.turn = t /\ progress.revision > 0
          /\ progress' = Bump(progress)
          /\ router' = [router EXCEPT !.pc = "deliver", !.promotes = FALSE]
       \/ UNCHANGED progress /\ router' = [router EXCEPT !.promotes = FALSE]
    /\ UNCHANGED <<current, closer, driver, server, heard, bubble, embedded, closed, updates, failures>>

RouterMark ==
    /\ router.pc = "mark" /\ ~router.promotes
    /\ MarkTurnCompleted(router.turn)
    /\ router' = Idle
    /\ UNCHANGED <<closer, driver, server, heard, bubble, embedded, closed, updates, failures>>

-----------------------------------------------------------------------------
(* /stop and /exit, and the fallback for a thread that reports idle *)

\* The turn is read before the interrupt, which /exit lets fail, or before the
\* fallback's delay.
Close ==
    /\ closer.pc = "idle"
    /\ current # 0
    /\ Cardinality(closed) < MaxCloses
    /\ closer' = [Idle EXCEPT !.pc = "finish", !.turn = current]
    /\ closed' = closed \cup {current}
    /\ UNCHANGED <<current, progress, router, driver, server, heard, bubble, embedded,
                   updates, failures>>

CloserFinish ==
    /\ \E failed \in BOOLEAN : Finish(closer, failed) /\ closer' = AfterFinish(closer, failed)
    /\ UNCHANGED <<current, router, driver, server, heard, bubble, embedded, closed, updates, failures>>

CloserDeliver ==
    /\ closer.pc = "deliver"
    /\ Deliver(closer.turn)
    /\ closer' = [closer EXCEPT !.pc = "mark"]
    /\ UNCHANGED <<current, router, server, heard, bubble, embedded, closed, updates, failures>>

CloserMark ==
    /\ closer.pc = "mark"
    /\ MarkTurnCompleted(closer.turn)
    /\ closer' \in {Idle, [Idle EXCEPT !.pc = "unbind"]}
    /\ UNCHANGED <<router, driver, server, heard, bubble, embedded, closed, updates, failures>>

\* /exit unbinds the thread, whatever it is doing by now.
CloserUnbind ==
    /\ closer.pc = "unbind"
    /\ current' = 0 /\ progress' = NoProgress
    /\ closed' = closed \cup ({current, progress.turn} \ {0})
    /\ closer' = Idle
    /\ UNCHANGED <<router, driver, server, heard, bubble, embedded, updates, failures>>

-----------------------------------------------------------------------------
(* telegram_command_progress_driver *)

\* The delivery of a driver is still the one under way.
Mine(d) == /\ progress.turn = driver[d].turn
           /\ progress.sending
           /\ progress.in_flight = driver[d].revision

DriverChecks(d) ==
    /\ driver[d].pc = "check"
    /\ driver' = [driver EXCEPT ![d] =
                     IF Mine(d) /\ (current = progress.turn \/ progress.cleanup)
                     THEN [@ EXCEPT !.pc = "send"] ELSE IdleDriver]
    /\ UNCHANGED <<current, progress, router, closer, server, heard, bubble, embedded, closed,
                   updates, failures>>

\* External: Telegram takes the message, or the edit of it.
DriverSends(d) ==
    LET r == driver[d] IN
    /\ r.pc = "send"
    /\ bubble' = [bubble EXCEPT ![r.turn] =
                     [count |-> IF r.message THEN @.count ELSE @.count + 1,
                      revision |-> r.revision, completed |-> r.completed, reply |-> r.reply]]
    /\ driver' = [driver EXCEPT ![d] = [@ EXCEPT !.pc = "sent"]]
    /\ UNCHANGED <<current, progress, router, closer, server, heard, embedded, closed, updates, failures>>

DriverRefused(d) ==
    /\ driver[d].pc = "send"
    /\ failures < MaxFailures
    /\ failures' = failures + 1
    /\ driver' = [driver EXCEPT ![d] = [@ EXCEPT !.pc = "refused"]]
    /\ UNCHANGED <<current, progress, router, closer, server, heard, bubble, embedded, closed, updates>>

\* complete_telegram_command_progress_delivery: the next revision, if there is
\* one, is the same driver's.
DriverCompletes(d) ==
    LET p == [progress EXCEPT !.message = TRUE, !.in_flight = 0] IN
    /\ driver[d].pc = "sent"
    /\ \/ /\ Mine(d) /\ progress.dirty
          /\ progress' = Claimed(p)
          /\ driver' = [driver EXCEPT ![d] = Snapshot(p)]
       \/ /\ Mine(d) /\ ~progress.dirty
          /\ progress' = IF p.completed /\ p.cleanup THEN NoProgress
                         ELSE [p EXCEPT !.sending = FALSE]
          /\ driver' = [driver EXCEPT ![d] = IdleDriver]
       \/ /\ ~Mine(d)
          /\ driver' = [driver EXCEPT ![d] = IdleDriver]
          /\ UNCHANGED progress
    /\ UNCHANGED <<current, router, closer, server, heard, bubble, embedded, closed, updates, failures>>

\* fail_telegram_command_progress_delivery: the final revision stays with the
\* driver, another only if Telegram said when to try again.
DriverFails(d) ==
    /\ driver[d].pc = "refused"
    /\ progress' = IF Mine(d)
                   THEN [progress EXCEPT !.in_flight = 0, !.dirty = TRUE, !.sending = @ /\ progress.completed]
                   ELSE progress
    /\ \E limited \in BOOLEAN :
          driver' = [driver EXCEPT ![d] =
              IF (Mine(d) /\ progress.completed) \/ (~driver[d].completed /\ limited)
              THEN [@ EXCEPT !.pc = "sleep", !.retained = Mine(d) /\ progress.completed]
              ELSE IdleDriver]
    /\ UNCHANGED <<current, router, closer, server, heard, bubble, embedded, closed, updates, failures>>

\* retry_telegram_command_progress_delivery or a new claim, after the delay
DriverWakes(d) ==
    LET r == driver[d] IN
    /\ r.pc = "sleep"
    /\ IF \/ /\ r.retained /\ progress.turn = r.turn
             /\ progress.sending /\ progress.in_flight = 0 /\ progress.dirty
          \/ ~r.retained /\ Claims(r.turn)
       THEN /\ driver' = [driver EXCEPT ![d] = Snapshot(progress)]
            /\ progress' = Claimed(progress)
       ELSE /\ driver' = [driver EXCEPT ![d] = IdleDriver]
            /\ UNCHANGED progress
    /\ UNCHANGED <<current, router, closer, server, heard, bubble, embedded, closed, updates, failures>>

-----------------------------------------------------------------------------
RouterStep == \/ HearStarted \/ UpsertItem \/ DeliverItem \/ HearTerminal \/ EmbedReply
              \/ RouterFinish \/ RouterDeliver \/ RouterPromote \/ RouterMark

CloserStep == CloserFinish \/ CloserDeliver \/ CloserMark \/ CloserUnbind

DriverStep(d) == \/ DriverChecks(d) \/ DriverSends(d) \/ DriverCompletes(d)
                 \/ DriverFails(d) \/ DriverWakes(d)

Next == \/ StartTurn \/ EndTurn
        \/ HearItem \/ RouterStep
        \/ Close \/ CloserStep
        \/ \E d \in Drivers : DriverStep(d) \/ DriverRefused(d)

Spec == Init /\ [][Next]_vars

\* The tasks are polled, and a turn ends.
LiveSpec == /\ Spec
            /\ WF_vars(EndTurn) /\ WF_vars(RouterStep) /\ WF_vars(CloserStep)
            /\ \A d \in Drivers : WF_vars(DriverStep(d))

-----------------------------------------------------------------------------
(* Properties *)

ProgressType == [turn : 0..MaxTurns, revision : Nat, message : BOOLEAN, completed : BOOLEAN,
                 dirty : BOOLEAN, sending : BOOLEAN, in_flight : Nat, cleanup : BOOLEAN,
                 reply : BOOLEAN]

DriverType == [pc : {"idle", "check", "send", "sent", "refused", "sleep"},
               turn : 0..MaxTurns, revision : Nat, message : BOOLEAN,
               completed : BOOLEAN, reply : BOOLEAN, retained : BOOLEAN]

\* Every variable has its type; a revision on its way is no newer than the state,
\* and is marked as being sent.
TypeOK ==
    /\ current \in 0..MaxTurns
    /\ progress \in ProgressType /\ progress.in_flight <= progress.revision
    /\ progress.in_flight > 0 => progress.sending
    /\ router \in [pc : {"idle", "item", "deliver item", "reply", "finish", "deliver", "mark"},
                   turn : 0..MaxTurns, promotes : BOOLEAN]
    /\ closer \in [pc : {"idle", "finish", "deliver", "mark", "unbind"}, turn : 0..MaxTurns,
                   promotes : {FALSE}]
    /\ driver \in [Drivers -> DriverType]
    /\ server \in [turn : 0..MaxTurns, running : BOOLEAN]
    /\ heard \in [turn : 1..(MaxTurns + 1), started : BOOLEAN]
    /\ bubble \in [Turns -> [count : Nat, revision : Nat, completed : BOOLEAN, reply : BOOLEAN]]
    /\ embedded \subseteq Turns /\ closed \subseteq Turns
    /\ updates \in 0..MaxUpdates /\ failures \in 0..MaxFailures

\* A turn has at most one bubble, however its events, its end, the start of
\* the next turn and the deliveries interleave.
OneBubble == \A t \in Turns : bubble[t].count <= 1

\* One delivery at a time: no two drivers have a request under way for the
\* same turn, so that no edit can overtake another.
OneRequest ==
    \A d, e \in Drivers :
        driver[d].pc \in {"send", "sent"} /\ driver[e].pc \in {"send", "sent"}
            /\ driver[d].turn = driver[e].turn => d = e

\* The deliveries of a bubble are serialized: a revision under way is marked as
\* such, has the only request, and edits the only message.
DeliveryInv == TypeOK /\ OneRequest /\ OneBubble

\* What a bubble shows never goes back to an earlier revision, and a bubble that
\* has been closed is not opened again.
ShownForward ==
    [][\A t \in Turns : /\ bubble[t].revision <= bubble'[t].revision
                        /\ bubble[t].completed => bubble'[t].completed]_vars

\* A reply that was embedded, and therefore not sent as a message, is shown: it
\* survives edits in flight, failures and the end of its turn, unless the next
\* turn has begun or something else has closed the turn.
ReplyArrives ==
    []<>(\A t \in embedded \ closed : bubble[t].reply \/ server.turn > t)
=============================================================================
