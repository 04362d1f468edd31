---------------------- MODULE ProgressDeliveryProofs ----------------------
(* Proofs about ProgressDelivery: for any number of turns, updates, closes,
   refused requests and driver tasks. *)
EXTENDS ProgressDelivery, TLAPS

USE ProgressAssumption

\* The router has heard that the turn has started.
Heard(t) == t < heard.turn \/ (t = heard.turn /\ heard.started)

\* The events are handled in order: the current turn is not older than what the
\* router has heard, and the router works on the turn that it hears of.
InOrder ==
    /\ current # 0 => current + 1 >= heard.turn
    /\ current # 0 /\ heard.started => current >= heard.turn
    /\ current <= server.turn /\ heard.turn <= server.turn + 1
    /\ heard.started => heard.turn <= server.turn
    /\ closer.pc \in {"finish", "deliver", "mark"} => closer.turn # 0
    /\ router.pc \in {"item", "deliver item"} => router.turn = heard.turn /\ heard.started
    /\ router.pc \in {"reply", "finish", "deliver", "mark"} =>
          router.turn + 1 = heard.turn /\ ~heard.started /\ router.turn >= 1

\* Only turns that were heard of have anything to show.
OnlyHeard ==
    /\ progress.turn # 0 => Heard(progress.turn)
    /\ \A d \in Drivers : driver[d].pc # "idle" => driver[d].turn \in Turns /\ Heard(driver[d].turn)
    /\ \A t \in Turns : bubble[t] # NoBubble => Heard(t)

\* A delivery may be claimed: the bubble is that of the current turn, or its last
\* revision is left to be sent.
Live == progress.turn # 0 /\ (current = progress.turn \/ progress.cleanup)

\* A current turn without a bubble of its own has not been shown.
NotYetShown ==
    current # 0 /\ progress.turn # current =>
        /\ bubble[current] = NoBubble
        /\ \A d \in Drivers : driver[d].pc # "idle" => driver[d].turn # current

\* A bubble that cannot be claimed is not being sent, and only a bubble that is
\* being sent outlives its turn.
DeadIsQuiet ==
    /\ ~Live => ~progress.sending /\ progress.in_flight = 0 /\ ~progress.cleanup
    /\ progress.cleanup => progress.completed /\ progress.sending /\ current = 0

\* The driver has the delivery of its turn.
Holds(d) == \/ driver[d].pc \in {"check", "send", "sent", "refused"}
            \/ driver[d].pc = "sleep" /\ driver[d].retained

\* A driver that has the delivery is the only one, and what it sends is the
\* revision that is marked.
HolderSends(d) ==
    driver[d].turn = progress.turn /\ Holds(d) =>
        /\ progress.sending
        /\ driver[d].pc = "sleep" => progress.in_flight = 0
        /\ driver[d].pc # "sleep" => /\ progress.in_flight = driver[d].revision
                                     /\ driver[d].message = progress.message
                                     /\ driver[d].completed => progress.completed
        /\ driver[d].pc = "check" => /\ bubble[driver[d].turn].revision <= driver[d].revision
                                     /\ bubble[driver[d].turn].completed => driver[d].completed

OneHolder ==
    \A d, e \in Drivers :
        Holds(d) /\ Holds(e) /\ driver[d].turn = progress.turn /\ driver[e].turn = progress.turn
            => d = e

\* What is shown is no newer than the state, and a bubble without a message id has
\* not been shown, unless the request is just being answered.
ShownIsKnown ==
    /\ bubble[progress.turn].revision <= progress.revision
    /\ bubble[progress.turn].completed => progress.completed
    /\ ~progress.message => \/ bubble[progress.turn].count = 0
                            \/ \E d \in Drivers : driver[d].pc = "sent" /\ driver[d].turn = progress.turn

LiveIsSerial == Live => (\A d \in Drivers : HolderSends(d)) /\ OneHolder /\ ShownIsKnown

\* A request under way does not send the bubble again and shows nothing older.
RequestIsNew ==
    \A d \in Drivers : driver[d].pc = "send" =>
        LET b == bubble[driver[d].turn] IN
        /\ ~driver[d].message => b.count = 0
        /\ b.revision <= driver[d].revision
        /\ b.completed => driver[d].completed

IInv == /\ TypeOK /\ InOrder /\ OnlyHeard /\ NotYetShown /\ DeadIsQuiet /\ LiveIsSerial
        /\ RequestIsNew /\ OneRequest /\ OneBubble

-----------------------------------------------------------------------------
(* The operators keep the types. *)

PInv(p) == /\ p \in ProgressType /\ p.in_flight <= p.revision
           /\ p.in_flight > 0 => p.sending

LEMMA NoProgressType == PInv(NoProgress) /\ NoProgress.turn = 0
<1>1. NoProgress \in ProgressType
  BY Zenon, SMT DEF NoProgress, ProgressType
<1> QED
  BY <1>1, SMT DEF PInv, NoProgress

LEMMA NewProgressType == ASSUME NEW t \in 0..MaxTurns PROVE PInv(NewProgress(t)) /\ NewProgress(t).turn = t
<1>1. NewProgress(t) \in ProgressType
  BY Zenon DEF NoProgress, NewProgress, ProgressType
<1> QED
  BY <1>1, SMT DEF PInv, NoProgress, NewProgress

LEMMA BumpType == ASSUME NEW p, PInv(p) PROVE PInv(Bump(p))
<1>1. p.revision + 1 \in Nat
  BY SMT DEF PInv, ProgressType
<1>2. Bump(p) \in ProgressType
  BY <1>1, Zenon DEF PInv, Bump, ProgressType
<1> QED
  BY <1>2, SMT DEF PInv, Bump, ProgressType

\* Changes of a field that the delivery does not depend on
LEMMA FlagType ==
    ASSUME NEW p, PInv(p)
    PROVE  /\ PInv([p EXCEPT !.completed = TRUE]) /\ PInv([p EXCEPT !.reply = TRUE])
           /\ PInv([p EXCEPT !.cleanup = TRUE])
<1>1. [p EXCEPT !.completed = TRUE] \in ProgressType
  BY Zenon DEF PInv, ProgressType
<1>2. [p EXCEPT !.reply = TRUE] \in ProgressType
  BY Zenon DEF PInv, ProgressType
<1>3. [p EXCEPT !.cleanup = TRUE] \in ProgressType
  BY Zenon DEF PInv, ProgressType
<1> QED
  BY <1>1, <1>2, <1>3, SMT DEF PInv, ProgressType

LEMMA ClaimedType == ASSUME NEW p, PInv(p) PROVE PInv(Claimed(p))
<1>1. Claimed(p) \in ProgressType
  BY Zenon DEF PInv, Claimed, ProgressType
<1> QED
  BY <1>1, SMT DEF PInv, Claimed, ProgressType

LEMMA SnapshotType == ASSUME NEW p, PInv(p) PROVE Snapshot(p) \in DriverType
BY Zenon DEF PInv, Snapshot, IdleDriver, ProgressType, DriverType

LEMMA IdleDriverType == IdleDriver \in DriverType
BY Zenon, SMT DEF IdleDriver, DriverType

LEMMA OfType == ASSUME PInv(progress), NEW t \in 0..MaxTurns PROVE PInv(Of(t)) /\ Of(t).turn = t
BY NewProgressType, Zenon DEF Of

LEMMA FinishedType == ASSUME PInv(progress), NEW t, NEW failed PROVE PInv(Finished(t, failed))
BY BumpType, FlagType, Zenon DEF Finished

\* Each variable's part of the type
RouterType == [pc : {"idle", "item", "deliver item", "reply", "finish", "deliver", "mark"},
               turn : 0..MaxTurns, promotes : BOOLEAN]
CloserType == [pc : {"idle", "finish", "deliver", "mark", "unbind"}, turn : 0..MaxTurns,
               promotes : {FALSE}]
BubbleType == [count : Nat, revision : Nat, completed : BOOLEAN, reply : BOOLEAN]

ServerType == [turn : 0..MaxTurns, running : BOOLEAN]
HeardType == [turn : 1..(MaxTurns + 1), started : BOOLEAN]

Typed ==
    /\ current \in 0..MaxTurns /\ PInv(progress)
    /\ router \in RouterType /\ closer \in CloserType
    /\ driver \in [Drivers -> DriverType]
    /\ server \in ServerType /\ heard \in HeardType
    /\ bubble \in [Turns -> BubbleType]
    /\ embedded \subseteq Turns /\ closed \subseteq Turns
    /\ updates \in 0..MaxUpdates /\ failures \in 0..MaxFailures

LEMMA TypeParts == TypeOK <=> Typed
BY Zenon DEF TypeOK, Typed, PInv, RouterType, CloserType, BubbleType, ServerType, HeardType

LEMMA RouterTypes ==
    ASSUME NEW t \in 0..MaxTurns, NEW r \in RouterType, NEW b \in BOOLEAN
    PROVE  /\ Idle \in RouterType
           /\ \A pc \in {"item", "reply"} : [Idle EXCEPT !.pc = pc, !.turn = t] \in RouterType
           /\ \A pc \in {"deliver item", "finish", "deliver", "mark"} :
                 /\ [r EXCEPT !.pc = pc] \in RouterType
                 /\ [r EXCEPT !.pc = pc, !.promotes = b] \in RouterType
           /\ [r EXCEPT !.promotes = b] \in RouterType
<1>1. 0 \in 0..MaxTurns
  BY SMT
<1>2. Idle \in RouterType
  BY <1>1, Zenon DEF Idle, RouterType
<1>3. ASSUME NEW pc \in {"item", "reply"} PROVE [Idle EXCEPT !.pc = pc, !.turn = t] \in RouterType
  BY Zenon DEF Idle, RouterType
<1>4. ASSUME NEW pc \in {"deliver item", "finish", "deliver", "mark"}
      PROVE  [r EXCEPT !.pc = pc] \in RouterType /\ [r EXCEPT !.pc = pc, !.promotes = b] \in RouterType
  BY Zenon DEF RouterType
<1>5. [r EXCEPT !.promotes = b] \in RouterType
  BY Zenon DEF RouterType
<1> QED
  BY <1>2, <1>3, <1>4, <1>5, Zenon

LEMMA CloserTypes ==
    ASSUME NEW t \in 0..MaxTurns, NEW r \in CloserType
    PROVE  /\ Idle \in CloserType
           /\ [Idle EXCEPT !.pc = "unbind"] \in CloserType
           /\ [Idle EXCEPT !.pc = "finish", !.turn = t] \in CloserType
           /\ \A pc \in {"finish", "deliver", "mark"} : [r EXCEPT !.pc = pc] \in CloserType
<1>1. 0 \in 0..MaxTurns
  BY SMT
<1>2. Idle \in CloserType
  BY <1>1, Zenon DEF Idle, CloserType
<1>3. [Idle EXCEPT !.pc = "unbind"] \in CloserType
  BY <1>1, Zenon DEF Idle, CloserType
<1>4. [Idle EXCEPT !.pc = "finish", !.turn = t] \in CloserType
  BY Zenon DEF Idle, CloserType
<1>5. ASSUME NEW pc \in {"finish", "deliver", "mark"} PROVE [r EXCEPT !.pc = pc] \in CloserType
  BY Zenon DEF CloserType
<1> QED
  BY <1>2, <1>3, <1>4, <1>5, Zenon

LEMMA DriverTypes ==
    ASSUME NEW r \in DriverType, NEW b \in BOOLEAN
    PROVE  /\ \A pc \in {"send", "sent", "refused"} : [r EXCEPT !.pc = pc] \in DriverType
           /\ [r EXCEPT !.pc = "sleep", !.retained = b] \in DriverType
<1>1. ASSUME NEW pc \in {"send", "sent", "refused"} PROVE [r EXCEPT !.pc = pc] \in DriverType
  BY Zenon DEF DriverType
<1>2. [r EXCEPT !.pc = "sleep", !.retained = b] \in DriverType
  BY Zenon DEF DriverType
<1> QED
  BY <1>1, <1>2, Zenon

\* What a driver does to the state when its delivery ends
LEMMA DeliveredType ==
    ASSUME NEW p, PInv(p), NEW b \in BOOLEAN
    PROVE  /\ PInv([p EXCEPT !.message = TRUE, !.in_flight = 0])
           /\ PInv([[p EXCEPT !.message = TRUE, !.in_flight = 0] EXCEPT !.sending = FALSE])
           /\ PInv([p EXCEPT !.in_flight = 0, !.dirty = TRUE, !.sending = b])
<1>1. 0 \in Nat
  BY SMT
<1>2. [p EXCEPT !.message = TRUE, !.in_flight = 0] \in ProgressType
  BY <1>1, Zenon DEF PInv, ProgressType
<1>3. [[p EXCEPT !.message = TRUE, !.in_flight = 0] EXCEPT !.sending = FALSE] \in ProgressType
  BY <1>2, Zenon DEF ProgressType
<1>4. [p EXCEPT !.in_flight = 0, !.dirty = TRUE, !.sending = b] \in ProgressType
  BY <1>1, Zenon DEF PInv, ProgressType
<1> QED
  BY <1>2, <1>3, <1>4, SMT DEF PInv, ProgressType

LEMMA BumpsType ==
    ASSUME NEW p, PInv(p)
    PROVE  PInv([Bump(p) EXCEPT !.completed = TRUE]) /\ PInv([Bump(p) EXCEPT !.reply = TRUE])
BY BumpType, FlagType, Zenon

LEMMA MarkTurnStartedType ==
    ASSUME PInv(progress), NEW t \in 0..MaxTurns, MarkTurnStarted(t)
    PROVE  current' \in 0..MaxTurns /\ PInv(progress')
BY NoProgressType, Zenon DEF MarkTurnStarted

LEMMA MarkTurnCompletedType ==
    ASSUME PInv(progress), current \in 0..MaxTurns, NEW t, MarkTurnCompleted(t)
    PROVE  current' \in 0..MaxTurns /\ PInv(progress')
<1>1. 0 \in 0..MaxTurns
  BY SMT
<1> QED
  BY <1>1, NoProgressType, FlagType, Zenon DEF MarkTurnCompleted

LEMMA DeliverType ==
    ASSUME PInv(progress), driver \in [Drivers -> DriverType], NEW t, Deliver(t)
    PROVE  PInv(progress') /\ driver' \in [Drivers -> DriverType]
<1>1. PInv(Claimed(progress)) /\ Snapshot(progress) \in DriverType
  BY ClaimedType, SnapshotType, Zenon
<1>2. \A d \in Drivers : [driver EXCEPT ![d] = Snapshot(progress)] \in [Drivers -> DriverType]
  BY <1>1, Zenon
<1> QED
  BY <1>1, <1>2, Zenon DEF Deliver

LEMMA TypedServer == Typed /\ (StartTurn \/ EndTurn) => Typed'
<1> SUFFICES ASSUME Typed, StartTurn \/ EndTurn PROVE Typed'
  OBVIOUS
<1>1. CASE StartTurn
  <2>1. server.turn + 1 \in 0..MaxTurns
    BY <1>1, SMT DEF StartTurn, Typed, ServerType
  <2>2. server' \in ServerType
    BY <1>1, <2>1, Zenon DEF StartTurn, ServerType
  <2> QED
    BY <1>1, <2>1, <2>2, MarkTurnStartedType, Zenon DEF StartTurn, Typed
<1>2. CASE EndTurn
  BY <1>2, Zenon DEF EndTurn, Typed, ServerType
<1> QED
  BY <1>1, <1>2

LEMMA TypedRouter == Typed /\ InOrder /\ (HearItem \/ RouterStep) => Typed'
<1> SUFFICES ASSUME Typed, InOrder, HearItem \/ RouterStep PROVE Typed'
  OBVIOUS
<1>0. /\ router.turn \in 0..MaxTurns /\ heard.turn \in 1..(MaxTurns + 1)
      /\ TRUE \in BOOLEAN /\ FALSE \in BOOLEAN
  BY Zenon DEF Typed, RouterType, HeardType
<1>l. Listening => heard.turn \in 0..MaxTurns /\ heard.turn + 1 \in 1..(MaxTurns + 1)
  BY <1>0, SMT DEF Listening, Typed, ServerType
<1>1. CASE HearStarted
  <2>1. heard' \in HeardType
    BY <1>1, Zenon DEF HearStarted, Typed, HeardType
  <2> QED
    BY <1>1, <1>l, <2>1, MarkTurnStartedType, Zenon DEF HearStarted, Typed
<1>2. CASE HearItem
  <2>1. updates' \in 0..MaxUpdates
    BY <1>2, SMT DEF HearItem, Typed
  <2>2. router' \in RouterType
    BY <1>2, <1>l, RouterTypes, Zenon DEF HearItem, Typed
  <2> QED
    BY <1>2, <2>1, <2>2, Zenon DEF HearItem, Typed
<1>3. CASE UpsertItem
  <2>0. PInv(Of(router.turn)) /\ PInv(Bump(Of(router.turn)))
    BY <1>0, OfType, BumpType, Zenon DEF Typed
  <2>t. Idle \in RouterType /\ [router EXCEPT !.pc = "deliver item"] \in RouterType
    BY <1>0, RouterTypes, Zenon DEF Typed
  <2>u. PICK command, quiet \in BOOLEAN :
            IF (command \/ current = router.turn) /\ ~Of(router.turn).completed
            THEN /\ progress' = Bump(Of(router.turn))
                 /\ router' = IF quiet THEN Idle ELSE [router EXCEPT !.pc = "deliver item"]
            ELSE /\ progress' = IF command THEN Of(router.turn) ELSE progress
                 /\ router' = Idle
    BY <1>3, Zenon DEF UpsertItem
  <2>1. PInv(progress') /\ router' \in RouterType
    BY <2>u, <2>0, <2>t, Zenon DEF Typed
  <2> QED
    BY <1>3, <2>1, Zenon DEF UpsertItem, Typed
<1>4. CASE DeliverItem
  BY <1>4, <1>0, DeliverType, RouterTypes, Zenon DEF DeliverItem, Typed
<1>5. CASE HearTerminal
  <2>1. heard' \in HeardType
    BY <1>5, <1>0, <1>l, Zenon DEF HearTerminal, HeardType
  <2>2. router' \in RouterType
    BY <1>5, <1>0, <1>l, RouterTypes, Zenon DEF HearTerminal, Typed
  <2> QED
    BY <1>5, <2>1, <2>2, Zenon DEF HearTerminal, Typed
<1>6. CASE EmbedReply
  <2>1. router.turn \in Turns
    BY <1>6, <1>0, SMT DEF EmbedReply, Turns, InOrder
  <2>2. router' \in RouterType
    BY <1>6, <1>0, RouterTypes, Zenon DEF EmbedReply, Typed
  <2>3. PInv(progress') /\ embedded' \subseteq Turns
    BY <1>6, <2>1, BumpsType, Zenon DEF EmbedReply, Typed
  <2> QED
    BY <1>6, <2>2, <2>3, Zenon DEF EmbedReply, Typed
<1>7. CASE RouterFinish
  <2>1. PICK failed, promotes \in BOOLEAN :
            /\ Finish(router, failed)
            /\ router' = [AfterFinish(router, failed) EXCEPT !.promotes = promotes]
    BY <1>7, Zenon DEF RouterFinish
  <2>2. PInv(progress')
    BY <2>1, FinishedType, Zenon DEF Finish, Typed
  <2>3. AfterFinish(router, failed) \in RouterType
    BY <1>0, RouterTypes, Zenon DEF AfterFinish, Typed
  <2>4. router' \in RouterType
    BY <1>0, <2>1, <2>3, RouterTypes, Zenon
  <2> QED
    BY <1>7, <2>2, <2>4, Zenon DEF RouterFinish, Typed
<1>8. CASE RouterDeliver
  BY <1>8, <1>0, DeliverType, RouterTypes, Zenon DEF RouterDeliver, Typed
<1>9. CASE RouterPromote
  <2>1. PInv(progress') /\ router' \in RouterType
    BY <1>9, <1>0, BumpType, RouterTypes, Zenon DEF RouterPromote, Typed
  <2> QED
    BY <1>9, <2>1, Zenon DEF RouterPromote, Typed
<1>10. CASE RouterMark
  BY <1>10, <1>0, MarkTurnCompletedType, RouterTypes, Zenon DEF RouterMark, Typed
<1> QED
  BY <1>1, <1>2, <1>3, <1>4, <1>5, <1>6, <1>7, <1>8, <1>9, <1>10, Zenon DEF RouterStep

LEMMA TypedCloser == Typed /\ (Close \/ CloserStep) => Typed'
<1> SUFFICES ASSUME Typed, Close \/ CloserStep PROVE Typed'
  OBVIOUS
<1>0. closer.turn \in 0..MaxTurns /\ 0 \in 0..MaxTurns
  BY SMT DEF Typed, CloserType
<1>c. current # 0 => current \in Turns
  BY SMT DEF Typed, Turns
<1>1. CASE Close
  <2>1. closer' \in CloserType
    BY <1>1, CloserTypes, Zenon DEF Close, Typed
  <2> QED
    BY <1>1, <1>c, <2>1, Zenon DEF Close, Typed
<1>2. CASE CloserFinish
  <2>1. PICK failed \in BOOLEAN : Finish(closer, failed) /\ closer' = AfterFinish(closer, failed)
    BY <1>2, Zenon DEF CloserFinish
  <2>2. PInv(progress')
    BY <2>1, FinishedType, Zenon DEF Finish, Typed
  <2>3. closer' \in CloserType
    BY <1>0, <2>1, CloserTypes, Zenon DEF AfterFinish, Typed
  <2> QED
    BY <1>2, <2>2, <2>3, Zenon DEF CloserFinish, Typed
<1>3. CASE CloserDeliver
  BY <1>3, <1>0, DeliverType, CloserTypes, Zenon DEF CloserDeliver, Typed
<1>4. CASE CloserMark
  BY <1>4, <1>0, MarkTurnCompletedType, CloserTypes, Zenon DEF CloserMark, Typed
<1>5. CASE CloserUnbind
  <2>1. progress.turn # 0 => progress.turn \in Turns
    BY SMT DEF Typed, PInv, ProgressType, Turns
  <2>2. closed' \subseteq Turns
    BY <1>5, <1>c, <2>1, Zenon DEF CloserUnbind, Typed
  <2> QED
    BY <1>5, <1>0, <2>2, NoProgressType, CloserTypes, Zenon DEF CloserUnbind, Typed
<1> QED
  BY <1>1, <1>2, <1>3, <1>4, <1>5, Zenon DEF CloserStep

LEMMA TypedDriver ==
    ASSUME Typed, OnlyHeard, NEW d \in Drivers, DriverStep(d) \/ DriverRefused(d)
    PROVE  Typed'
<1>0. driver[d] \in DriverType
  BY Zenon DEF Typed
<1>1. CASE DriverChecks(d)
  <2>1. driver' \in [Drivers -> DriverType]
    BY <1>0, <1>1, DriverTypes, IdleDriverType, Zenon DEF DriverChecks, Typed
  <2> QED
    BY <1>1, <2>1, Zenon DEF DriverChecks, Typed
<1>2. CASE DriverSends(d)
  <2>1. driver' \in [Drivers -> DriverType]
    BY <1>0, <1>2, DriverTypes, Zenon DEF DriverSends, Typed
  <2>2. driver[d].turn \in Turns
    BY <1>2, Zenon DEF DriverSends, OnlyHeard
  <2>3. bubble[driver[d].turn].count \in Nat /\ bubble[driver[d].turn].count + 1 \in Nat
    BY <2>2, SMT DEF Typed, BubbleType
  <2>4. [count |-> IF driver[d].message THEN bubble[driver[d].turn].count
                   ELSE bubble[driver[d].turn].count + 1,
         revision |-> driver[d].revision, completed |-> driver[d].completed,
         reply |-> driver[d].reply] \in BubbleType
    BY <1>0, <2>3, Zenon DEF DriverType, BubbleType
  <2>5. bubble' \in [Turns -> BubbleType]
    BY <1>2, <2>2, <2>4, Zenon DEF DriverSends, Typed
  <2> QED
    BY <1>2, <2>1, <2>5, Zenon DEF DriverSends, Typed
<1>3. CASE DriverRefused(d)
  <2>1. failures' \in 0..MaxFailures
    BY <1>3, SMT DEF DriverRefused, Typed
  <2>2. driver' \in [Drivers -> DriverType]
    BY <1>0, <1>3, DriverTypes, Zenon DEF DriverRefused, Typed
  <2> QED
    BY <1>3, <2>1, <2>2, Zenon DEF DriverRefused, Typed
<1>4. CASE DriverCompletes(d)
  <2>1. PInv(progress')
    <3>1. /\ PInv([progress EXCEPT !.message = TRUE, !.in_flight = 0])
          /\ PInv([[progress EXCEPT !.message = TRUE, !.in_flight = 0] EXCEPT !.sending = FALSE])
          /\ PInv(Claimed([progress EXCEPT !.message = TRUE, !.in_flight = 0]))
      BY DeliveredType, ClaimedType, Zenon DEF Typed
    <3> QED
      BY <1>4, <3>1, NoProgressType, Zenon DEF DriverCompletes, Typed
  <2>2. driver' \in [Drivers -> DriverType]
    BY <1>4, DeliveredType, SnapshotType, IdleDriverType, Zenon DEF DriverCompletes, Typed
  <2> QED
    BY <1>4, <2>1, <2>2, Zenon DEF DriverCompletes, Typed
<1>5. CASE DriverFails(d)
  <2>0. (progress.sending /\ progress.completed) \in BOOLEAN /\ (Mine(d) /\ progress.completed) \in BOOLEAN
    BY Zenon
  <2>1. PInv(progress')
    BY <1>5, <2>0, DeliveredType, Zenon DEF DriverFails, Typed
  <2>2. driver' \in [Drivers -> DriverType]
    <3>1. /\ [driver[d] EXCEPT !.pc = "sleep", !.retained = Mine(d) /\ progress.completed] \in DriverType
          /\ IdleDriver \in DriverType
      BY <1>0, <2>0, DriverTypes, IdleDriverType, Zenon
    <3> QED
      BY <1>5, <3>1, SMT DEF DriverFails, Typed
  <2> QED
    BY <1>5, <2>1, <2>2, Zenon DEF DriverFails, Typed
<1>6. CASE DriverWakes(d)
  <2>1. PInv(progress') /\ driver' \in [Drivers -> DriverType]
    <3>1. PInv(Claimed(progress)) /\ PInv(progress)
      BY ClaimedType, Zenon DEF Typed
    <3>2. /\ [driver EXCEPT ![d] = Snapshot(progress)] \in [Drivers -> DriverType]
          /\ [driver EXCEPT ![d] = IdleDriver] \in [Drivers -> DriverType]
      BY <3>1, SnapshotType, IdleDriverType, Zenon DEF Typed
    <3> QED
      BY <1>6, <3>1, <3>2, Zenon DEF DriverWakes
  <2> QED
    BY <1>6, <2>1, Zenon DEF DriverWakes, Typed
<1> QED
  BY <1>1, <1>2, <1>3, <1>4, <1>5, <1>6, Zenon DEF DriverStep

LEMMA TypedInit == Init => Typed
<1> SUFFICES ASSUME Init PROVE Typed
  OBVIOUS
<1>0. /\ 0 \in Nat /\ 0 \in 0..MaxTurns /\ 1 \in 1..(MaxTurns + 1) /\ 0 \in 0..MaxUpdates
      /\ 0 \in 0..MaxFailures
  BY SMT
<1>1. server \in ServerType /\ heard \in HeardType
  BY <1>0, Zenon DEF Init, ServerType, HeardType
<1>2. NoBubble \in BubbleType
  BY <1>0, Zenon DEF NoBubble, BubbleType
<1>3. Idle \in RouterType /\ Idle \in CloserType
  BY <1>0, Zenon DEF Idle, RouterType, CloserType
<1> QED
  BY <1>0, <1>1, <1>2, <1>3, NoProgressType, IdleDriverType, Zenon DEF Init, Typed

-----------------------------------------------------------------------------
(* The order of the events *)

CurrentOK == /\ current # 0 => current + 1 >= heard.turn
             /\ current # 0 /\ heard.started => current >= heard.turn
             /\ current <= server.turn /\ heard.turn <= server.turn + 1
             /\ heard.started => heard.turn <= server.turn

CloserOK == closer.pc \in {"finish", "deliver", "mark"} => closer.turn # 0

RouterOK ==
    /\ router.pc \in {"item", "deliver item"} => router.turn = heard.turn /\ heard.started
    /\ router.pc \in {"reply", "finish", "deliver", "mark"} =>
          router.turn + 1 = heard.turn /\ ~heard.started /\ router.turn >= 1

LEMMA OrderParts == InOrder <=> CurrentOK /\ CloserOK /\ RouterOK
BY Zenon DEF InOrder, CurrentOK, CloserOK, RouterOK

LEMMA MarkCurrent == ASSUME NEW t, MarkTurnCompleted(t) PROVE current' = 0 \/ current' = current
BY Zenon DEF MarkTurnCompleted

LEMMA IdleFields == /\ Idle.pc = "idle" /\ Idle.turn = 0
                    /\ IdleDriver.pc = "idle" /\ IdleDriver.turn = 0
BY SMT DEF Idle, IdleDriver

\* A step that sets the current turn back at most
LEMMA CurrentKept ==
    ASSUME Typed, CurrentOK, current' = 0 \/ current' = current, UNCHANGED <<heard, server>>
    PROVE  CurrentOK'
BY SMT DEF Typed, HeardType, ServerType, CurrentOK

LEMMA CurrentServer == Typed /\ CurrentOK /\ (StartTurn \/ EndTurn) => CurrentOK'
<1> SUFFICES ASSUME Typed, CurrentOK, StartTurn \/ EndTurn PROVE CurrentOK'
  OBVIOUS
<1>1. server'.turn >= server.turn /\ server'.turn \in Nat /\ UNCHANGED heard
  BY SMT DEF StartTurn, EndTurn, Typed, ServerType
<1>2. current' = current \/ (current' = server.turn + 1 /\ server'.turn = server.turn + 1)
  BY SMT DEF StartTurn, EndTurn, Typed, ServerType, MarkTurnStarted
<1> QED
  BY <1>1, <1>2, SMT DEF Typed, HeardType, ServerType, CurrentOK

LEMMA CurrentRouter == Typed /\ CurrentOK /\ (HearItem \/ RouterStep) => CurrentOK'
<1> SUFFICES ASSUME Typed, CurrentOK, HearItem \/ RouterStep PROVE CurrentOK'
  OBVIOUS
<1>1. CASE HearStarted
  <2>1. heard'.turn = heard.turn /\ heard'.started = TRUE /\ current' = heard.turn
    BY <1>1, SMT DEF HearStarted, MarkTurnStarted, Typed, HeardType
  <2>2. UNCHANGED server /\ heard.turn <= server.turn
    BY <1>1, Zenon DEF HearStarted, Listening
  <2> QED
    BY <2>1, <2>2, SMT DEF CurrentOK, Typed, HeardType, ServerType
<1>2. CASE HearTerminal
  <2>1. heard'.turn = heard.turn + 1 /\ heard'.started = FALSE /\ heard.started
    BY <1>2, SMT DEF HearTerminal
  <2>2. UNCHANGED <<server, current>> /\ heard.turn <= server.turn
    BY <1>2, Zenon DEF HearTerminal, Listening
  <2> QED
    BY <2>1, <2>2, SMT DEF CurrentOK, Typed, HeardType, ServerType
<1>3. CASE HearItem \/ UpsertItem \/ DeliverItem \/ EmbedReply \/ RouterFinish \/ RouterDeliver \/ RouterPromote
  <2>1. UNCHANGED <<current, heard, server>>
    BY <1>3, Zenon DEF HearItem, UpsertItem, DeliverItem, EmbedReply, RouterFinish, RouterDeliver, RouterPromote
  <2> QED
    BY <2>1, CurrentKept, Zenon
<1>4. CASE RouterMark
  BY <1>4, MarkCurrent, CurrentKept, Zenon DEF RouterMark
<1> QED
  BY <1>1, <1>2, <1>3, <1>4, Zenon DEF RouterStep

LEMMA CurrentCloser == Typed /\ CurrentOK /\ (Close \/ CloserStep) => CurrentOK'
<1> SUFFICES ASSUME Typed, CurrentOK, Close \/ CloserStep PROVE CurrentOK'
  OBVIOUS
<1>1. UNCHANGED <<heard, server>>
  BY Zenon DEF Close, CloserStep, CloserFinish, CloserDeliver, CloserMark, CloserUnbind
<1>2. current' = 0 \/ current' = current
  BY MarkCurrent, Zenon DEF Close, CloserStep, CloserFinish, CloserDeliver, CloserMark, CloserUnbind
<1> QED
  BY <1>1, <1>2, CurrentKept, Zenon

LEMMA DriverKeeps ==
    ASSUME NEW d \in Drivers, DriverStep(d) \/ DriverRefused(d)
    PROVE  UNCHANGED <<current, router, closer, heard, server>>
BY Zenon DEF DriverStep, DriverRefused, DriverChecks, DriverSends, DriverCompletes, DriverFails, DriverWakes

LEMMA CloserOKStep == Typed /\ CloserOK /\ (Close \/ CloserStep) => CloserOK'
<1> SUFFICES ASSUME Typed, CloserOK, Close \/ CloserStep PROVE CloserOK'
  OBVIOUS
<1>1. CASE Close
  BY <1>1, SMT DEF Close, CloserOK, Idle
<1>2. CASE CloserFinish
  <2>1. closer.pc = "finish" /\ closer'.turn = closer.turn
    BY <1>2, SMT DEF CloserFinish, Finish, AfterFinish, Typed, CloserType
  <2> QED
    BY <2>1, Zenon DEF CloserOK
<1>3. CASE CloserDeliver
  <2>1. closer.pc = "deliver" /\ closer'.turn = closer.turn
    BY <1>3, SMT DEF CloserDeliver, Typed, CloserType
  <2> QED
    BY <2>1, Zenon DEF CloserOK
<1>4. CASE CloserMark \/ CloserUnbind
  BY <1>4, SMT DEF CloserMark, CloserUnbind, CloserOK, Idle
<1> QED
  BY <1>1, <1>2, <1>3, <1>4, Zenon DEF CloserStep

At(r, pc) == [r EXCEPT !.pc = pc]
Promoting(r, b) == [r EXCEPT !.promotes = b]

LEMMA AtFields == ASSUME NEW r \in RouterType, NEW pc PROVE At(r, pc).pc = pc /\ At(r, pc).turn = r.turn
BY Zenon DEF RouterType, At

LEMMA PromotingFields ==
    ASSUME NEW r \in RouterType, NEW b PROVE Promoting(r, b).pc = r.pc /\ Promoting(r, b).turn = r.turn
BY Zenon DEF RouterType, Promoting

LEMMA RouterMoves ==
    ASSUME Typed
    PROVE  /\ UpsertItem \/ DeliverItem => router'.pc = "idle" \/ (router'.pc = "deliver item" /\ router'.turn = router.turn)
           /\ EmbedReply => router'.pc = "finish" /\ router'.turn = router.turn
           /\ RouterFinish => router'.pc \in {"deliver", "mark"} /\ router'.turn = router.turn
           /\ RouterDeliver => router'.pc = "mark" /\ router'.turn = router.turn
           /\ RouterPromote => router'.pc \in {"deliver", "mark"} /\ router'.turn = router.turn
           /\ RouterMark => router'.pc = "idle"
<1>0. router \in RouterType /\ router.turn \in 0..MaxTurns
  BY Zenon DEF Typed, RouterType
<1>1. UpsertItem \/ DeliverItem => router' = Idle \/ router' = At(router, "deliver item")
  BY Zenon DEF UpsertItem, DeliverItem, At
<1>2. EmbedReply => router' = At(router, "finish")
  BY Zenon DEF EmbedReply, At
<1>3. RouterDeliver => router' = At(router, "mark")
  BY Zenon DEF RouterDeliver, At
<1>4. RouterPromote => /\ router.pc = "mark"
                       /\ router' = Promoting(At(router, "deliver"), FALSE) \/ router' = Promoting(router, FALSE)
  BY Zenon DEF RouterPromote, At, Promoting
<1>5. RouterFinish => \E pc \in {"deliver", "mark"}, b \in BOOLEAN : router' = Promoting(At(router, pc), b)
  BY Zenon DEF RouterFinish, AfterFinish, At, Promoting
<1>6. \A pc \in {"deliver", "mark"} : At(router, pc) \in RouterType
  BY <1>0, RouterTypes, Zenon DEF At
<1>a. \A pc : At(router, pc).pc = pc /\ At(router, pc).turn = router.turn
  BY <1>0, AtFields, Zenon
<1>b. ASSUME NEW pc \in {"deliver", "mark"}, NEW b \in BOOLEAN
      PROVE  Promoting(At(router, pc), b).pc = pc /\ Promoting(At(router, pc), b).turn = router.turn
  <2>1. PICK r : r = At(router, pc)
    OBVIOUS
  <2>2. Promoting(r, b).pc = r.pc /\ Promoting(r, b).turn = r.turn
    BY <1>6, <2>1, PromotingFields, Zenon
  <2> QED
    BY <2>1, <2>2, <1>a
<1>c. Promoting(router, FALSE).pc = router.pc /\ Promoting(router, FALSE).turn = router.turn
  BY <1>0, PromotingFields, Zenon
<1>d. RouterMark => router'.pc = "idle"
  BY IdleFields, Zenon DEF RouterMark
<1>e. RouterFinish \/ RouterPromote => router'.pc \in {"deliver", "mark"} /\ router'.turn = router.turn
  <2>1. FALSE \in BOOLEAN /\ "deliver" \in {"deliver", "mark"}
    BY Zenon
  <2> QED
    BY <1>4, <1>5, <1>b, <1>c, <2>1, Zenon
<1> QED
  BY <1>1, <1>2, <1>3, <1>a, <1>d, <1>e, IdleFields, Zenon

LEMMA RouterOKStep == Typed /\ RouterOK /\ (HearItem \/ RouterStep) => RouterOK'
<1> SUFFICES ASSUME Typed, RouterOK, HearItem \/ RouterStep PROVE RouterOK'
  OBVIOUS
<1>1. CASE HearStarted
  <2>1. router'.pc = "idle"
    BY <1>1, Zenon DEF HearStarted, Listening
  <2> QED
    BY <2>1, Zenon DEF RouterOK
<1>2. CASE HearItem
  <2>1. router'.pc = "item" /\ router'.turn = heard'.turn /\ heard'.started = TRUE
    BY <1>2, SMT DEF HearItem, Listening, Idle, Typed, HeardType
  <2> QED
    BY <2>1, Zenon DEF RouterOK
<1>3. CASE UpsertItem \/ DeliverItem
  <2>1. UNCHANGED heard /\ router.pc \in {"item", "deliver item"}
    BY <1>3, Zenon DEF UpsertItem, DeliverItem
  <2>2. router'.pc = "idle" \/ (router'.pc = "deliver item" /\ router'.turn = router.turn)
    BY <1>3, RouterMoves, Zenon
  <2> QED
    BY <2>1, <2>2, Zenon DEF RouterOK
<1>4. CASE HearTerminal
  <2>1. heard'.turn = heard.turn + 1 /\ heard'.started = FALSE /\ heard.turn >= 1
    BY <1>4, SMT DEF HearTerminal, Typed, HeardType
  <2>2. router'.pc = "idle" \/ (router'.pc = "reply" /\ router'.turn = heard.turn)
    BY <1>4, SMT DEF HearTerminal, Idle
  <2> QED
    BY <2>1, <2>2, Zenon DEF RouterOK
<1>5. CASE EmbedReply \/ RouterFinish \/ RouterDeliver \/ RouterPromote \/ RouterMark
  <2>1. UNCHANGED heard /\ router.pc \in {"reply", "finish", "deliver", "mark"}
    BY <1>5, Zenon DEF EmbedReply, RouterFinish, Finish, RouterDeliver, RouterPromote, RouterMark
  <2>2. router'.pc = "idle" \/ (router'.pc \in {"finish", "deliver", "mark"} /\ router'.turn = router.turn)
    BY <1>5, RouterMoves, Zenon
  <2> QED
    BY <2>1, <2>2, Zenon DEF RouterOK
<1> QED
  BY <1>1, <1>2, <1>3, <1>4, <1>5, Zenon DEF RouterStep

LEMMA OrderInit == Init => InOrder
<1> SUFFICES ASSUME Init PROVE InOrder
  OBVIOUS
<1>1. heard.turn = 1 /\ heard.started = FALSE /\ server.turn = 0 /\ current = 0
  BY SMT DEF Init
<1>2. router.pc = "idle" /\ closer.pc = "idle"
  BY SMT DEF Init, Idle
<1> QED
  BY <1>1, <1>2, SMT DEF InOrder

-----------------------------------------------------------------------------
(* The deliveries: what the steps do to the state of the bubble, ... *)

\* q is p with more to show.
Grows(p, q) ==
    /\ q.turn = p.turn /\ q.message = p.message /\ q.in_flight = p.in_flight
    /\ q.sending = p.sending /\ q.cleanup = p.cleanup
    /\ p.revision <= q.revision
    /\ p.completed => q.completed

LEMMA GrowsSame == ASSUME NEW p, PInv(p) PROVE Grows(p, p)
BY SMT DEF Grows, PInv, ProgressType

LEMMA GrowsBump == ASSUME NEW p, PInv(p) PROVE Grows(p, Bump(p))
BY SMT DEF Grows, PInv, ProgressType, Bump

LEMMA GrowsCompleted == ASSUME NEW p, PInv(p) PROVE Grows(p, [Bump(p) EXCEPT !.completed = TRUE])
BY SMT DEF Grows, PInv, ProgressType, Bump

LEMMA GrowsReply == ASSUME NEW p, PInv(p) PROVE Grows(p, [Bump(p) EXCEPT !.reply = TRUE])
BY SMT DEF Grows, PInv, ProgressType, Bump

LEMMA GrowsFinished == ASSUME PInv(progress), NEW t, NEW failed PROVE Grows(progress, Finished(t, failed))
BY GrowsSame, GrowsCompleted, Zenon DEF Finished

\* The claim of a delivery
LEMMA ClaimedFields ==
    ASSUME NEW p, PInv(p)
    PROVE  /\ Claimed(p).turn = p.turn /\ Claimed(p).message = p.message
           /\ Claimed(p).completed = p.completed /\ Claimed(p).cleanup = p.cleanup
           /\ Claimed(p).revision = p.revision /\ Claimed(p).in_flight = p.revision
           /\ Claimed(p).sending = TRUE
BY SMT DEF PInv, ProgressType, Claimed

LEMMA SnapshotFields ==
    ASSUME NEW p, PInv(p)
    PROVE  /\ Snapshot(p).pc = "check" /\ Snapshot(p).turn = p.turn
           /\ Snapshot(p).revision = p.revision /\ Snapshot(p).message = p.message
           /\ Snapshot(p).completed = p.completed
BY SMT DEF PInv, ProgressType, Snapshot, IdleDriver

LEMMA NoProgressFields == /\ NoProgress.turn = 0 /\ NoProgress.sending = FALSE /\ NoProgress.in_flight = 0
                          /\ NoProgress.cleanup = FALSE
BY SMT DEF NoProgress

LEMMA NewProgressFields ==
    ASSUME NEW t
    PROVE  /\ NewProgress(t).turn = t /\ NewProgress(t).sending = FALSE /\ NewProgress(t).in_flight = 0
           /\ NewProgress(t).cleanup = FALSE /\ NewProgress(t).message = FALSE
           /\ NewProgress(t).completed = FALSE /\ NewProgress(t).revision = 0
BY SMT DEF NewProgress, NoProgress

LEMMA NoBubbleFields == NoBubble.count = 0 /\ NoBubble.revision = 0 /\ NoBubble.completed = FALSE
BY SMT DEF NoBubble

(* ... and that they keep the deliveries serial. *)
Serial == NotYetShown /\ DeadIsQuiet /\ LiveIsSerial
Requests == RequestIsNew /\ OneRequest /\ OneBubble

\* The types of the fields
LEMMA FieldTypes ==
    ASSUME Typed
    PROVE  /\ current \in Nat /\ progress.turn \in Nat /\ progress.revision \in Nat /\ progress.in_flight \in Nat
           /\ progress.sending \in BOOLEAN /\ progress.message \in BOOLEAN
           /\ progress.completed \in BOOLEAN /\ progress.cleanup \in BOOLEAN /\ progress.dirty \in BOOLEAN
           /\ progress.in_flight <= progress.revision
           /\ \A d \in Drivers : /\ driver[d].revision \in Nat /\ driver[d].message \in BOOLEAN
                                 /\ driver[d].completed \in BOOLEAN /\ driver[d].retained \in BOOLEAN
                                 /\ driver[d].turn \in 0..MaxTurns
           /\ \A t \in Turns : /\ bubble[t].revision \in Nat /\ bubble[t].count \in Nat
                               /\ bubble[t].completed \in BOOLEAN
           /\ progress.turn # 0 => progress.turn \in Turns
           /\ current # 0 => current \in Turns
BY SMT DEF Typed, PInv, ProgressType, DriverType, BubbleType, Turns

\* A step that leaves the drivers and the messages alone keeps the requests.
LEMMA RequestsKept == Requests /\ UNCHANGED <<driver, bubble>> => Requests'
BY SMT DEF Requests, RequestIsNew, OneRequest, OneBubble

LEMMA GrowStep ==
    ASSUME Typed, Typed', Serial, UNCHANGED <<current, driver, bubble>>, Grows(progress, progress')
    PROVE  Serial'
<1>1. Live' = Live
  BY SMT DEF Live, Grows
<1>2. NotYetShown'
  BY SMT DEF NotYetShown, Serial, Grows
<1>3. DeadIsQuiet'
  BY <1>1, SMT DEF DeadIsQuiet, Serial, Grows
<1>4. ASSUME Live PROVE (\A d \in Drivers : HolderSends(d))' /\ OneHolder' /\ ShownIsKnown'
  <2>0. (\A d \in Drivers : HolderSends(d)) /\ OneHolder /\ ShownIsKnown
    BY <1>4, Zenon DEF Serial, LiveIsSerial
  <2>1. ASSUME NEW d \in Drivers PROVE HolderSends(d)'
    <3>1. HolderSends(d)
      BY <2>0
    <3> QED
      BY <3>1, SMT DEF HolderSends, Holds, Grows
  <2>2. OneHolder'
    BY <2>0, SMT DEF OneHolder, Holds, Grows
  <2>3. ShownIsKnown'
    <3>1. progress.turn \in Turns
      BY <1>4, FieldTypes, Zenon DEF Live
    <3>2. progress'.revision \in Nat
      BY SMT DEF Typed, PInv, ProgressType
    <3> QED
      BY <2>0, <3>1, <3>2, FieldTypes, SMT DEF ShownIsKnown, Grows
  <2> QED
    BY <2>1, <2>2, <2>3
<1> QED
  BY <1>1, <1>2, <1>3, <1>4, Zenon DEF Serial, LiveIsSerial

\* Nothing has been shown for the turn, and nothing is on its way.
Unshown(t) == /\ bubble[t] = NoBubble
              /\ \A d \in Drivers : driver[d].pc # "idle" => driver[d].turn # t

\* A bubble that is made anew, or dropped
Fresh(p) == /\ p.sending = FALSE /\ p.in_flight = 0 /\ p.cleanup = FALSE
            /\ p.revision \in Nat

LEMMA FreshState == Typed /\ Fresh(progress) /\ (current = 0 \/ Unshown(current)) => Serial
<1> SUFFICES ASSUME Typed, Fresh(progress), current = 0 \/ Unshown(current) PROVE Serial
  OBVIOUS
<1>1. NotYetShown
  BY Zenon DEF NotYetShown, Unshown
<1>2. DeadIsQuiet
  BY SMT DEF DeadIsQuiet, Fresh
<1>3. ASSUME Live PROVE (\A d \in Drivers : HolderSends(d)) /\ OneHolder /\ ShownIsKnown
  <2>1. progress.turn = current /\ current # 0 /\ Unshown(current)
    BY <1>3, SMT DEF Live, Fresh
  <2>2. ASSUME NEW d \in Drivers PROVE ~(driver[d].turn = progress.turn /\ Holds(d))
    BY <2>1, SMT DEF Holds, Unshown
  <2>3. ShownIsKnown
    BY <2>1, NoBubbleFields, SMT DEF ShownIsKnown, Unshown, Fresh
  <2> QED
    BY <2>2, <2>3, Zenon DEF HolderSends, OneHolder
<1> QED
  BY <1>1, <1>2, <1>3, Zenon DEF Serial, LiveIsSerial

LEMMA DropStep ==
    ASSUME Typed', progress' = NoProgress, current' = 0 \/ Unshown(current)'
    PROVE  Serial'
<1>1. Fresh(progress)'
  BY NoProgressFields, SMT DEF Fresh, Typed, PInv, ProgressType
<1>2. (Typed /\ Fresh(progress) /\ (current = 0 \/ Unshown(current)))' => Serial'
  BY FreshState, PTL
<1> QED
  BY <1>1, <1>2

LEMMA NewStep ==
    ASSUME Typed', NEW t, Grows(NewProgress(t), progress'), current' = 0 \/ Unshown(current)'
    PROVE  Serial'
<1>0. progress'.revision \in Nat
  BY SMT DEF Typed, PInv, ProgressType
<1>1. Fresh(progress)'
  BY <1>0, NewProgressFields, Zenon DEF Fresh, Grows
<1>2. (Typed /\ Fresh(progress) /\ (current = 0 \/ Unshown(current)))' => Serial'
  BY FreshState, PTL
<1> QED
  BY <1>1, <1>2

LEMMA CleanupFields ==
    ASSUME NEW p, PInv(p), NEW q, q = [p EXCEPT !.cleanup = TRUE]
    PROVE  /\ q.turn = p.turn /\ q.message = p.message /\ q.in_flight = p.in_flight
           /\ q.revision = p.revision /\ q.sending = p.sending /\ q.completed = p.completed
           /\ q.cleanup = TRUE
BY SMT DEF PInv, ProgressType

\* A turn ends while the last revision of its bubble is being sent.
LEMMA CleanupStep ==
    ASSUME Typed, Serial, UNCHANGED <<driver, bubble>>, current' = 0,
           progress.completed, progress.sending, progress' = [progress EXCEPT !.cleanup = TRUE]
    PROVE  Serial'
<1>1. /\ progress'.turn = progress.turn /\ progress'.message = progress.message
      /\ progress'.in_flight = progress.in_flight /\ progress'.revision = progress.revision
      /\ progress'.sending = progress.sending /\ progress'.completed = progress.completed
      /\ progress'.cleanup = TRUE
  <2>1. PInv(progress)
    BY Zenon DEF Typed
  <2> QED
    BY <2>1, CleanupFields
<1>2. Live
  BY Zenon DEF Serial, DeadIsQuiet
<1>3. Live'
  BY <1>1, <1>2, SMT DEF Live
<1>4. NotYetShown' /\ DeadIsQuiet'
  BY <1>1, <1>3, SMT DEF NotYetShown, DeadIsQuiet
<1>5. (\A d \in Drivers : HolderSends(d)) /\ OneHolder /\ ShownIsKnown
  BY <1>2, Zenon DEF Serial, LiveIsSerial
<1>6. ASSUME NEW d \in Drivers PROVE HolderSends(d)'
  <2>1. HolderSends(d)
    BY <1>5
  <2> QED
    BY <2>1, <1>1, SMT DEF HolderSends, Holds
<1>7. OneHolder'
  BY <1>5, <1>1, SMT DEF OneHolder, Holds
<1>8. ShownIsKnown'
  BY <1>5, <1>1, Zenon DEF ShownIsKnown
<1> QED
  BY <1>4, <1>6, <1>7, <1>8, Zenon DEF Serial, LiveIsSerial

\* Two driver steps change nothing but one driver and the state of the bubble.
OnlyDriver(d) == \A e \in Drivers \ {d} : driver'[e] = driver[e]

\* A delivery is claimed, and the driver has the revision to be sent.
ClaimsFor(d) ==
    /\ Live /\ OnlyDriver(d) /\ UNCHANGED <<current, bubble>>
    /\ progress'.turn = progress.turn /\ progress'.completed = progress.completed
    /\ progress'.cleanup = progress.cleanup /\ progress'.revision = progress.revision
    /\ progress'.sending = TRUE /\ progress'.in_flight = progress.revision
    /\ driver'[d].pc = "check" /\ driver'[d].turn = progress.turn
    /\ driver'[d].revision = progress.revision
    /\ driver'[d].message = progress'.message /\ driver'[d].completed = progress.completed
    /\ ~progress'.message => bubble[progress.turn].count = 0
    /\ \A e \in Drivers \ {d} : ~(Holds(e) /\ driver[e].turn = progress.turn)

LEMMA ClaimStep ==
    ASSUME Typed, Serial, NEW d \in Drivers, ClaimsFor(d)
    PROVE  Serial'
<1>0. (\A e \in Drivers : HolderSends(e)) /\ OneHolder /\ ShownIsKnown /\ Live
  BY Zenon DEF Serial, LiveIsSerial, ClaimsFor
<1>1. Live'
  BY SMT DEF Live, ClaimsFor
<1>2. DeadIsQuiet'
  BY <1>1, SMT DEF DeadIsQuiet, Serial, ClaimsFor
<1>3. NotYetShown'
  <2> SUFFICES ASSUME current # 0, progress.turn # current
               PROVE  FALSE
    BY Zenon DEF NotYetShown, ClaimsFor
  <2> QED
    BY SMT DEF ClaimsFor, Live, Serial, DeadIsQuiet
<1>4. ASSUME NEW e \in Drivers, e # d PROVE ~(Holds(e)' /\ driver'[e].turn = progress'.turn)
  BY <1>4, Zenon DEF ClaimsFor, OnlyDriver, Holds
<1>5. HolderSends(d)'
  BY <1>0, Zenon DEF HolderSends, ClaimsFor, ShownIsKnown
<1>6. \A e \in Drivers : HolderSends(e)'
  BY <1>4, <1>5, Zenon DEF HolderSends
<1>7. OneHolder'
  BY <1>4, Zenon DEF OneHolder
<1>8. ShownIsKnown'
  BY <1>0, Zenon DEF ShownIsKnown, ClaimsFor
<1> QED
  BY <1>2, <1>3, <1>6, <1>7, <1>8, Zenon DEF Serial, LiveIsSerial

\* A driver gives up what it holds, and leaves the state of the bubble alone.
LeavesAlone(d) ==
    /\ OnlyDriver(d) /\ UNCHANGED <<current, bubble, progress>>
    /\ driver'[d].pc = "idle" \/ (driver'[d].pc = "sleep" /\ ~driver'[d].retained)
    /\ driver'[d].pc = "sleep" => driver[d].pc # "idle" /\ driver'[d].turn = driver[d].turn
    /\ driver[d].pc = "sent" => ~(Live /\ driver[d].turn = progress.turn)

LEMMA LeaveStep ==
    ASSUME Typed, Serial, NEW d \in Drivers, LeavesAlone(d)
    PROVE  Serial'
<1>1. Live' = Live
  BY Zenon DEF Live, LeavesAlone
<1>2. DeadIsQuiet'
  BY <1>1, Zenon DEF DeadIsQuiet, Serial, LeavesAlone
<1>3. NotYetShown'
  <2>0. UNCHANGED <<current, bubble, progress>>
    BY DEF LeavesAlone
  <2>1. ASSUME current # 0, progress.turn # current, NEW e \in Drivers, driver'[e].pc # "idle"
        PROVE  driver'[e].turn # current
    BY <2>1, Zenon DEF LeavesAlone, OnlyDriver, Serial, NotYetShown
  <2> QED
    BY <2>0, <2>1, Zenon DEF Serial, NotYetShown
<1>4. ~Holds(d)'
  BY Zenon DEF LeavesAlone, Holds
<1>5. ASSUME NEW e \in Drivers PROVE Holds(e)' => e # d /\ Holds(e) /\ driver'[e] = driver[e]
  <2>1. CASE e = d
    BY <2>1, <1>4
  <2>2. CASE e # d
    <3>1. driver'[e] = driver[e]
      BY <2>2, Zenon DEF LeavesAlone, OnlyDriver
    <3> QED
      BY <2>2, <3>1, Zenon DEF Holds
  <2> QED
    BY <2>1, <2>2
<1>6. ASSUME Live PROVE (\A e \in Drivers : HolderSends(e))' /\ OneHolder' /\ ShownIsKnown'
  <2>0. (\A e \in Drivers : HolderSends(e)) /\ OneHolder /\ ShownIsKnown
    BY <1>6, Zenon DEF Serial, LiveIsSerial
  <2>1. ASSUME NEW e \in Drivers PROVE HolderSends(e)'
    <3>1. CASE ~Holds(e)'
      BY <3>1, Zenon DEF HolderSends
    <3>2. CASE Holds(e)'
      <4>1. driver'[e] = driver[e] /\ Holds(e) /\ bubble' = bubble /\ progress' = progress
        BY <3>2, <1>5, Zenon DEF LeavesAlone
      <4> QED
        BY <2>0, <4>1, Zenon DEF HolderSends
    <3> QED
      BY <3>1, <3>2
  <2>2. OneHolder'
    BY <2>0, <1>5, Zenon DEF OneHolder, LeavesAlone
  <2>3. ShownIsKnown'
    <3>1. ASSUME NEW e \in Drivers, driver[e].pc = "sent", driver[e].turn = progress.turn
          PROVE  driver'[e] = driver[e]
      BY <1>6, <3>1, Zenon DEF LeavesAlone, OnlyDriver
    <3> QED
      BY <2>0, <3>1, Zenon DEF ShownIsKnown, LeavesAlone
  <2> QED
    BY <2>1, <2>2, <2>3
<1> QED
  BY <1>1, <1>2, <1>3, <1>6, Zenon DEF Serial, LiveIsSerial

\* A driver goes on with the request it has; the messages stay as they are.
GoesOn(d) ==
    /\ OnlyDriver(d) /\ UNCHANGED <<current, bubble, progress>>
    /\ \/ driver[d].pc = "check" /\ driver'[d].pc = "send"
       \/ driver[d].pc = "send" /\ driver'[d].pc = "refused"
    /\ driver'[d].turn = driver[d].turn /\ driver'[d].revision = driver[d].revision
    /\ driver'[d].message = driver[d].message /\ driver'[d].completed = driver[d].completed

LEMMA GoOnStep ==
    ASSUME Typed, Serial, NEW d \in Drivers, GoesOn(d)
    PROVE  Serial'
<1>0. UNCHANGED <<current, bubble, progress>>
  BY DEF GoesOn
<1>1. Live' = Live
  BY <1>0, Zenon DEF Live
<1>2. DeadIsQuiet'
  BY <1>0, <1>1, Zenon DEF DeadIsQuiet, Serial
<1>a. ASSUME NEW e \in Drivers
      PROVE  driver'[e].turn = driver[e].turn /\ (driver'[e].pc # "idle" => driver[e].pc # "idle")
  BY <1>a, Zenon DEF GoesOn, OnlyDriver
<1>3. NotYetShown'
  BY <1>0, <1>a, Zenon DEF Serial, NotYetShown
<1>4. ASSUME NEW e \in Drivers PROVE Holds(e)' => Holds(e)
  <2>1. CASE e = d
    BY <2>1, Zenon DEF GoesOn, Holds
  <2>2. CASE e # d
    BY <2>2, Zenon DEF GoesOn, OnlyDriver, Holds
  <2> QED
    BY <2>1, <2>2
<1>6. ASSUME Live PROVE (\A e \in Drivers : HolderSends(e))' /\ OneHolder' /\ ShownIsKnown'
  <2>0. (\A e \in Drivers : HolderSends(e)) /\ OneHolder /\ ShownIsKnown
    BY <1>6, Zenon DEF Serial, LiveIsSerial
  <2>1. ASSUME NEW e \in Drivers PROVE HolderSends(e)'
    <3>1. CASE e = d
      <4>1. HolderSends(d) /\ Holds(d)
        BY <2>0, Zenon DEF Holds, GoesOn
      <4>2. /\ driver'[d].pc \in {"send", "refused"} /\ driver[d].pc \in {"check", "send"}
            /\ driver'[d].turn = driver[d].turn /\ driver'[d].revision = driver[d].revision
            /\ driver'[d].message = driver[d].message /\ driver'[d].completed = driver[d].completed
        BY Zenon DEF GoesOn
      <4> QED
        BY <3>1, <4>1, <4>2, <1>0, SMT DEF HolderSends
    <3>2. CASE e # d
      <4>1. driver'[e] = driver[e]
        BY <3>2, Zenon DEF GoesOn, OnlyDriver
      <4>2. Holds(e)' <=> Holds(e)
        BY <4>1, Zenon DEF Holds
      <4> QED
        BY <4>1, <4>2, <2>0, <1>0, Zenon DEF HolderSends
    <3> QED
      BY <3>1, <3>2
  <2>2. OneHolder'
    BY <2>0, <1>0, <1>a, <1>4, Zenon DEF OneHolder
  <2>3. ShownIsKnown'
    <3>1. ASSUME NEW e \in Drivers, driver[e].pc = "sent" PROVE driver'[e].pc = "sent"
      BY <3>1, Zenon DEF GoesOn, OnlyDriver
    <3> QED
      BY <2>0, <1>0, <1>a, <3>1, Zenon DEF ShownIsKnown
  <2> QED
    BY <2>1, <2>2, <2>3
<1> QED
  BY <1>1, <1>2, <1>3, <1>6, Zenon DEF Serial, LiveIsSerial

\* Telegram takes the request.
Sends(d) ==
    /\ OnlyDriver(d) /\ UNCHANGED <<current, progress>>
    /\ driver[d].pc = "send" /\ driver'[d].pc = "sent"
    /\ driver'[d].turn = driver[d].turn /\ driver'[d].revision = driver[d].revision
    /\ driver'[d].message = driver[d].message /\ driver'[d].completed = driver[d].completed
    /\ \A t \in Turns \ {driver[d].turn} : bubble'[t] = bubble[t]
    /\ bubble'[driver[d].turn].revision = driver[d].revision
    /\ bubble'[driver[d].turn].completed = driver[d].completed
    /\ bubble'[driver[d].turn].count = bubble[driver[d].turn].count + IF driver[d].message THEN 0 ELSE 1

LEMMA SendStep ==
    ASSUME Typed, Serial, NEW d \in Drivers, Sends(d), driver[d].turn \in Turns
    PROVE  Serial'
<1>0. UNCHANGED <<current, progress>>
  BY DEF Sends
<1>1. Live' = Live
  BY <1>0, Zenon DEF Live
<1>2. DeadIsQuiet'
  BY <1>0, <1>1, Zenon DEF DeadIsQuiet, Serial
<1>a. ASSUME NEW e \in Drivers
      PROVE  driver'[e].turn = driver[e].turn /\ (driver'[e].pc # "idle" => driver[e].pc # "idle")
  BY <1>a, Zenon DEF Sends, OnlyDriver
<1>3. NotYetShown'
  <2>1. ASSUME current # 0, progress.turn # current PROVE bubble'[current] = NoBubble
    <3>1. driver[d].turn # current /\ bubble[current] = NoBubble
      BY <2>1, Zenon DEF Sends, Serial, NotYetShown
    <3>2. current \in Turns
      BY <2>1, FieldTypes
    <3> QED
      BY <3>1, <3>2, Zenon DEF Sends
  <2> QED
    BY <1>0, <1>a, <2>1, Zenon DEF Serial, NotYetShown
<1>4. ASSUME NEW e \in Drivers PROVE Holds(e)' => Holds(e)
  <2>1. CASE e = d
    BY <2>1, Zenon DEF Sends, Holds
  <2>2. CASE e # d
    BY <2>2, Zenon DEF Sends, OnlyDriver, Holds
  <2> QED
    BY <2>1, <2>2
<1>6. ASSUME Live PROVE (\A e \in Drivers : HolderSends(e))' /\ OneHolder' /\ ShownIsKnown'
  <2>0. (\A e \in Drivers : HolderSends(e)) /\ OneHolder /\ ShownIsKnown /\ Holds(d)
    BY <1>6, Zenon DEF Serial, LiveIsSerial, Holds, Sends
  <2>t. progress.turn \in Turns
    BY <1>6, FieldTypes DEF Live
  <2>1. ASSUME NEW e \in Drivers PROVE HolderSends(e)'
    <3>1. CASE e = d
      <4>1. HolderSends(d) /\ Holds(d)
        BY <2>0
      <4> QED
        BY <3>1, <4>1, <1>0, Zenon DEF HolderSends, Sends
    <3>2. CASE e # d /\ Holds(e)' /\ driver'[e].turn = progress'.turn
      <4>1. Holds(e) /\ driver[e].turn = progress.turn /\ driver'[e] = driver[e]
        BY <3>2, <1>0, <1>4, <1>a, Zenon DEF Sends, OnlyDriver
      <4>2. driver[d].turn # progress.turn
        BY <3>2, <4>1, <2>0, Zenon DEF OneHolder
      <4>3. bubble'[progress.turn] = bubble[progress.turn]
        BY <4>2, <2>t, Zenon DEF Sends
      <4>4. HolderSends(e)
        BY <2>0
      <4> QED
        BY <3>2, <4>1, <4>3, <4>4, <1>0, Zenon DEF HolderSends
    <3> QED
      BY <3>1, <3>2, Zenon DEF HolderSends
  <2>2. OneHolder'
    BY <2>0, <1>0, <1>a, <1>4, Zenon DEF OneHolder
  <2>3. ShownIsKnown'
    <3>1. CASE driver[d].turn = progress.turn
      <4>1. progress.in_flight = driver[d].revision /\ (driver[d].completed => progress.completed)
        BY <3>1, <2>0, Zenon DEF HolderSends, Sends
      <4>2. driver[d].revision <= progress.revision
        BY <4>1, FieldTypes, Zenon
      <4> QED
        BY <3>1, <4>1, <4>2, <1>0, Zenon DEF ShownIsKnown, Sends
    <3>2. CASE driver[d].turn # progress.turn
      <4>1. bubble'[progress.turn] = bubble[progress.turn]
        BY <3>2, <2>t, Zenon DEF Sends
      <4>2. ASSUME NEW e \in Drivers, driver[e].pc = "sent" PROVE driver'[e].pc = "sent"
        BY <4>2, Zenon DEF Sends, OnlyDriver
      <4> QED
        BY <2>0, <1>0, <1>a, <4>1, <4>2, Zenon DEF ShownIsKnown
    <3> QED
      BY <3>1, <3>2
  <2> QED
    BY <2>1, <2>2, <2>3
<1> QED
  BY <1>1, <1>2, <1>3, <1>6, Zenon DEF Serial, LiveIsSerial

\* The request of the driver that has the delivery is over: it keeps the delivery
\* for another try, or gives it back.
Ends(d) ==
    /\ Live /\ Holds(d) /\ driver[d].turn = progress.turn
    /\ OnlyDriver(d) /\ UNCHANGED <<current, bubble>>
    /\ progress'.turn = progress.turn /\ progress'.completed = progress.completed
    /\ progress'.cleanup = progress.cleanup /\ progress'.revision = progress.revision
    /\ progress'.in_flight = 0
    /\ progress.cleanup => progress'.sending
    /\ Holds(d)' => progress'.sending /\ driver'[d].pc = "sleep"
    /\ ~progress'.message => ~progress.message /\ driver[d].pc # "sent"

LEMMA EndStep ==
    ASSUME Typed, Serial, NEW d \in Drivers, Ends(d)
    PROVE  Serial'
<1>0. (\A e \in Drivers : HolderSends(e)) /\ OneHolder /\ ShownIsKnown /\ Live
  BY Zenon DEF Serial, LiveIsSerial, Ends
<1>1. Live'
  BY Zenon DEF Live, Ends
<1>2. DeadIsQuiet'
  BY <1>1, Zenon DEF DeadIsQuiet, Serial, Ends
<1>3. NotYetShown'
  <2>1. ~(current # 0 /\ progress.turn # current)
    BY <1>0, Zenon DEF Live, Serial, DeadIsQuiet
  <2> QED
    BY <2>1, Zenon DEF NotYetShown, Ends
<1>4. ASSUME NEW e \in Drivers, e # d PROVE ~(Holds(e) /\ driver[e].turn = progress.turn)
  BY <1>0, <1>4, Zenon DEF Ends, OneHolder
<1>5. ASSUME NEW e \in Drivers, e # d PROVE ~(Holds(e)' /\ driver'[e].turn = progress'.turn)
  BY <1>4, <1>5, Zenon DEF Ends, OnlyDriver, Holds
<1>6. HolderSends(d)'
  BY Zenon DEF HolderSends, Ends
<1>7. \A e \in Drivers : HolderSends(e)'
  BY <1>5, <1>6, Zenon DEF HolderSends
<1>8. OneHolder'
  BY <1>5, Zenon DEF OneHolder
<1>9. ShownIsKnown'
  <2>1. ASSUME ~progress'.message PROVE bubble[progress.turn].count = 0
    <3>1. ~progress.message /\ driver[d].pc # "sent"
      BY <2>1, Zenon DEF Ends
    <3>2. ASSUME NEW e \in Drivers, driver[e].pc = "sent", driver[e].turn = progress.turn PROVE FALSE
      BY <3>1, <3>2, <1>4, Zenon DEF Holds
    <3> QED
      BY <1>0, <3>1, <3>2, Zenon DEF ShownIsKnown
  <2> QED
    BY <1>0, <2>1, Zenon DEF ShownIsKnown, Ends
<1> QED
  BY <1>2, <1>3, <1>7, <1>8, <1>9, Zenon DEF Serial, LiveIsSerial

-----------------------------------------------------------------------------
(* The requests *)

\* A driver that does not begin a request
LEMMA NoNewRequest ==
    ASSUME Requests, NEW d \in Drivers, OnlyDriver(d), UNCHANGED bubble, driver'[d].pc \notin {"send", "sent"}
    PROVE  Requests'
<1>1. ASSUME NEW e \in Drivers, driver'[e].pc \in {"send", "sent"} PROVE driver'[e] = driver[e]
  BY <1>1, Zenon DEF OnlyDriver
<1>2. RequestIsNew'
  BY <1>1, Zenon DEF Requests, RequestIsNew
<1>3. OneRequest'
  BY <1>1, Zenon DEF Requests, OneRequest
<1> QED
  BY <1>2, <1>3, Zenon DEF Requests, OneBubble

\* A driver begins a request only for the delivery that it has.
LEMMA BeginRequest ==
    ASSUME Requests, Serial, Live, NEW d \in Drivers, GoesOn(d), driver[d].pc = "check",
           driver[d].turn = progress.turn
    PROVE  Requests'
<1>0. HolderSends(d) /\ OneHolder /\ ShownIsKnown /\ Holds(d)
  BY Zenon DEF Serial, LiveIsSerial, Holds
<1>1. ASSUME NEW e \in Drivers, driver[e].pc \in {"send", "sent"}, driver[e].turn = progress.turn PROVE FALSE
  <2>1. Holds(e)
    BY <1>1, Zenon DEF Holds
  <2>2. e = d
    BY <1>0, <1>1, <2>1, Zenon DEF OneHolder
  <2> QED
    BY <1>1, <2>2
<1>2. ~driver[d].message => bubble[progress.turn].count = 0
  BY <1>0, <1>1, Zenon DEF HolderSends, ShownIsKnown
<1>3. ASSUME NEW e \in Drivers, e # d PROVE driver'[e] = driver[e]
  BY <1>3, Zenon DEF GoesOn, OnlyDriver
<1>4. RequestIsNew'
  <2>1. ASSUME NEW e \in Drivers, driver'[e].pc = "send"
        PROVE  /\ ~driver'[e].message => bubble[driver'[e].turn].count = 0
               /\ bubble[driver'[e].turn].revision <= driver'[e].revision
               /\ bubble[driver'[e].turn].completed => driver'[e].completed
    <3>1. CASE e = d
      BY <3>1, <1>0, <1>2, Zenon DEF HolderSends, GoesOn
    <3>2. CASE e # d
      BY <3>2, <1>3, <2>1, Zenon DEF Requests, RequestIsNew
    <3> QED
      BY <3>1, <3>2
  <2>2. UNCHANGED bubble
    BY DEF GoesOn
  <2> QED
    BY <2>1, <2>2, Zenon DEF RequestIsNew
<1>5. OneRequest'
  <2>1. driver'[d].turn = progress.turn
    BY DEF GoesOn
  <2>2. ASSUME NEW e \in Drivers, driver'[e].pc \in {"send", "sent"}, driver'[e].turn = progress.turn PROVE e = d
    BY <1>1, <1>3, <2>2, Zenon
  <2>3. ASSUME NEW e \in Drivers, NEW f \in Drivers, driver'[e].pc \in {"send", "sent"}, driver'[f].pc \in {"send", "sent"},
               driver'[e].turn = driver'[f].turn
        PROVE  e = f
    <3>1. CASE e = d \/ f = d
      BY <3>1, <2>1, <2>2, <2>3, Zenon
    <3>2. CASE e # d /\ f # d
      BY <3>2, <1>3, <2>3, Zenon DEF Requests, OneRequest
    <3> QED
      BY <3>1, <3>2
  <2> QED
    BY <2>3, Zenon DEF OneRequest
<1>6. OneBubble'
  BY Zenon DEF Requests, OneBubble, GoesOn
<1> QED
  BY <1>4, <1>5, <1>6, Zenon DEF Requests

\* The request that is answered was the only one, so what it shows is new.
LEMMA AnswerRequest ==
    ASSUME Typed, OnlyHeard, Requests, NEW d \in Drivers, Sends(d), driver[d].turn \in Turns
    PROVE  Requests'
<1>1. ASSUME NEW e \in Drivers, e # d PROVE driver'[e] = driver[e]
  BY <1>1, Zenon DEF Sends, OnlyDriver
<1>2. ASSUME NEW e \in Drivers PROVE driver'[e].turn = driver[e].turn
  BY <1>1, Zenon DEF Sends
<1>3. ASSUME NEW e \in Drivers, driver'[e].pc \in {"send", "sent"} PROVE driver[e].pc \in {"send", "sent"}
  BY <1>1, <1>3, Zenon DEF Sends
<1>4. OneRequest'
  BY <1>2, <1>3, Zenon DEF Requests, OneRequest
<1>5. OneBubble'
  <2>1. ASSUME NEW t \in Turns PROVE bubble'[t].count <= 1
    <3>1. CASE t # driver[d].turn
      BY <3>1, Zenon DEF Sends, Requests, OneBubble
    <3>2. CASE t = driver[d].turn
      <4>1. bubble[t].count \in Nat /\ bubble[t].count <= 1 /\ (~driver[d].message => bubble[t].count = 0)
        BY <3>2, FieldTypes, Zenon DEF Sends, Requests, RequestIsNew, OneBubble
      <4>2. bubble'[t].count = bubble[t].count + IF driver[d].message THEN 0 ELSE 1
        BY <3>2, Zenon DEF Sends
      <4>3. CASE driver[d].message
        BY <4>1, <4>2, <4>3, SMT
      <4>4. CASE ~driver[d].message
        BY <4>1, <4>2, <4>4, SMT
      <4> QED
        BY <4>3, <4>4
    <3> QED
      BY <3>1, <3>2
  <2> QED
    BY <2>1, Zenon DEF OneBubble
<1>6. RequestIsNew'
  <2>1. ASSUME NEW e \in Drivers, driver'[e].pc = "send"
        PROVE  e # d /\ driver[e].turn # driver[d].turn /\ driver'[e] = driver[e]
    <3>1. e # d
      BY <2>1, Zenon DEF Sends
    <3> QED
      BY <3>1, <1>1, <2>1, Zenon DEF Sends, Requests, OneRequest
  <2>2. ASSUME NEW e \in Drivers, driver'[e].pc = "send"
        PROVE  bubble'[driver[e].turn] = bubble[driver[e].turn] /\ driver[e].pc = "send"
    <3>1. driver[e].pc = "send"
      BY <2>1, <2>2, Zenon
    <3>2. driver[e].turn \in Turns
      BY <3>1, Zenon DEF OnlyHeard
    <3>3. driver[e].turn \in Turns \ {driver[d].turn}
      BY <2>1, <2>2, <3>2, Zenon
    <3> QED
      BY <3>1, <3>3, Zenon DEF Sends
  <2>3. ASSUME NEW e \in Drivers, driver'[e].pc = "send"
        PROVE  /\ driver[e].pc = "send" /\ driver'[e] = driver[e]
               /\ bubble'[driver'[e].turn] = bubble[driver[e].turn]
    BY <2>1, <2>2, <2>3
  <2>4. RequestIsNew
    BY Zenon DEF Requests
  <2> QED
    BY <2>3, <2>4, Zenon DEF RequestIsNew
<1> QED
  BY <1>4, <1>5, <1>6, Zenon DEF Requests

\* What is shown only moves forward.
Forward == \A t \in Turns : /\ bubble[t].revision <= bubble'[t].revision
                            /\ bubble[t].completed => bubble'[t].completed

LEMMA ForwardSame == Typed /\ UNCHANGED bubble => Forward
<1> SUFFICES ASSUME Typed, UNCHANGED bubble, NEW t \in Turns
             PROVE  bubble[t].revision <= bubble'[t].revision /\ (bubble[t].completed => bubble'[t].completed)
  BY Zenon DEF Forward
<1>1. bubble[t].revision \in Nat
  BY FieldTypes
<1>2. bubble[t].revision <= bubble[t].revision
  BY <1>1, SMT
<1> QED
  BY <1>2, Zenon

LEMMA ForwardSends ==
    ASSUME Typed, Requests, NEW d \in Drivers, Sends(d)
    PROVE  Forward
<1> SUFFICES ASSUME NEW t \in Turns
             PROVE  bubble[t].revision <= bubble'[t].revision /\ (bubble[t].completed => bubble'[t].completed)
  BY Zenon DEF Forward
<1>1. CASE t = driver[d].turn
  BY <1>1, Zenon DEF Sends, Requests, RequestIsNew
<1>2. CASE t # driver[d].turn
  <2>1. bubble[t].revision \in Nat
    BY FieldTypes
  <2>2. bubble[t].revision <= bubble[t].revision
    BY <2>1, SMT
  <2> QED
    BY <1>2, <2>2, Zenon DEF Sends
<1> QED
  BY <1>1, <1>2

-----------------------------------------------------------------------------
(* Only turns that were heard of *)

\* A driver keeps its turn, or takes that of the bubble.
DriverFrom(e) == \/ driver'[e].pc = "idle"
                 \/ driver[e].pc # "idle" /\ driver'[e].turn = driver[e].turn
                 \/ progress.turn # 0 /\ driver'[e].turn = progress.turn

LEMMA HeardKept ==
    ASSUME Typed, OnlyHeard, UNCHANGED bubble,
           \A t \in 0..MaxTurns : Heard(t) => Heard(t)',
           progress'.turn = 0 \/ progress'.turn = progress.turn \/ Heard(progress.turn)',
           \A e \in Drivers : DriverFrom(e)
    PROVE  OnlyHeard'
<1>0. progress.turn \in 0..MaxTurns /\ Turns \subseteq 0..MaxTurns
  BY SMT DEF Typed, PInv, ProgressType, Turns
<1>1. progress'.turn # 0 => Heard(progress.turn)'
  BY <1>0, Zenon DEF OnlyHeard, Heard
<1>2. ASSUME NEW e \in Drivers, driver'[e].pc # "idle" PROVE driver'[e].turn \in Turns /\ Heard(driver[e].turn)'
  <2>1. driver'[e].turn \in Turns /\ Heard(driver'[e].turn)
    <3>1. CASE driver[e].pc # "idle" /\ driver'[e].turn = driver[e].turn
      BY <3>1, Zenon DEF OnlyHeard
    <3>2. CASE progress.turn # 0 /\ driver'[e].turn = progress.turn
      BY <3>2, FieldTypes, Zenon DEF OnlyHeard
    <3> QED
      BY <1>2, <3>1, <3>2, Zenon DEF DriverFrom
  <2>2. ASSUME NEW t \in Turns, Heard(t), t = driver'[e].turn PROVE Heard(driver[e].turn)'
    BY <1>0, <2>2, Zenon DEF Heard
  <2> QED
    BY <2>1, <2>2
<1>3. ASSUME NEW t \in Turns, bubble'[t] # NoBubble PROVE Heard(t)'
  BY <1>0, <1>3, Zenon DEF OnlyHeard
<1> QED
  BY <1>1, <1>2, <1>3, Zenon DEF OnlyHeard

LEMMA SameHeard == UNCHANGED heard => \A t \in 0..MaxTurns : Heard(t) => Heard(t)'
BY Zenon DEF Heard

LEMMA RouterHears == Typed /\ (HearStarted \/ HearTerminal) => \A t \in 0..MaxTurns : Heard(t) => Heard(t)'
<1> SUFFICES ASSUME Typed, HearStarted \/ HearTerminal, NEW t \in 0..MaxTurns, Heard(t) PROVE Heard(t)'
  OBVIOUS
<1>1. CASE HearStarted
  <2>1. heard'.turn = heard.turn /\ heard'.started = TRUE
    BY <1>1, SMT DEF HearStarted, Typed, HeardType
  <2> QED
    BY <2>1, Zenon DEF Heard
<1>2. CASE HearTerminal
  <2>1. heard'.turn = heard.turn + 1 /\ heard.turn \in Nat
    BY <1>2, SMT DEF HearTerminal, Typed, HeardType
  <2>2. t <= heard.turn
    BY <2>1, SMT DEF Heard
  <2>3. t < heard'.turn
    BY <2>1, <2>2, SMT
  <2> QED
    BY <2>3, Zenon DEF Heard
<1> QED
  BY <1>1, <1>2

-----------------------------------------------------------------------------
(* The claim of a delivery *)

LEMMA ClaimIsSerial ==
    ASSUME Typed, Typed', Serial, Requests, NEW d \in Drivers, Live, driver[d].pc \in {"idle", "sleep"},
           UNCHANGED <<current, bubble>>,
           driver' = [driver EXCEPT ![d] = Snapshot(progress)], progress' = Claimed(progress),
           \A e \in Drivers \ {d} : ~(Holds(e) /\ driver[e].turn = progress.turn)
    PROVE  Serial' /\ Requests' /\ progress'.turn = progress.turn /\ \A e \in Drivers : DriverFrom(e)
<1>0. PInv(progress) /\ driver'[d] = Snapshot(progress) /\ OnlyDriver(d)
  <2>1. PInv(progress) /\ driver \in [Drivers -> DriverType]
    BY Zenon DEF Typed
  <2>2. driver'[d] = Snapshot(progress)
    BY <2>1, Zenon
  <2>3. ASSUME NEW e \in Drivers, e # d PROVE driver'[e] = driver[e]
    BY <2>1, <2>3, Zenon
  <2> QED
    BY <2>1, <2>2, <2>3, Zenon DEF OnlyDriver
<1>1. /\ driver'[d].pc = "check" /\ driver'[d].turn = progress.turn
      /\ driver'[d].revision = progress.revision /\ driver'[d].message = progress.message
      /\ driver'[d].completed = progress.completed
  BY <1>0, SnapshotFields, SMT
<1>2. /\ progress'.turn = progress.turn /\ progress'.message = progress.message
      /\ progress'.completed = progress.completed /\ progress'.cleanup = progress.cleanup
      /\ progress'.revision = progress.revision /\ progress'.in_flight = progress.revision
      /\ progress'.sending = TRUE
  BY <1>0, ClaimedFields, Zenon
<1>3. ~progress.message => bubble[progress.turn].count = 0
  <2>1. ShownIsKnown
    BY Zenon DEF Serial, LiveIsSerial
  <2>2. ASSUME NEW e \in Drivers, driver[e].pc = "sent", driver[e].turn = progress.turn PROVE FALSE
    BY <2>2, Zenon DEF Holds
  <2> QED
    BY <2>1, <2>2, Zenon DEF ShownIsKnown
<1>4. ClaimsFor(d)
  BY <1>0, <1>1, <1>2, <1>3, Zenon DEF ClaimsFor
<1>5. Serial'
  BY <1>4, ClaimStep
<1>6. Requests'
  BY <1>0, <1>1, NoNewRequest, Zenon
<1>7. \A e \in Drivers : DriverFrom(e)
  BY <1>0, <1>1, Zenon DEF DriverFrom, OnlyDriver, Live
<1> QED
  BY <1>2, <1>5, <1>6, <1>7

LEMMA DeliverIsSerial ==
    ASSUME Typed, Typed', Serial, Requests, NEW t, t # 0, Deliver(t), UNCHANGED <<current, bubble>>
    PROVE  Serial' /\ Requests' /\ progress'.turn = progress.turn /\ \A e \in Drivers : DriverFrom(e)
<1>1. CASE Claims(t)
  <2>1. PICK d \in Drivers : /\ driver[d].pc = "idle"
                             /\ driver' = [driver EXCEPT ![d] = Snapshot(progress)]
                             /\ progress' = Claimed(progress)
    BY <1>1, Zenon DEF Deliver
  <2>2. Live /\ ~progress.sending
    BY <1>1, Zenon DEF Claims, Live
  <2>3. ASSUME NEW e \in Drivers PROVE ~(Holds(e) /\ driver[e].turn = progress.turn)
    BY <2>2, Zenon DEF Serial, LiveIsSerial, HolderSends
  <2> QED
    BY <2>1, <2>2, <2>3, ClaimIsSerial, Zenon
<1>2. CASE ~Claims(t)
  <2>1. UNCHANGED <<driver, progress>>
    BY <1>2, Zenon DEF Deliver
  <2>2. Grows(progress, progress')
    BY <2>1, GrowsSame, Zenon DEF Typed
  <2>3. Serial'
    BY <2>1, <2>2, GrowStep, Zenon
  <2> QED
    BY <2>1, <2>3, RequestsKept, Zenon DEF DriverFrom
<1> QED
  BY <1>1, <1>2

-----------------------------------------------------------------------------
(* The steps of the app-server, the router and the closer *)

All == Typed /\ InOrder /\ OnlyHeard /\ Serial /\ Requests

LEMMA MarkStarted ==
    ASSUME Typed', OnlyHeard, NEW t \in Turns, ~Heard(t), MarkTurnStarted(t), UNCHANGED <<driver, bubble>>
    PROVE  Serial' /\ progress'.turn = 0
<1>1. t # 0
  BY SMT DEF Turns
<1>2. progress.turn # t
  BY <1>1, Zenon DEF OnlyHeard
<1>3. progress' = NoProgress /\ current' = t
  BY <1>2, Zenon DEF MarkTurnStarted
<1>4. Unshown(t)
  BY Zenon DEF OnlyHeard, Unshown
<1>5. Unshown(current)'
  BY <1>3, <1>4, Zenon DEF Unshown
<1> QED
  BY <1>3, <1>5, DropStep, NoProgressFields, Zenon

LEMMA MarkCompleted ==
    ASSUME Typed, Typed', Serial, NEW t, MarkTurnCompleted(t), UNCHANGED <<driver, bubble>>
    PROVE  Serial' /\ (progress'.turn = 0 \/ progress'.turn = progress.turn)
<1>0. PInv(progress)
  BY Zenon DEF Typed
<1>1. CASE current = t /\ progress.completed /\ progress.sending
  <2>1. current' = 0 /\ progress' = [progress EXCEPT !.cleanup = TRUE]
    BY <1>1, Zenon DEF MarkTurnCompleted
  <2> QED
    BY <1>0, <1>1, <2>1, CleanupStep, CleanupFields
<1>2. CASE current = t /\ ~(progress.completed /\ progress.sending)
  <2>1. current' = 0 /\ progress' = NoProgress
    BY <1>2, Zenon DEF MarkTurnCompleted
  <2> QED
    BY <2>1, DropStep, NoProgressFields, Zenon
<1>3. CASE current # t
  <2>1. UNCHANGED <<current, progress>>
    BY <1>3, Zenon DEF MarkTurnCompleted
  <2>2. Grows(progress, progress')
    BY <1>0, <2>1, GrowsSame, Zenon
  <2> QED
    BY <2>1, <2>2, GrowStep, Zenon
<1> QED
  BY <1>1, <1>2, <1>3

LEMMA SameDrivers == UNCHANGED driver => \A e \in Drivers : DriverFrom(e)
BY Zenon DEF DriverFrom

LEMMA SerialServer == All /\ Typed' /\ (StartTurn \/ EndTurn) => Serial' /\ Requests' /\ OnlyHeard'
<1> SUFFICES ASSUME All, Typed', StartTurn \/ EndTurn PROVE Serial' /\ Requests' /\ OnlyHeard'
  OBVIOUS
<1>0. UNCHANGED <<driver, bubble, heard>>
  BY Zenon DEF StartTurn, EndTurn
<1>1. Requests' /\ \A e \in Drivers : DriverFrom(e)
  BY <1>0, RequestsKept, SameDrivers, Zenon DEF All
<1>2. Serial' /\ (progress'.turn = 0 \/ progress'.turn = progress.turn)
  <2>1. CASE StartTurn
    <3>1. PICK t : t = server.turn + 1
      OBVIOUS
    <3>2. t \in Turns
      BY <2>1, <3>1, SMT DEF StartTurn, All, Typed, ServerType, Turns
    <3>3. ~Heard(t)
      <4>1. server.turn \in Nat /\ heard.turn \in Nat
        BY SMT DEF All, Typed, ServerType, HeardType
      <4>2. heard.turn <= server.turn + 1 /\ (heard.started => heard.turn <= server.turn)
        BY Zenon DEF All, InOrder
      <4>3. ~(t < heard.turn)
        BY <3>1, <4>1, <4>2, SMT
      <4>4. heard.started => t # heard.turn
        BY <3>1, <4>1, <4>2, SMT
      <4> QED
        BY <4>3, <4>4, Zenon DEF Heard
    <3>4. MarkTurnStarted(t)
      BY <2>1, <3>1, Zenon DEF StartTurn
    <3> QED
      BY <1>0, <3>2, <3>3, <3>4, MarkStarted, Zenon DEF All
  <2>2. CASE EndTurn
    <3>1. UNCHANGED <<current, progress>>
      BY <2>2, Zenon DEF EndTurn
    <3>2. Grows(progress, progress')
      BY <3>1, GrowsSame, Zenon DEF All, Typed
    <3> QED
      BY <1>0, <3>1, <3>2, GrowStep, Zenon DEF All
  <2> QED
    BY <2>1, <2>2
<1>3. OnlyHeard'
  BY <1>0, <1>1, <1>2, SameHeard, HeardKept, Zenon DEF All
<1> QED
  BY <1>1, <1>2, <1>3

\* A step that only lets the bubble grow
LEMMA GrowIsSerial ==
    ASSUME All, Typed', UNCHANGED <<current, driver, bubble, heard>>, Grows(progress, progress')
    PROVE  Serial' /\ Requests' /\ OnlyHeard'
<1>1. Serial' /\ Requests'
  BY GrowStep, RequestsKept, Zenon DEF All
<1>2. OnlyHeard'
  BY SameDrivers, SameHeard, HeardKept, Zenon DEF All, Grows
<1> QED
  BY <1>1, <1>2

LEMMA DeliverAll ==
    ASSUME All, Typed', NEW t, t # 0, Deliver(t), UNCHANGED <<current, bubble, heard>>
    PROVE  Serial' /\ Requests' /\ OnlyHeard'
<1>1. Serial' /\ Requests' /\ progress'.turn = progress.turn /\ \A e \in Drivers : DriverFrom(e)
  BY DeliverIsSerial, Zenon DEF All
<1>2. OnlyHeard'
  BY <1>1, SameHeard, HeardKept, Zenon DEF All
<1> QED
  BY <1>1, <1>2

LEMMA MarkAll ==
    ASSUME All, Typed', NEW t, MarkTurnCompleted(t), UNCHANGED <<driver, bubble, heard>>
    PROVE  Serial' /\ Requests' /\ OnlyHeard'
<1>1. Serial' /\ (progress'.turn = 0 \/ progress'.turn = progress.turn)
  BY MarkCompleted, Zenon DEF All
<1>2. OnlyHeard'
  BY <1>1, SameDrivers, SameHeard, HeardKept, Zenon DEF All
<1> QED
  BY <1>1, <1>2, RequestsKept, Zenon DEF All

LEMMA SerialCloser == All /\ Typed' /\ (Close \/ CloserStep) => Serial' /\ Requests' /\ OnlyHeard'
<1> SUFFICES ASSUME All, Typed', Close \/ CloserStep PROVE Serial' /\ Requests' /\ OnlyHeard'
  OBVIOUS
<1>0. PInv(progress)
  BY Zenon DEF All, Typed
<1>1. CASE Close
  <2>1. UNCHANGED <<current, progress, driver, bubble, heard>>
    BY <1>1, Zenon DEF Close
  <2>2. Grows(progress, progress')
    BY <1>0, <2>1, GrowsSame, Zenon
  <2> QED
    BY <2>1, <2>2, GrowIsSerial, Zenon
<1>2. CASE CloserFinish
  <2>1. UNCHANGED <<current, driver, bubble, heard>>
    BY <1>2, Zenon DEF CloserFinish
  <2>2. Grows(progress, progress')
    BY <1>0, <1>2, GrowsFinished, Zenon DEF CloserFinish, Finish
  <2> QED
    BY <2>1, <2>2, GrowIsSerial, Zenon
<1>3. CASE CloserDeliver
  <2>1. closer.turn # 0
    BY <1>3, Zenon DEF CloserDeliver, All, InOrder
  <2> QED
    BY <1>3, <2>1, DeliverAll, Zenon DEF CloserDeliver
<1>4. CASE CloserMark
  BY <1>4, MarkAll, Zenon DEF CloserMark
<1>5. CASE CloserUnbind
  <2>1. current' = 0 /\ progress' = NoProgress /\ UNCHANGED <<driver, bubble, heard>>
    BY <1>5, Zenon DEF CloserUnbind
  <2>2. Serial' /\ progress'.turn = 0
    BY <2>1, DropStep, NoProgressFields, Zenon
  <2>3. OnlyHeard'
    BY <2>1, <2>2, SameDrivers, SameHeard, HeardKept, Zenon DEF All
  <2> QED
    BY <2>1, <2>2, <2>3, RequestsKept, Zenon DEF All
<1> QED
  BY <1>1, <1>2, <1>3, <1>4, <1>5, Zenon DEF CloserStep

LEMMA SerialRouter == All /\ Typed' /\ (HearItem \/ RouterStep) => Serial' /\ Requests' /\ OnlyHeard'
<1> SUFFICES ASSUME All, Typed', HearItem \/ RouterStep PROVE Serial' /\ Requests' /\ OnlyHeard'
  OBVIOUS
<1>0. PInv(progress)
  BY Zenon DEF All, Typed
<1>1. CASE HearStarted
  <2>0. UNCHANGED <<driver, bubble>>
    BY <1>1, Zenon DEF HearStarted
  <2>1. PICK t : t = heard.turn
    OBVIOUS
  <2>2. t \in Turns /\ ~Heard(t)
    <3>1. t \in Turns
      BY <1>1, <2>1, SMT DEF HearStarted, Listening, All, Typed, ServerType, HeardType, Turns
    <3>2. ~(t < heard.turn)
      BY <2>1, SMT DEF All, Typed, HeardType
    <3> QED
      BY <1>1, <2>1, <3>1, <3>2, Zenon DEF Heard, HearStarted
  <2>3. MarkTurnStarted(t)
    BY <1>1, <2>1, Zenon DEF HearStarted
  <2>4. Serial' /\ progress'.turn = 0
    BY <2>0, <2>2, <2>3, MarkStarted, Zenon DEF All
  <2>5. \A s \in 0..MaxTurns : Heard(s) => Heard(s)'
    BY <1>1, RouterHears, Zenon DEF All
  <2>6. OnlyHeard'
    BY <2>0, <2>4, <2>5, SameDrivers, HeardKept, Zenon DEF All
  <2> QED
    BY <2>0, <2>4, <2>6, RequestsKept, Zenon DEF All
<1>2. CASE HearTerminal
  <2>1. UNCHANGED <<current, progress, driver, bubble>>
    BY <1>2, Zenon DEF HearTerminal
  <2>2. Grows(progress, progress')
    BY <1>0, <2>1, GrowsSame, Zenon
  <2>3. Serial' /\ Requests'
    BY <2>1, <2>2, GrowStep, RequestsKept, Zenon DEF All
  <2>4. \A t \in 0..MaxTurns : Heard(t) => Heard(t)'
    BY <1>2, RouterHears, Zenon DEF All
  <2>5. OnlyHeard'
    BY <2>1, <2>4, SameDrivers, HeardKept, Zenon DEF All
  <2> QED
    BY <2>3, <2>5
<1>3. CASE HearItem
  <2>1. UNCHANGED <<current, progress, driver, bubble, heard>>
    BY <1>3, Zenon DEF HearItem
  <2>2. Grows(progress, progress')
    BY <1>0, <2>1, GrowsSame, Zenon
  <2> QED
    BY <2>1, <2>2, GrowIsSerial, Zenon
<1>4. CASE UpsertItem
  <2>0. UNCHANGED <<current, driver, bubble, heard>>
    BY <1>4, Zenon DEF UpsertItem
  <2>1. PICK t : t = router.turn
    OBVIOUS
  <2>2. t = heard.turn /\ heard.started /\ t \in 0..MaxTurns /\ t # 0
    <3>1. router.pc = "item"
      BY <1>4, Zenon DEF UpsertItem
    <3>2. router.turn = heard.turn /\ heard.started
      BY <3>1, Zenon DEF All, InOrder
    <3>3. heard.turn # 0
      BY SMT DEF All, Typed, HeardType
    <3>4. router.turn \in 0..MaxTurns
      BY Zenon DEF All, Typed, RouterType
    <3> QED
      BY <2>1, <3>2, <3>3, <3>4
  <2>3. progress' = progress \/ progress' = Of(t) \/ progress' = Bump(Of(t))
    BY <1>4, <2>1, Zenon DEF UpsertItem
  <2>4. CASE progress' = progress \/ progress.turn = t
    <3>1. progress' = progress \/ progress' = Bump(progress)
      BY <2>3, <2>4, Zenon DEF Of
    <3>2. Grows(progress, progress')
      BY <1>0, <3>1, GrowsSame, GrowsBump, Zenon
    <3> QED
      BY <2>0, <3>2, GrowIsSerial, Zenon
  <2>5. CASE progress.turn # t /\ progress' # progress
    <3>1. progress' = NewProgress(t) \/ progress' = Bump(NewProgress(t))
      BY <2>3, <2>5, Zenon DEF Of
    <3>2. Grows(NewProgress(t), progress')
      BY <2>2, <3>1, NewProgressType, GrowsSame, GrowsBump, Zenon
    <3>3. current = 0 \/ progress.turn # current
      <4> SUFFICES ASSUME current # 0, progress.turn = current PROVE FALSE
        OBVIOUS
      <4>1. current >= heard.turn /\ Heard(current)
        BY <2>2, Zenon DEF All, InOrder, OnlyHeard
      <4>2. current \in Nat /\ heard.turn \in Nat
        BY SMT DEF All, Typed, HeardType
      <4>3. ~(current < heard.turn)
        BY <4>1, <4>2, SMT
      <4> QED
        BY <2>2, <2>5, <4>1, <4>3, Zenon DEF Heard
    <3>4. current = 0 \/ Unshown(current)
      BY <3>3, Zenon DEF All, Serial, NotYetShown, Unshown
    <3>5. current' = 0 \/ Unshown(current)'
      BY <2>0, <3>4, Zenon DEF Unshown
    <3>6. Serial'
      BY <3>2, <3>5, NewStep
    <3>7. Heard(progress.turn)'
      <4>1. progress'.turn = t
        BY <3>2, NewProgressFields, Zenon DEF Grows
      <4> QED
        BY <2>0, <2>2, <4>1, Zenon DEF Heard
    <3>8. OnlyHeard'
      BY <2>0, <3>7, SameDrivers, SameHeard, HeardKept, Zenon DEF All
    <3> QED
      BY <2>0, <3>6, <3>8, RequestsKept, Zenon DEF All
  <2> QED
    BY <2>4, <2>5
<1>5. CASE DeliverItem
  <2>1. router.turn # 0
    <3>1. router.turn = heard.turn
      BY <1>5, Zenon DEF DeliverItem, All, InOrder
    <3> QED
      BY <3>1, SMT DEF All, Typed, HeardType
  <2> QED
    BY <1>5, <2>1, DeliverAll, Zenon DEF DeliverItem
<1>6. CASE EmbedReply
  <2>1. UNCHANGED <<current, driver, bubble, heard>>
    BY <1>6, Zenon DEF EmbedReply
  <2>2. Grows(progress, progress')
    <3>1. Grows(progress, [Bump(progress) EXCEPT !.reply = TRUE]) /\ Grows(progress, progress)
      BY <1>0, GrowsReply, GrowsSame
    <3> QED
      BY <1>6, <3>1, Zenon DEF EmbedReply
  <2> QED
    BY <2>1, <2>2, GrowIsSerial, Zenon
<1>7. CASE RouterFinish
  <2>1. UNCHANGED <<current, driver, bubble, heard>>
    BY <1>7, Zenon DEF RouterFinish
  <2>2. Grows(progress, progress')
    <3>1. PICK failed \in BOOLEAN : progress' = Finished(router.turn, failed)
      BY <1>7, Zenon DEF RouterFinish, Finish
    <3> QED
      BY <1>0, <3>1, GrowsFinished, Zenon
  <2> QED
    BY <2>1, <2>2, GrowIsSerial, Zenon
<1>8. CASE RouterDeliver
  <2>1. router.turn # 0
    <3>1. router.turn >= 1
      BY <1>8, Zenon DEF RouterDeliver, All, InOrder
    <3> QED
      BY <3>1, SMT
  <2> QED
    BY <1>8, <2>1, DeliverAll, Zenon DEF RouterDeliver
<1>9. CASE RouterPromote
  <2>1. UNCHANGED <<current, driver, bubble, heard>>
    BY <1>9, Zenon DEF RouterPromote
  <2>2. Grows(progress, progress')
    BY <1>0, <1>9, GrowsBump, GrowsSame, Zenon DEF RouterPromote
  <2> QED
    BY <2>1, <2>2, GrowIsSerial, Zenon
<1>10. CASE RouterMark
  BY <1>10, MarkAll, Zenon DEF RouterMark
<1> QED
  BY <1>1, <1>2, <1>3, <1>4, <1>5, <1>6, <1>7, <1>8, <1>9, <1>10, Zenon DEF RouterStep

-----------------------------------------------------------------------------
(* The steps of a driver *)

LEMMA DriverFields ==
    ASSUME NEW s, s \in DriverType, NEW pc, NEW r, r = [s EXCEPT !.pc = pc]
    PROVE  /\ r.pc = pc /\ r.turn = s.turn /\ r.revision = s.revision /\ r.message = s.message
           /\ r.completed = s.completed
BY Zenon DEF DriverType

Asleep(r, b) == [r EXCEPT !.pc = "sleep", !.retained = b]

LEMMA SleepFields ==
    ASSUME NEW r, r \in DriverType, NEW b
    PROVE  Asleep(r, b).pc = "sleep" /\ Asleep(r, b).turn = r.turn /\ Asleep(r, b).retained = b
BY Zenon DEF DriverType, Asleep

\* A driver that has the delivery of a live bubble finds it its own.
LEMMA HolderIsMine ==
    ASSUME Serial, Live, NEW d \in Drivers, driver[d].turn = progress.turn,
           driver[d].pc \in {"check", "send", "sent", "refused"}
    PROVE  Mine(d)
<1>1. HolderSends(d) /\ Holds(d) /\ driver[d].pc # "sleep"
  BY Zenon DEF Serial, LiveIsSerial, Holds
<1> QED
  BY <1>1, Zenon DEF HolderSends, Mine

LEMMA MineIsLive == ASSUME Serial, NEW d \in Drivers, Mine(d) PROVE Live
BY Zenon DEF Serial, DeadIsQuiet, Mine

LEMMA LeaveAll ==
    ASSUME All, NEW d \in Drivers, LeavesAlone(d), UNCHANGED heard
    PROVE  Serial' /\ Requests' /\ OnlyHeard'
<1>1. Serial'
  BY LeaveStep, Zenon DEF All
<1>2. Requests'
  <2>1. driver'[d].pc \notin {"send", "sent"} /\ OnlyDriver(d) /\ UNCHANGED bubble
    BY Zenon DEF LeavesAlone
  <2> QED
    BY <2>1, NoNewRequest, Zenon DEF All
<1>3. \A e \in Drivers : DriverFrom(e)
  BY Zenon DEF LeavesAlone, OnlyDriver, DriverFrom
<1>4. progress' = progress /\ UNCHANGED bubble
  BY DEF LeavesAlone
<1>5. OnlyHeard'
  BY <1>3, <1>4, SameHeard, HeardKept, Zenon DEF All
<1> QED
  BY <1>1, <1>2, <1>5

LEMMA OnlyDriverChanges ==
    ASSUME Typed, NEW d \in Drivers, NEW r, driver' = [driver EXCEPT ![d] = r]
    PROVE  OnlyDriver(d) /\ driver'[d] = r
<1>1. driver \in [Drivers -> DriverType]
  BY Zenon DEF Typed
<1>2. ASSUME NEW e \in Drivers, e # d PROVE driver'[e] = driver[e]
  BY <1>1, <1>2, Zenon
<1> QED
  BY <1>1, <1>2, Zenon DEF OnlyDriver

LEMMA SerialChecks ==
    ASSUME All, NEW d \in Drivers, DriverChecks(d)
    PROVE  Serial' /\ Requests' /\ OnlyHeard'
<1>0. driver[d] \in DriverType /\ Typed /\ Serial /\ driver[d].pc = "check"
  BY Zenon DEF All, Typed, DriverChecks
<1>1. UNCHANGED <<current, progress, heard, bubble>>
  BY Zenon DEF DriverChecks
<1>2. CASE Mine(d) /\ (current = progress.turn \/ progress.cleanup)
  <2>1. PICK r : r = [driver[d] EXCEPT !.pc = "send"]
    OBVIOUS
  <2>2. driver' = [driver EXCEPT ![d] = r]
    BY <1>2, <2>1, Zenon DEF DriverChecks
  <2>3. OnlyDriver(d) /\ driver'[d] = r
    BY <1>0, <2>2, OnlyDriverChanges, Zenon
  <2>f. /\ r.pc = "send" /\ r.turn = driver[d].turn /\ r.revision = driver[d].revision
        /\ r.message = driver[d].message /\ r.completed = driver[d].completed
    BY <1>0, <2>1, DriverFields, SMT
  <2>4. GoesOn(d)
    BY <1>0, <1>1, <2>f, <2>3, Zenon DEF GoesOn
  <2>5. Live /\ driver[d].turn = progress.turn
    BY <1>0, <1>2, MineIsLive, Zenon DEF Mine
  <2>6. Serial' /\ Requests'
    BY <1>0, <2>4, <2>5, GoOnStep, BeginRequest, Zenon DEF All
  <2>7. \A e \in Drivers : DriverFrom(e)
    BY <1>0, <2>4, Zenon DEF GoesOn, OnlyDriver, DriverFrom
  <2>8. OnlyHeard'
    BY <1>1, <2>7, SameHeard, HeardKept, Zenon DEF All
  <2> QED
    BY <2>6, <2>8
<1>3. CASE ~(Mine(d) /\ (current = progress.turn \/ progress.cleanup))
  <2>1. driver' = [driver EXCEPT ![d] = IdleDriver]
    BY <1>3, Zenon DEF DriverChecks
  <2>2. LeavesAlone(d)
    BY <1>0, <1>1, <2>1, OnlyDriverChanges, IdleFields, Zenon DEF LeavesAlone
  <2> QED
    BY <1>1, <2>2, LeaveAll, Zenon
<1> QED
  BY <1>2, <1>3

LEMMA DriverSendsSends ==
    ASSUME Typed, OnlyHeard, NEW d \in Drivers, DriverSends(d)
    PROVE  Sends(d) /\ driver[d].turn \in Turns /\ UNCHANGED heard
<1>0. driver[d] \in DriverType /\ driver[d].pc = "send" /\ UNCHANGED <<current, progress, heard>>
  BY Zenon DEF Typed, DriverSends
<1>1. driver[d].turn \in Turns
  BY <1>0, Zenon DEF OnlyHeard
<1>2. PICK r : r = [driver[d] EXCEPT !.pc = "sent"]
  OBVIOUS
<1>3. driver' = [driver EXCEPT ![d] = r]
  BY <1>2, Zenon DEF DriverSends
<1>4. OnlyDriver(d) /\ driver'[d] = r
  BY <1>3, OnlyDriverChanges, Zenon
<1>5. PICK b : b = [count |-> IF driver[d].message THEN bubble[driver[d].turn].count
                              ELSE bubble[driver[d].turn].count + 1,
                    revision |-> driver[d].revision, completed |-> driver[d].completed,
                    reply |-> driver[d].reply]
  OBVIOUS
<1>6. bubble' = [bubble EXCEPT ![driver[d].turn] = b]
  BY <1>5, Zenon DEF DriverSends
<1>7. bubble \in [Turns -> BubbleType]
  BY Zenon DEF Typed
<1>8. bubble'[driver[d].turn] = b /\ \A t \in Turns \ {driver[d].turn} : bubble'[t] = bubble[t]
  BY <1>1, <1>6, <1>7, Zenon
<1>9. bubble[driver[d].turn].count \in Nat
  BY <1>1, FieldTypes
<1>10. b.revision = driver[d].revision /\ b.completed = driver[d].completed
  BY <1>5, Zenon
<1>11. b.count = bubble[driver[d].turn].count + IF driver[d].message THEN 0 ELSE 1
  BY <1>5, <1>9, SMT
<1>12. /\ r.pc = "sent" /\ r.turn = driver[d].turn /\ r.revision = driver[d].revision
       /\ r.message = driver[d].message /\ r.completed = driver[d].completed
  BY <1>0, <1>2, DriverFields, SMT
<1> QED
  BY <1>0, <1>1, <1>4, <1>8, <1>10, <1>11, <1>12, Zenon DEF Sends

LEMMA SerialSends ==
    ASSUME All, NEW d \in Drivers, DriverSends(d)
    PROVE  Serial' /\ Requests' /\ OnlyHeard'
<1>1. Sends(d) /\ driver[d].turn \in Turns /\ UNCHANGED heard
  BY DriverSendsSends, Zenon DEF All
<1>2. Serial' /\ Requests'
  BY <1>1, SendStep, AnswerRequest, Zenon DEF All
<1>3. OnlyHeard'
  <2>0. driver[d].pc # "idle" /\ progress' = progress
    BY <1>1, Zenon DEF Sends
  <2>1. ASSUME NEW e \in Drivers PROVE driver'[e].turn = driver[e].turn /\ (driver'[e].pc # "idle" => driver[e].pc # "idle")
    BY <1>1, Zenon DEF Sends, OnlyDriver
  <2>2. ASSUME NEW t \in Turns, bubble'[t] # NoBubble PROVE Heard(t)
    <3>1. CASE t = driver[d].turn
      BY <3>1, <2>0, Zenon DEF All, OnlyHeard
    <3>2. CASE t # driver[d].turn
      BY <3>2, <1>1, <2>2, Zenon DEF All, OnlyHeard, Sends
    <3> QED
      BY <3>1, <3>2
  <2> QED
    BY <1>1, <2>0, <2>1, <2>2, Zenon DEF All, OnlyHeard, Heard
<1> QED
  BY <1>2, <1>3

LEMMA SerialRefused ==
    ASSUME All, NEW d \in Drivers, DriverRefused(d)
    PROVE  Serial' /\ Requests' /\ OnlyHeard'
<1>0. /\ driver[d] \in DriverType /\ Typed /\ Serial /\ driver[d].pc = "send"
      /\ UNCHANGED <<current, progress, heard, bubble>>
  BY Zenon DEF All, Typed, DriverRefused
<1>1. PICK r : r = [driver[d] EXCEPT !.pc = "refused"]
  OBVIOUS
<1>2. driver' = [driver EXCEPT ![d] = r]
  BY <1>1, Zenon DEF DriverRefused
<1>3. OnlyDriver(d) /\ driver'[d] = r
  BY <1>0, <1>2, OnlyDriverChanges, Zenon
<1>f. /\ r.pc = "refused" /\ r.turn = driver[d].turn /\ r.revision = driver[d].revision
      /\ r.message = driver[d].message /\ r.completed = driver[d].completed
  BY <1>0, <1>1, DriverFields, SMT
<1>4. GoesOn(d)
  BY <1>0, <1>f, <1>3, Zenon DEF GoesOn
<1>5. Serial'
  BY <1>0, <1>4, GoOnStep, Zenon
<1>6. driver'[d].pc \notin {"send", "sent"}
  BY <1>0, <1>4, Zenon DEF GoesOn
<1>7. Requests'
  BY <1>0, <1>3, <1>6, NoNewRequest, Zenon DEF All
<1>8. \A e \in Drivers : DriverFrom(e)
  BY <1>0, <1>4, Zenon DEF GoesOn, OnlyDriver, DriverFrom
<1>9. OnlyHeard'
  BY <1>0, <1>8, SameHeard, HeardKept, Zenon DEF All
<1> QED
  BY <1>5, <1>7, <1>9

\* Fields of the state of a bubble when a delivery ends
LEMMA DeliveredFields ==
    ASSUME NEW p, PInv(p), NEW q, q = [p EXCEPT !.message = TRUE, !.in_flight = 0]
    PROVE  /\ PInv(q) /\ q.turn = p.turn /\ q.revision = p.revision /\ q.completed = p.completed
           /\ q.cleanup = p.cleanup /\ q.message = TRUE /\ q.in_flight = 0 /\ q.sending = p.sending
<1>1. PInv(q)
  BY DeliveredType, Zenon
<1> QED
  BY <1>1, SMT DEF PInv, ProgressType

LEMMA SettledFields ==
    ASSUME NEW p, PInv(p), NEW q, q = [p EXCEPT !.sending = FALSE]
    PROVE  /\ q.turn = p.turn /\ q.revision = p.revision /\ q.completed = p.completed
           /\ q.cleanup = p.cleanup /\ q.message = p.message /\ q.in_flight = p.in_flight /\ q.sending = FALSE
BY SMT DEF PInv, ProgressType

Failed(p, b) == [p EXCEPT !.in_flight = 0, !.dirty = TRUE, !.sending = b]

LEMMA FailedFields ==
    ASSUME NEW p, PInv(p), NEW b \in BOOLEAN
    PROVE  LET q == Failed(p, b) IN
           /\ q.turn = p.turn /\ q.revision = p.revision /\ q.completed = p.completed
           /\ q.cleanup = p.cleanup /\ q.message = p.message /\ q.in_flight = 0 /\ q.sending = b
BY SMT DEF PInv, ProgressType, Failed

LEMMA EndAll ==
    ASSUME All, NEW d \in Drivers, Ends(d), UNCHANGED heard, driver'[d].pc \notin {"send", "sent"},
           driver'[d].pc = "idle" \/ driver'[d].turn = driver[d].turn
    PROVE  Serial' /\ Requests' /\ OnlyHeard'
<1>1. Serial'
  BY EndStep, Zenon DEF All
<1>2. Requests'
  <2>1. OnlyDriver(d) /\ UNCHANGED bubble
    BY Zenon DEF Ends
  <2> QED
    BY <2>1, NoNewRequest, Zenon DEF All
<1>3. \A e \in Drivers : DriverFrom(e)
  <2>1. progress.turn # 0 /\ driver[d].turn = progress.turn
    BY Zenon DEF Ends, Live
  <2> QED
    BY <2>1, Zenon DEF Ends, OnlyDriver, DriverFrom
<1>4. progress'.turn = progress.turn /\ UNCHANGED bubble
  BY Zenon DEF Ends
<1>5. OnlyHeard'
  BY <1>3, <1>4, SameHeard, HeardKept, Zenon DEF All
<1> QED
  BY <1>1, <1>2, <1>5

LEMMA SerialCompletes ==
    ASSUME All, Typed', NEW d \in Drivers, DriverCompletes(d)
    PROVE  Serial' /\ Requests' /\ OnlyHeard'
<1>0. /\ Typed /\ Serial /\ PInv(progress) /\ driver[d].pc = "sent"
      /\ UNCHANGED <<current, heard, bubble>>
  BY Zenon DEF All, Typed, DriverCompletes
<1>p. PICK p : p = [progress EXCEPT !.message = TRUE, !.in_flight = 0]
  OBVIOUS
<1>q. /\ PInv(p) /\ p.turn = progress.turn /\ p.revision = progress.revision
      /\ p.completed = progress.completed /\ p.cleanup = progress.cleanup
      /\ p.message = TRUE /\ p.in_flight = 0 /\ p.sending = progress.sending
  BY <1>0, <1>p, DeliveredFields
<1>h. Holds(d)
  BY <1>0, Zenon DEF Holds
<1>1. CASE Mine(d) /\ progress.dirty
  <2>1. progress' = Claimed(p) /\ driver' = [driver EXCEPT ![d] = Snapshot(p)]
    <3>1. /\ progress' = Claimed([progress EXCEPT !.message = TRUE, !.in_flight = 0])
          /\ driver' = [driver EXCEPT ![d] = Snapshot([progress EXCEPT !.message = TRUE, !.in_flight = 0])]
      BY <1>1 DEF DriverCompletes
    <3> QED
      BY <1>p, <3>1
  <2>2. OnlyDriver(d) /\ driver'[d] = Snapshot(p)
    BY <1>0, <2>1, OnlyDriverChanges, Zenon
  <2>3. Live /\ driver[d].turn = progress.turn
    BY <1>0, <1>1, MineIsLive, Zenon DEF Mine
  <2>4. ASSUME NEW e \in Drivers \ {d} PROVE ~(Holds(e) /\ driver[e].turn = progress.turn)
    BY <1>0, <1>h, <2>3, <2>4, Zenon DEF Serial, LiveIsSerial, OneHolder
  <2>5. /\ driver'[d].pc = "check" /\ driver'[d].turn = p.turn /\ driver'[d].revision = p.revision
        /\ driver'[d].message = p.message /\ driver'[d].completed = p.completed
    <3>1. /\ Snapshot(p).pc = "check" /\ Snapshot(p).turn = p.turn /\ Snapshot(p).revision = p.revision
          /\ Snapshot(p).message = p.message /\ Snapshot(p).completed = p.completed
      BY <1>q, SnapshotFields
    <3> QED
      BY <2>2, <3>1
  <2>6. /\ progress'.turn = p.turn /\ progress'.message = p.message
        /\ progress'.completed = p.completed /\ progress'.cleanup = p.cleanup
        /\ progress'.revision = p.revision /\ progress'.in_flight = p.revision
        /\ progress'.sending = TRUE
    BY <1>q, <2>1, ClaimedFields, Zenon
  <2>7. ClaimsFor(d)
    BY <1>0, <1>q, <2>2, <2>3, <2>4, <2>5, <2>6, Zenon DEF ClaimsFor
  <2>8. Serial'
    BY <1>0, <2>7, ClaimStep
  <2>9. Requests'
    BY <1>0, <2>2, <2>5, NoNewRequest, Zenon DEF All
  <2>10. \A e \in Drivers : DriverFrom(e)
    BY <1>q, <2>2, <2>3, <2>5, Zenon DEF OnlyDriver, DriverFrom, Live
  <2>11. OnlyHeard'
    BY <1>0, <1>q, <2>6, <2>10, SameHeard, HeardKept, Zenon DEF All
  <2> QED
    BY <2>8, <2>9, <2>11
<1>2. CASE Mine(d) /\ ~progress.dirty
  <2>0. driver' = [driver EXCEPT ![d] = IdleDriver]
    BY <1>2, Zenon DEF DriverCompletes
  <2>1. OnlyDriver(d) /\ driver'[d] = IdleDriver
    BY <1>0, <2>0, OnlyDriverChanges, Zenon
  <2>2. driver'[d].pc = "idle"
    BY <2>1, IdleFields, Zenon
  <2>3. Live /\ driver[d].turn = progress.turn
    BY <1>0, <1>2, MineIsLive, Zenon DEF Mine
  <2>4. CASE p.completed /\ p.cleanup
    <3>1. progress' = NoProgress
      BY <1>2, <1>p, <2>4, Zenon DEF DriverCompletes
    <3>2. current' = 0
      BY <1>0, <1>q, <2>4, Zenon DEF Serial, DeadIsQuiet
    <3>3. Serial' /\ progress'.turn = 0
      BY <3>1, <3>2, DropStep, NoProgressFields, Zenon
    <3>4. Requests'
      BY <1>0, <2>1, <2>2, NoNewRequest, Zenon DEF All
    <3>5. \A e \in Drivers : DriverFrom(e)
      BY <2>1, <2>2, Zenon DEF OnlyDriver, DriverFrom
    <3>6. OnlyHeard'
      BY <1>0, <3>3, <3>5, SameHeard, HeardKept, Zenon DEF All
    <3> QED
      BY <3>3, <3>4, <3>6
  <2>5. CASE ~(p.completed /\ p.cleanup)
    <3>1. progress' = [p EXCEPT !.sending = FALSE]
      BY <1>2, <1>p, <2>5, Zenon DEF DriverCompletes
    <3>2. /\ progress'.turn = p.turn /\ progress'.completed = p.completed
          /\ progress'.cleanup = p.cleanup /\ progress'.revision = p.revision
          /\ progress'.in_flight = p.in_flight /\ progress'.message = p.message
      BY <1>q, <3>1, SettledFields
    <3>3. ~progress.cleanup
      BY <1>0, <1>q, <2>5, Zenon DEF Serial, DeadIsQuiet
    <3>4. ~Holds(d)'
      BY <2>2, Zenon DEF Holds
    <3>5. Ends(d)
      BY <1>0, <1>q, <1>h, <2>1, <2>3, <3>2, <3>3, <3>4, Zenon DEF Ends
    <3> QED
      BY <1>0, <2>2, <3>5, EndAll, Zenon
  <2> QED
    BY <2>4, <2>5
<1>3. CASE ~Mine(d)
  <2>1. driver' = [driver EXCEPT ![d] = IdleDriver] /\ UNCHANGED progress
    BY <1>3, Zenon DEF DriverCompletes
  <2>2. ~(Live /\ driver[d].turn = progress.turn)
    BY <1>0, <1>3, HolderIsMine, Zenon
  <2>3. LeavesAlone(d)
    BY <1>0, <2>1, <2>2, OnlyDriverChanges, IdleFields, Zenon DEF LeavesAlone
  <2> QED
    BY <1>0, <2>3, LeaveAll, Zenon
<1> QED
  BY <1>1, <1>2, <1>3

LEMMA SerialFails ==
    ASSUME All, Typed', NEW d \in Drivers, DriverFails(d)
    PROVE  Serial' /\ Requests' /\ OnlyHeard'
<1>0. /\ Typed /\ Serial /\ PInv(progress) /\ driver[d].pc = "refused" /\ driver[d] \in DriverType
      /\ UNCHANGED <<current, heard, bubble>>
  BY Zenon DEF All, Typed, DriverFails
<1>p. PICK b : b = (Mine(d) /\ progress.completed)
  OBVIOUS
<1>s. PICK r : r = Asleep(driver[d], b)
  OBVIOUS
<1>t. r.pc = "sleep" /\ r.turn = driver[d].turn /\ r.retained = b
  BY <1>0, <1>s, SleepFields, SMT
<1>u. driver' = [driver EXCEPT ![d] = r] \/ (~b /\ driver' = [driver EXCEPT ![d] = IdleDriver])
  <2>1. PICK limited \in BOOLEAN :
            driver' = [driver EXCEPT ![d] =
                IF (Mine(d) /\ progress.completed) \/ (~driver[d].completed /\ limited)
                THEN Asleep(driver[d], Mine(d) /\ progress.completed)
                ELSE IdleDriver]
    BY Zenon DEF DriverFails, Asleep
  <2> QED
    BY <1>p, <1>s, <2>1, Zenon
<1>v. OnlyDriver(d) /\ (driver'[d] = r \/ (~b /\ driver'[d] = IdleDriver))
  BY <1>0, <1>u, OnlyDriverChanges, Zenon
<1>w. /\ driver'[d].pc \in {"idle", "sleep"} /\ (driver'[d].pc = "sleep" => driver'[d].turn = driver[d].turn)
      /\ driver'[d].pc = "sleep" => driver'[d].retained = b
  BY <1>t, <1>v, IdleFields, Zenon
<1>1. CASE Mine(d)
  <2>1. PICK c : c = (progress.sending /\ progress.completed)
    OBVIOUS
  <2>2. progress' = Failed(progress, c)
    BY <1>1, <2>1, Zenon DEF DriverFails, Failed
  <2>3. c \in BOOLEAN
    BY <2>1, Zenon
  <2>4. /\ progress'.turn = progress.turn /\ progress'.revision = progress.revision
        /\ progress'.completed = progress.completed /\ progress'.cleanup = progress.cleanup
        /\ progress'.message = progress.message /\ progress'.in_flight = 0 /\ progress'.sending = c
    BY <1>0, <2>2, <2>3, FailedFields
  <2>5. Live /\ driver[d].turn = progress.turn /\ Holds(d) /\ progress.sending
    BY <1>0, <1>1, MineIsLive, Zenon DEF Mine, Holds
  <2>6. progress.cleanup => c
    BY <1>0, <2>1, <2>5, Zenon DEF Serial, DeadIsQuiet
  <2>7. Holds(d)' => c /\ driver'[d].pc = "sleep"
    BY <1>p, <1>w, <2>1, <2>5, Zenon DEF Holds
  <2>8. Ends(d)
    BY <1>0, <1>v, <2>4, <2>5, <2>6, <2>7, Zenon DEF Ends
  <2>9. driver'[d].pc \notin {"send", "sent"} /\ (driver'[d].pc = "idle" \/ driver'[d].turn = driver[d].turn)
    BY <1>w, Zenon
  <2> QED
    BY <1>0, <2>8, <2>9, EndAll, Zenon
<1>2. CASE ~Mine(d)
  <2>1. UNCHANGED progress
    BY <1>2, Zenon DEF DriverFails
  <2>2. driver'[d].pc = "idle" \/ (driver'[d].pc = "sleep" /\ ~driver'[d].retained)
    BY <1>2, <1>p, <1>w, Zenon
  <2>3. LeavesAlone(d)
    BY <1>0, <1>v, <1>w, <2>1, <2>2, Zenon DEF LeavesAlone
  <2> QED
    BY <1>0, <2>3, LeaveAll, Zenon
<1> QED
  BY <1>1, <1>2

LEMMA SerialWakes ==
    ASSUME All, Typed', NEW d \in Drivers, DriverWakes(d)
    PROVE  Serial' /\ Requests' /\ OnlyHeard'
<1>0. /\ Typed /\ Serial /\ Requests /\ driver[d].pc = "sleep" /\ UNCHANGED <<current, heard, bubble>>
  BY Zenon DEF All, DriverWakes
<1>1. CASE driver[d].retained /\ progress.turn = driver[d].turn /\ progress.sending /\ progress.in_flight = 0 /\ progress.dirty
  <2>1. driver' = [driver EXCEPT ![d] = Snapshot(progress)] /\ progress' = Claimed(progress)
    BY <1>1, Zenon DEF DriverWakes
  <2>2. Live /\ Holds(d)
    BY <1>0, <1>1, Zenon DEF Serial, DeadIsQuiet, Holds
  <2>3. \A e \in Drivers \ {d} : ~(Holds(e) /\ driver[e].turn = progress.turn)
    BY <1>0, <1>1, <2>2, Zenon DEF Serial, LiveIsSerial, OneHolder
  <2>4. Serial' /\ Requests' /\ progress'.turn = progress.turn /\ \A e \in Drivers : DriverFrom(e)
    BY <1>0, <2>1, <2>2, <2>3, ClaimIsSerial, Zenon
  <2>5. OnlyHeard'
    BY <1>0, <2>4, SameHeard, HeardKept, Zenon DEF All
  <2> QED
    BY <2>4, <2>5
<1>2. CASE ~driver[d].retained /\ Claims(driver[d].turn)
  <2>1. driver' = [driver EXCEPT ![d] = Snapshot(progress)] /\ progress' = Claimed(progress)
    BY <1>2, Zenon DEF DriverWakes
  <2>2. driver[d].turn # 0
    <3>1. driver[d].turn \in Turns
      BY <1>0, Zenon DEF All, OnlyHeard
    <3> QED
      BY <3>1, SMT DEF Turns
  <2>3. Live /\ ~progress.sending
    BY <1>2, <2>2, Zenon DEF Claims, Live
  <2>4. \A e \in Drivers : ~(Holds(e) /\ driver[e].turn = progress.turn)
    BY <1>0, <2>3, Zenon DEF Serial, LiveIsSerial, HolderSends
  <2>5. Serial' /\ Requests' /\ progress'.turn = progress.turn /\ \A e \in Drivers : DriverFrom(e)
    BY <1>0, <2>1, <2>3, <2>4, ClaimIsSerial, Zenon
  <2>6. OnlyHeard'
    BY <1>0, <2>5, SameHeard, HeardKept, Zenon DEF All
  <2> QED
    BY <2>5, <2>6
<1>3. CASE driver' = [driver EXCEPT ![d] = IdleDriver] /\ UNCHANGED progress
  <2>1. LeavesAlone(d)
    BY <1>0, <1>3, OnlyDriverChanges, IdleFields, Zenon DEF LeavesAlone
  <2> QED
    BY <1>0, <2>1, LeaveAll, Zenon
<1> QED
  BY <1>1, <1>2, <1>3, Zenon DEF DriverWakes

-----------------------------------------------------------------------------
(* The theorems *)

LEMMA InvParts == IInv <=> All
BY TypeParts, Zenon DEF IInv, All, Serial, Requests

LEMMA AllInit == Init => All
<1> SUFFICES ASSUME Init PROVE All
  OBVIOUS
<1>1. Typed /\ InOrder
  BY TypedInit, OrderInit
<1>2. \A d \in Drivers : driver[d].pc = "idle"
  BY IdleFields, Zenon DEF Init
<1>3. progress = NoProgress /\ current = 0 /\ \A t \in Turns : bubble[t] = NoBubble
  BY Zenon DEF Init
<1>4. OnlyHeard
  BY <1>2, <1>3, NoProgressFields, Zenon DEF OnlyHeard
<1>5. Serial
  <2>1. Fresh(progress)
    BY <1>3, NoProgressFields, SMT DEF Fresh, NoProgress
  <2> QED
    BY <1>1, <1>3, <2>1, FreshState, Zenon
<1>6. RequestIsNew /\ OneRequest
  BY <1>2, Zenon DEF RequestIsNew, OneRequest
<1>7. OneBubble
  <2>1. 0 <= 1
    BY SMT
  <2> QED
    BY <1>3, <2>1, NoBubbleFields, Zenon DEF OneBubble
<1> QED
  BY <1>1, <1>4, <1>5, <1>6, <1>7, Zenon DEF All, Requests

LEMMA AllNext == All /\ [Next]_vars => All' /\ Forward
<1> SUFFICES ASSUME All, [Next]_vars PROVE All' /\ Forward
  OBVIOUS
<1>0. Typed /\ OnlyHeard /\ Requests /\ CurrentOK /\ CloserOK /\ RouterOK
  BY OrderParts, Zenon DEF All
<1>o. CurrentOK' /\ CloserOK' /\ RouterOK' => InOrder'
  <2>1. (CurrentOK /\ CloserOK /\ RouterOK)' => InOrder'
    BY OrderParts, PTL
  <2> QED
    BY <2>1
<1>1. CASE StartTurn \/ EndTurn
  <2>1. UNCHANGED <<router, closer, heard, bubble>>
    BY <1>1, Zenon DEF StartTurn, EndTurn
  <2>2. Typed' /\ CurrentOK'
    BY <1>0, <1>1, TypedServer, CurrentServer
  <2>3. CloserOK' /\ RouterOK'
    BY <1>0, <2>1, Zenon DEF CloserOK, RouterOK
  <2>4. Serial' /\ Requests' /\ OnlyHeard'
    BY <1>1, <2>2, SerialServer
  <2> QED
    BY <1>0, <1>o, <2>1, <2>2, <2>3, <2>4, ForwardSame, Zenon DEF All
<1>2. CASE HearItem \/ RouterStep
  <2>1. UNCHANGED <<closer, bubble>>
    BY <1>2, Zenon DEF HearItem, RouterStep, HearStarted, UpsertItem, DeliverItem, HearTerminal, EmbedReply,
        RouterFinish, RouterDeliver, RouterPromote, RouterMark
  <2>2. Typed' /\ CurrentOK' /\ RouterOK'
    BY <1>0, <1>2, TypedRouter, CurrentRouter, RouterOKStep DEF All
  <2>3. CloserOK'
    BY <1>0, <2>1, Zenon DEF CloserOK
  <2>4. Serial' /\ Requests' /\ OnlyHeard'
    BY <1>2, <2>2, SerialRouter
  <2> QED
    BY <1>0, <1>o, <2>1, <2>2, <2>3, <2>4, ForwardSame, Zenon DEF All
<1>3. CASE Close \/ CloserStep
  <2>1. UNCHANGED <<router, heard, bubble>>
    BY <1>3, Zenon DEF Close, CloserStep, CloserFinish, CloserDeliver, CloserMark, CloserUnbind
  <2>2. Typed' /\ CurrentOK' /\ CloserOK'
    BY <1>0, <1>3, TypedCloser, CurrentCloser, CloserOKStep
  <2>3. RouterOK'
    BY <1>0, <2>1, Zenon DEF RouterOK
  <2>4. Serial' /\ Requests' /\ OnlyHeard'
    BY <1>3, <2>2, SerialCloser
  <2> QED
    BY <1>0, <1>o, <2>1, <2>2, <2>3, <2>4, ForwardSame, Zenon DEF All
<1>4. ASSUME NEW d \in Drivers, DriverStep(d) \/ DriverRefused(d) PROVE All' /\ Forward
  <2>1. UNCHANGED <<current, router, closer, heard, server>>
    BY <1>4, DriverKeeps
  <2>2. Typed'
    BY <1>0, <1>4, TypedDriver
  <2>3. CurrentOK' /\ CloserOK' /\ RouterOK'
    BY <1>0, <2>1, Zenon DEF CurrentOK, CloserOK, RouterOK
  <2>4. Serial' /\ Requests' /\ OnlyHeard'
    BY <1>4, <2>2, SerialChecks, SerialSends, SerialRefused, SerialCompletes, SerialFails, SerialWakes, Zenon
        DEF DriverStep
  <2>5. Forward
    <3>1. CASE DriverSends(d)
      BY <1>0, <3>1, DriverSendsSends, ForwardSends, Zenon
    <3>2. CASE ~DriverSends(d)
      <4>1. UNCHANGED bubble
        BY <1>4, <3>2, Zenon DEF DriverStep, DriverRefused, DriverChecks, DriverCompletes, DriverFails, DriverWakes
      <4> QED
        BY <1>0, <4>1, ForwardSame
    <3> QED
      BY <3>1, <3>2
  <2> QED
    BY <1>o, <2>2, <2>3, <2>4, <2>5, Zenon DEF All
<1>5. CASE UNCHANGED vars
  <2>1. /\ UNCHANGED <<current, progress, router, closer, driver, server>>
        /\ UNCHANGED <<heard, bubble, embedded, closed, updates, failures>>
    BY <1>5, Zenon DEF vars
  <2>2. Typed'
    BY <1>0, <2>1, Zenon DEF Typed
  <2>3. CurrentOK' /\ CloserOK' /\ RouterOK'
    BY <1>0, <2>1, Zenon DEF CurrentOK, CloserOK, RouterOK
  <2>4. Grows(progress, progress')
    BY <1>0, <2>1, GrowsSame, Zenon DEF Typed
  <2>5. Serial' /\ Requests' /\ OnlyHeard'
    BY <2>1, <2>2, <2>4, GrowIsSerial, Zenon
  <2> QED
    BY <1>0, <1>o, <2>1, <2>2, <2>3, <2>5, ForwardSame, Zenon DEF All
<1> QED
  BY <1>1, <1>2, <1>3, <1>4, <1>5, Zenon DEF Next

\* The inductive invariant holds in every state: the deliveries of a bubble are
\* serial, and a turn that is over is never claimed for again.
THEOREM InvCorrect == Spec => []IInv
<1>1. Init => IInv
  BY AllInit, InvParts
<1>2. IInv /\ [Next]_vars => IInv'
  <2>1. All' => IInv'
    BY InvParts, PTL
  <2> QED
    BY <2>1, AllNext, InvParts
<1> QED
  BY <1>1, <1>2, PTL DEF Spec

\* DeliveryInv: whatever the router, the closer, the next turn and any number of
\* driver tasks do between two awaits, a turn has at most one bubble
\* (claim_telegram_command_progress_delivery hands out one delivery at a time),
\* and no two requests for it are under way.
THEOREM DeliveryCorrect == Spec => []DeliveryInv
<1>1. IInv => DeliveryInv
  BY Zenon DEF IInv, DeliveryInv
<1> QED
  BY <1>1, InvCorrect, PTL

\* ShownForward: no edit, retry or late driver takes a bubble back to an earlier
\* revision, or opens one again that was closed.
THEOREM NeverBackward == Spec => ShownForward
<1>1. IInv /\ [Next]_vars => [Forward]_vars
  BY AllNext, InvParts
<1>2. Spec => [][Forward]_vars
  BY <1>1, InvCorrect, PTL DEF Spec
<1> QED
  BY <1>2, Zenon DEF ShownForward, Forward
=============================================================================
